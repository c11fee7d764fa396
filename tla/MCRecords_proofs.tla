--------------------------- MODULE MCRecords_proofs ---------------------------
(***************************************************************************)
(* Theorems about Directory and BoxTree, and about the sum of all the      *)
(* components of MCRecords, for any number of actors, zones, boxes,        *)
(* windows, parades and records.                                           *)
(***************************************************************************)
EXTENDS MCRecords, TLAPS

-----------------------------------------------------------------------------
(* The directory                                                           *)

\* No two chapters have one zone.
OneChapterEach ==
    \A c, d \in Chapter \cap Registered :
        actor[c].zone = actor[d].zone /\ actor[c].zone # NoZone => c = d

\* The profiles that are open and the owners are of actors who are there.
ActorsAreThere ==
    /\ \A w \in Window : tab[w].pc # "idle" => tab[w].who \in Registered
    /\ owners \subseteq Registered

\* The inductive invariant.
Inv == TypeOK /\ OneChapterEach /\ ActorsAreThere /\ OwnersHaveAZone

\* What a commit of row r of actor a may be.
Writes(a, r) ==
    /\ a \in Actor
    /\ r \in Row
    /\ Refers(a, r.zone)
    /\ a \in Registered => r.zone = Chosen(actor[a], r.zone)
    /\ actor' = [actor EXCEPT ![a] = r]

\* A row is not NoActor, and who is registered has a row.
LEMMA RowsAreRows ==
    ASSUME TypeOK
    PROVE  /\ \A a \in Registered : a \in Actor /\ actor[a] \in Row
           /\ \A r \in Row : r # NoActor /\ r.zone \in Zone \cup {NoZone}
<1>1. \A r \in Row : r # NoActor
  BY NoActorIsNoRow
<1>2. \A r \in Row : r.zone \in Zone \cup {NoZone}
  BY DEF Row
<1>. QED BY <1>1, <1>2 DEF TypeOK, Registered

\* A commit of a row leaves rows of the right kind, each chapter its zone, and
\* whoever had a zone with it.
LEMMA WriteKeeps ==
    ASSUME Inv, NEW a, NEW r, Writes(a, r), UNCHANGED <<zone, owners>>
    PROVE  /\ actor' \in [Actor -> Row \cup {NoActor}]
           /\ Registered' = Registered \cup {a}
           /\ \A b \in Registered' : actor'[b].zone \in Listed \cup {NoZone}
           /\ OneChapterEach'
           /\ \A b \in Registered :
                 actor[b].zone # NoZone => actor'[b].zone = actor[b].zone
<1>1. actor' \in [Actor -> Row \cup {NoActor}]
  BY DEF Inv, TypeOK, Writes
<1>2. /\ actor'[a] = r
      /\ \A b \in Actor \ {a} : actor'[b] = actor[b]
  BY DEF Inv, TypeOK, Writes
<1>3. Registered' = Registered \cup {a}
  BY <1>1, <1>2, RowsAreRows DEF Inv, Writes, Registered
<1>4. \A b \in Registered' : actor'[b].zone \in Listed \cup {NoZone}
  BY <1>2, <1>3, RowsAreRows DEF Inv, TypeOK, Writes, Refers
<1>5. \A b \in Registered :
          actor[b].zone # NoZone => actor'[b].zone = actor[b].zone
  <2>. SUFFICES ASSUME NEW b \in Registered, actor[b].zone # NoZone
                PROVE  actor'[b].zone = actor[b].zone
    OBVIOUS
  <2>1. CASE b = a
    BY <2>1, <1>2 DEF Writes, Chosen
  <2>2. CASE b # a
    BY <2>2, <1>2, RowsAreRows DEF Inv
  <2>. QED BY <2>1, <2>2
<1>6. OneChapterEach'
  <2>. SUFFICES ASSUME NEW c \in Chapter \cap Registered', NEW d \in Chapter \cap Registered',
                       actor'[c].zone = actor'[d].zone, actor'[c].zone # NoZone
                PROVE  c = d
    BY DEF OneChapterEach
  <2>1. CASE c # a /\ d # a
    BY <2>1, <1>2, <1>3 DEF Inv, OneChapterEach, Actor
  <2>2. ASSUME NEW e \in Chapter \cap Registered, e # a, a \in Chapter,
               actor[e].zone = r.zone
        PROVE  r.zone = NoZone
    BY <2>2 DEF Writes, Refers, Taken
  <2>. QED BY <2>1, <2>2, <1>2, <1>3 DEF Actor
<1>. QED BY <1>1, <1>3, <1>4, <1>5, <1>6

\* A registration is such a commit.
LEMMA RegisterWrites ==
    ASSUME TypeOK, NEW a \in Actor, NEW z \in Zone \cup {NoZone}, Register(a, z)
    PROVE  Writes(a, [zone |-> z, email |-> "matching"])
BY DEF Register, Writes, Row

\* So is sending a profile, whatever the page still offers.
LEMMA ProfileWrites ==
    ASSUME TypeOK, ActorsAreThere, NEW w \in Window, NEW z \in Zone \cup {NoZone},
           NEW e \in Typed, SendProfile(w, z, e)
    PROVE  /\ Writes(tab[w].who,
                     [zone |-> Chosen(actor[tab[w].who], Converted(z)), email |-> e])
           /\ tab[w].who \in Registered
<1>. DEFINE a == tab[w].who
            chosen == Chosen(actor[a], Converted(z))
<1>1. a \in Registered
  BY DEF ActorsAreThere, SendProfile
<1>2. actor[a] \in Row /\ a \in Actor
  BY <1>1, RowsAreRows
<1>3. chosen \in Zone \cup {NoZone}
  BY <1>2, RowsAreRows DEF Chosen, Converted, Listed
<1>4. [zone |-> chosen, email |-> e] \in Row
  BY <1>3, TypedIsEmail DEF Row
<1>5. chosen = Chosen(actor[a], chosen)
  BY DEF Chosen
<1>. QED BY <1>1, <1>2, <1>4, <1>5 DEF SendProfile, Writes

\* Nobody who has a zone loses or changes it, and no actor goes away.
ZonesStay ==
    /\ Registered \subseteq Registered'
    /\ \A a \in Registered : actor[a].zone # NoZone => actor'[a].zone = actor[a].zone

\* A commit of a row keeps the invariant, if the windows go on as they should.
LEMMA WriteStep ==
    ASSUME Inv, NEW a, NEW r, Writes(a, r), UNCHANGED <<zone, owners>>,
           tab' \in [Window -> TabState],
           \A w \in Window : tab'[w].pc # "idle" => tab'[w].who \in Registered \cup {a}
    PROVE  Inv' /\ ZonesStay
<1>1. Listed' = Listed
  BY DEF Listed
<1>2. TypeOK'
  BY <1>1, WriteKeeps DEF Inv, TypeOK
<1>3. ZonesStay
  BY WriteKeeps DEF ZonesStay
<1>4. OwnersHaveAZone' /\ ActorsAreThere'
  BY <1>3, WriteKeeps DEF Inv, OwnersHaveAZone, ActorsAreThere, ZonesStay
<1>. QED BY <1>2, <1>3, <1>4, WriteKeeps DEF Inv

\* What writes no actor keeps what is said of actors alone.
LEMMA OtherStep ==
    ASSUME Inv, UNCHANGED actor
    PROVE  Registered' = Registered /\ OneChapterEach' /\ ZonesStay
BY DEF Inv, Registered, OneChapterEach, ZonesStay

\* A window shows or sends something else, and nothing is written.
LEMMA ShowStep ==
    ASSUME Inv, UNCHANGED <<actor, zone, owners>>, NEW w \in Window,
           NEW next \in TabState, next.pc # "idle" => next.who \in Registered,
           Show(w, next)
    PROVE  Inv' /\ ZonesStay
<1>1. /\ tab' \in [Window -> TabState]
      /\ \A v \in Window : tab'[v] = IF v = w THEN next ELSE tab[v]
  BY DEF Inv, TypeOK, Show
<1>2. Listed' = Listed
  BY DEF Listed
<1>3. TypeOK'
  BY <1>1, <1>2, OtherStep DEF Inv, TypeOK
<1>4. OwnersHaveAZone' /\ ActorsAreThere'
  BY <1>1, OtherStep DEF Inv, OwnersHaveAZone, ActorsAreThere
<1>. QED BY <1>3, <1>4, OtherStep DEF Inv

\* Every step keeps the invariant and the zones.
LEMMA StepKeeps ==
    ASSUME Inv, [Next]_vars
    PROVE  Inv' /\ ZonesStay
<1>. USE DEF Inv
<1>1. ASSUME NEW a \in Actor, NEW z \in Zone \cup {NoZone}, Register(a, z)
      PROVE  Inv' /\ ZonesStay
  <2>1. Writes(a, [zone |-> z, email |-> "matching"])
    BY <1>1, RegisterWrites
  <2>2. UNCHANGED <<zone, owners, tab>>
    BY <1>1 DEF Register
  <2>. QED BY <2>1, <2>2, WriteStep DEF TypeOK, ActorsAreThere
<1>2. ASSUME NEW w \in Window, NEW a \in Actor, OpenProfile(w, a)
      PROVE  Inv' /\ ZonesStay
  <2>. DEFINE next == [pc |-> "form", who |-> a,
                       offered |-> IF actor[a].zone = NoZone THEN Listed ELSE {}]
  <2>1. next \in TabState
    BY DEF TabState, Listed
  <2>2. a \in Registered /\ Show(w, next) /\ UNCHANGED <<actor, zone, owners>>
    BY <1>2 DEF OpenProfile
  <2>. QED BY <2>1, <2>2, ShowStep
<1>3. ASSUME NEW w \in Window, NEW z \in Zone \cup {NoZone}, NEW e \in Typed,
             SendProfile(w, z, e)
      PROVE  Inv' /\ ZonesStay
  <2>. DEFINE r == [zone |-> Chosen(actor[tab[w].who], Converted(z)), email |-> e]
              next == [tab[w] EXCEPT !.pc = "check"]
  <2>1. Writes(tab[w].who, r) /\ tab[w].who \in Registered
    BY <1>3, ProfileWrites
  <2>2. UNCHANGED <<zone, owners>> /\ Show(w, next)
    BY <1>3 DEF SendProfile
  <2>3. next \in TabState /\ next.who = tab[w].who
    BY DEF TypeOK, TabState
  <2>4. /\ tab' \in [Window -> TabState]
        /\ \A v \in Window : tab'[v] = IF v = w THEN next ELSE tab[v]
    BY <2>2, <2>3 DEF TypeOK, Show
  <2>. HIDE DEF r, next
  <2>. QED BY <2>1, <2>2, <2>3, <2>4, WriteStep DEF ActorsAreThere
<1>4. ASSUME NEW w \in Window, CheckProfile(w) \/ Leave(w)
      PROVE  Inv' /\ ZonesStay
  <2>1. Idle \in TabState /\ Idle.pc = "idle"
    BY DEF Idle, TabState
  <2>. QED BY <1>4, <2>1, ShowStep DEF CheckProfile, Leave
<1>5. ASSUME NEW z \in Zone, CreateZone(z) \/ EditZone(z)
      PROVE  Inv' /\ ZonesStay
  <2>1. UNCHANGED <<actor, owners, tab>>
    BY <1>5 DEF CreateZone, EditZone
  <2>2. /\ zone' \in [Zone -> {"none", "new", "edited", "gone"}]
        /\ Listed \subseteq Listed'
    BY <1>5 DEF CreateZone, EditZone, TypeOK, Listed
  <2>3. TypeOK'
    BY <2>1, <2>2, OtherStep DEF TypeOK
  <2>. QED BY <2>1, <2>3, OtherStep DEF OwnersHaveAZone, ActorsAreThere
<1>6. ASSUME NEW z \in Zone, DeleteZone(z)
      PROVE  Inv' /\ ZonesStay
  <2>1. UNCHANGED <<actor, owners, tab>>
    BY <1>6 DEF DeleteZone
  <2>2. /\ zone' \in [Zone -> {"none", "new", "edited", "gone"}]
        /\ Listed \ {z} \subseteq Listed'
    BY <1>6 DEF DeleteZone, TypeOK, Listed
  <2>3. \A a \in Registered : actor[a].zone # z
    BY <1>6 DEF DeleteZone, Unheld
  <2>4. TypeOK'
    BY <2>1, <2>2, <2>3, OtherStep DEF TypeOK
  <2>. QED BY <2>1, <2>4, OtherStep DEF OwnersHaveAZone, ActorsAreThere
<1>7. ASSUME NEW b \in Brotherhood, Own(b) \/ Disown(b)
      PROVE  Inv' /\ ZonesStay
  <2>1. UNCHANGED <<actor, zone, tab>> /\ Listed' = Listed
    BY <1>7 DEF Own, Disown, Listed
  <2>2. /\ owners' \subseteq owners \cup {b}
        /\ b \in owners' => b \in owners \/ MayOwn(b)
    BY <1>7 DEF Own, Disown
  <2>3. TypeOK'
    BY <2>1, <2>2, OtherStep DEF TypeOK
  <2>. QED BY <2>1, <2>2, <2>3, OtherStep DEF OwnersHaveAZone, ActorsAreThere, MayOwn
<1>8. ASSUME UNCHANGED vars
      PROVE  Inv' /\ ZonesStay
  <2>1. UNCHANGED <<actor, zone, owners, tab>> /\ Listed' = Listed
    BY <1>8 DEF vars, Listed
  <2>2. TypeOK'
    BY <2>1, OtherStep DEF TypeOK
  <2>. QED BY <2>1, <2>2, OtherStep DEF OwnersHaveAZone, ActorsAreThere
<1>. QED
  BY <1>1, <1>2, <1>3, <1>4, <1>5, <1>6, <1>7, <1>8 DEF Next

-----------------------------------------------------------------------------

\* What every reachable state is like: types, the actors the windows and the parades
\* belong to, and no two chapters of one zone.
THEOREM ZonesAreHeld == Spec => []Inv
<1>1. Init => Inv
  <2>. SUFFICES ASSUME Init PROVE Inv
    OBVIOUS
  <2>1. Registered = {}
    BY DEF Init, Registered
  <2>2. Idle \in TabState /\ Idle.pc = "idle"
    BY DEF Idle, TabState
  <2>3. TypeOK
    BY <2>1, <2>2 DEF Init, TypeOK
  <2>. QED BY <2>1, <2>2, <2>3 DEF Init, Inv, OneChapterEach, ActorsAreThere, OwnersHaveAZone
<1>2. Inv /\ [Next]_vars => Inv'
  BY StepKeeps
<1>. QED BY <1>1, <1>2, PTL DEF Spec

\* The variables hold what the code can put there, and chosen zones are there.
THEOREM TypeCorrect == Spec => []TypeOK
<1>1. Inv => TypeOK
  BY DEF Inv
<1>. QED BY <1>1, ZonesAreHeld, PTL

\* A brotherhood with parades or floats has a zone.
THEOREM OwnersZoned == Spec => []OwnersHaveAZone
<1>1. Inv => OwnersHaveAZone
  BY DEF Inv
<1>. QED BY <1>1, ZonesAreHeld, PTL

\* The chapter that decides on a brotherhood's parades is always the same one.
THEOREM OneDecider == Spec => DeciderStays
<1>1. Inv /\ [Next]_vars => [DeciderStaysStep]_vars
  <2>. SUFFICES ASSUME Inv, [Next]_vars,
                       NEW b \in Brotherhood \cap Registered, Deciders(b) # {}
                PROVE  Deciders(b)' = Deciders(b)
    BY DEF DeciderStaysStep
  <2>1. Inv' /\ ZonesStay
    BY StepKeeps
  <2>2. PICK c \in Chapter \cap Registered :
          actor[b].zone # NoZone /\ actor[c].zone = actor[b].zone
    BY DEF Deciders
  <2>3. /\ c \in Registered' /\ b \in Registered'
        /\ actor'[b].zone = actor[b].zone /\ actor'[c].zone = actor[b].zone
    BY <2>1, <2>2 DEF ZonesStay
  <2>4. Deciders(b) = {c}
    BY <2>2 DEF Deciders, Inv, OneChapterEach
  <2>5. Deciders(b)' = {c}
    BY <2>1, <2>2, <2>3 DEF Deciders, Inv, OneChapterEach
  <2>. QED BY <2>4, <2>5
<1>. QED BY <1>1, ZonesAreHeld, PTL DEF Spec, DeciderStays

-----------------------------------------------------------------------------
(* The tree of boxes                                                       *)

\* The boxes the pages lead down to, from those below none.
Reached ==
    LET first == {b \in B!Stored : parent[b] = Top}
    IN  first \cup UNION {B!Below(b) : b \in first}

\* What the only window of the actor knows of the tree: where a box may go does not lie
\* below it, and a deletion has collected whatever is below what it deletes.
KnowsTree(t) ==
    /\ t.pc = "form" =>
         /\ t.offered \subseteq B!Stored
         /\ t.box # NoBox => /\ t.box \in B!Stored
                             /\ t.offered \cap ({t.box} \cup B!Below(t.box)) = {}
    /\ t.pc = "save" =>
         /\ t.to \in B!Stored \cup {Top}
         /\ t.box # NoBox => t.box \in B!Stored /\ t.to \notin {t.box} \cup B!Below(t.box)
    /\ t.pc = "delete" => B!Closed(t.doomed)

\* The inductive invariant.
TreeInv == B!TypeOK /\ B!EveryBoxReached /\ \A w \in BoxWindow : KnowsTree(boxes[w])

\* What is below a box has its own children and theirs.
LEMMA BelowIsClosed ==
    /\ \A b \in Box : /\ B!Below(b) \subseteq B!Stored
                      /\ B!Children(b) \subseteq B!Below(b)
                      /\ B!Closed(B!Below(b))
    /\ B!Stored \subseteq Box
<1>1. B!Stored \subseteq Box
  BY DEF B!Stored
<1>2. \A b \in Box : B!Below(b) \subseteq B!Stored /\ B!Children(b) \subseteq B!Below(b)
  BY DEF B!Below, B!Children
<1>3. ASSUME NEW b \in Box, NEW x \in B!Below(b), NEW c \in B!Children(x)
      PROVE  c \in B!Below(b)
  BY <1>3 DEF B!Below, B!Children, B!Closed
<1>. QED BY <1>1, <1>2, <1>3 DEF B!Closed

\* A set that has the boxes below none, and every box below one it has, has them all, if
\* every box is reached.
LEMMA Walk ==
    ASSUME B!EveryBoxReached, NEW T,
           \A x \in B!Stored : parent[x] \in T \cup {Top} => x \in T
    PROVE  B!Stored \subseteq T
<1>. DEFINE S == T \cap B!Stored
<1>1. S \in SUBSET B!Stored /\ B!Closed(S)
  BY DEF B!Closed, B!Children
<1>2. ASSUME NEW b \in B!Stored, parent[b] = Top
      PROVE  b \in S /\ B!Children(b) \subseteq S
  BY <1>2 DEF B!Children
<1>. HIDE DEF S
<1>3. \A b \in B!Stored : parent[b] = Top => B!Below(b) \subseteq S
  BY <1>1, <1>2 DEF B!Below
<1>4. S \subseteq T
  BY DEF S
<1>. QED BY <1>2, <1>3, <1>4 DEF B!EveryBoxReached

\* What is reached is such a set.
LEMMA ReachedGoesOn ==
    \A x \in B!Stored : parent[x] \in Reached \cup {Top} => x \in Reached
<1>. SUFFICES ASSUME NEW x \in B!Stored, parent[x] \in Reached \cup {Top}
              PROVE  x \in Reached
  OBVIOUS
<1>1. CASE parent[x] = Top
  BY <1>1 DEF Reached
<1>2. ASSUME NEW b \in B!Stored, parent[b] = Top, parent[x] \in {b} \cup B!Below(b)
      PROVE  x \in Reached
  <2>1. b \in Box
    BY BelowIsClosed
  <2>2. x \in B!Children(parent[x])
    BY DEF B!Children
  <2>3. x \in B!Below(b)
    BY <1>2, <2>1, <2>2, BelowIsClosed DEF B!Closed
  <2>. QED BY <1>2, <2>3 DEF Reached
<1>. QED BY <1>1, <1>2 DEF Reached

\* Every box is reached when no stored box is left out of Reached.
LEMMA ReachedIsAll == B!EveryBoxReached <=> B!Stored \subseteq Reached
BY BelowIsClosed DEF Reached, B!EveryBoxReached

\* Those facts of the boxes after a step.
LEMMA ReachedNext ==
    /\ \A x \in B!Stored' : parent'[x] \in Reached' \cup {Top} => x \in Reached'
    /\ B!Stored' \subseteq Reached' => B!EveryBoxReached'
<1>1. (\A x \in B!Stored : parent[x] \in Reached \cup {Top} => x \in Reached)'
  BY ReachedGoesOn, PTL
<1>2. (B!EveryBoxReached <=> B!Stored \subseteq Reached)'
  BY ReachedIsAll, PTL
<1>. QED BY <1>1, <1>2

\* A box that moves to where it was not below leaves none behind.
LEMMA MoveReaches ==
    ASSUME TreeInv, NEW b \in B!Stored, NEW p \in B!Stored \cup {Top},
           p \notin {b} \cup B!Below(b), parent' = [parent EXCEPT ![b] = p]
    PROVE  B!EveryBoxReached' /\ B!Stored' = B!Stored
<1>. DEFINE moved == {b} \cup B!Below(b)
<1>1. /\ b \in Box /\ parent'[b] = p /\ p # NoBox
      /\ \A x \in Box \ {b} : parent'[x] = parent[x]
  BY BelowIsClosed, BoxesAssumption DEF TreeInv, B!TypeOK
<1>2. B!Stored' = B!Stored
  BY <1>1 DEF B!Stored
<1>3. B!Stored \subseteq Reached' \cup moved
  <2>1. ASSUME NEW x \in B!Stored, parent[x] \in (Reached' \cup moved) \cup {Top}
        PROVE  x \in Reached' \cup moved
    <3>1. CASE parent[x] \in moved
      <4>1. x \in B!Children(parent[x])
        BY DEF B!Children
      <4>2. x \in B!Below(b)
        BY <1>1, <3>1, <4>1, BelowIsClosed DEF B!Closed
      <4>. QED BY <4>2
    <3>2. CASE parent[x] \in Reached' \cup {Top} /\ x # b
      BY <1>1, <1>2, <3>2, BelowIsClosed, ReachedNext
    <3>. QED BY <2>1, <3>1, <3>2
  <2>. HIDE DEF moved
  <2>. QED BY <2>1, Walk DEF TreeInv
<1>4. b \in Reached'
  BY <1>1, <1>2, <1>3, ReachedNext
<1>5. B!Stored \subseteq Reached'
  <2>1. ASSUME NEW x \in B!Stored, parent[x] \in Reached' \cup {Top}
        PROVE  x \in Reached'
    BY <1>1, <1>2, <1>4, <2>1, BelowIsClosed, ReachedNext
  <2>. QED BY <2>1, Walk DEF TreeInv
<1>. QED BY <1>2, <1>5, ReachedNext

\* A new box is below one that is reached.
LEMMA InsertReaches ==
    ASSUME TreeInv, NEW b \in Box \ B!Stored, NEW p \in B!Stored \cup {Top},
           parent' = [parent EXCEPT ![b] = p]
    PROVE  B!EveryBoxReached' /\ B!Stored' = B!Stored \cup {b}
<1>1. /\ parent'[b] = p /\ p # NoBox
      /\ \A x \in Box \ {b} : parent'[x] = parent[x]
  BY BelowIsClosed, BoxesAssumption DEF TreeInv, B!TypeOK
<1>2. B!Stored' = B!Stored \cup {b}
  BY <1>1 DEF B!Stored
<1>3. B!Stored \subseteq Reached'
  <2>1. ASSUME NEW x \in B!Stored, parent[x] \in Reached' \cup {Top}
        PROVE  x \in Reached'
    BY <1>1, <1>2, <2>1, BelowIsClosed, ReachedNext
  <2>. QED BY <2>1, Walk DEF TreeInv
<1>4. b \in Reached'
  BY <1>1, <1>2, <1>3, ReachedNext
<1>. QED BY <1>2, <1>3, <1>4, ReachedNext

\* A deletion that takes all that is below leaves the rest where it was.
LEMMA DeleteReaches ==
    ASSUME TreeInv, NEW D, B!Closed(D),
           parent' = [b \in Box |-> IF b \in D THEN NoBox ELSE parent[b]]
    PROVE  B!EveryBoxReached' /\ B!Stored' = B!Stored \ D
<1>1. B!Stored' = B!Stored \ D /\ \A x \in Box \ D : parent'[x] = parent[x]
  BY DEF B!Stored
<1>2. B!Stored \subseteq Reached' \cup D
  <2>1. ASSUME NEW x \in B!Stored, parent[x] \in (Reached' \cup D) \cup {Top}
        PROVE  x \in Reached' \cup D
    <3>1. CASE parent[x] \in D
      BY <3>1 DEF B!Closed, B!Children
    <3>2. CASE parent[x] \in Reached' \cup {Top} /\ x \notin D
      BY <1>1, <3>2, BelowIsClosed, ReachedNext
    <3>. QED BY <2>1, <3>1, <3>2
  <2>. QED BY <2>1, Walk DEF TreeInv
<1>. QED BY <1>1, <1>2, ReachedNext

\* The empty window is a window.
LEMMA IdleBox == B!Idle \in B!TabState /\ B!Idle.pc = "idle"
BY DEF B!Idle, B!TabState

\* A commit ends the request of the only window.
LEMMA OnlyWindowEnds ==
    ASSUME TreeInv, \A v, w \in BoxWindow : v = w, NEW w \in BoxWindow, NEW S,
           B!Commits(w, S)
    PROVE  boxes' \in [BoxWindow -> B!TabState] /\ \A v \in BoxWindow : KnowsTree(boxes[v])'
<1>1. boxes' = [v \in BoxWindow |-> B!Idle]
  BY DEF B!Commits
<1>. QED BY <1>1, IdleBox DEF KnowsTree

\* What writes no box leaves what is below each as it is.
LEMMA Unwritten ==
    ASSUME UNCHANGED parent
    PROVE  /\ B!Stored' = B!Stored
           /\ \A S : B!Closed(S)' <=> B!Closed(S)
           /\ \A b : B!Below(b)' = B!Below(b)
           /\ \A t : KnowsTree(t) => KnowsTree(t)'
           /\ B!EveryBoxReached => B!EveryBoxReached'
<1>1. /\ B!Stored' = B!Stored
      /\ \A S : B!Closed(S)' <=> B!Closed(S)
      /\ \A b : B!Below(b)' = B!Below(b)
  BY DEF B!Stored, B!Children, B!Closed, B!Below
<1>2. B!EveryBoxReached => B!EveryBoxReached'
  BY <1>1 DEF B!EveryBoxReached
<1>3. ASSUME NEW t, KnowsTree(t) PROVE KnowsTree(t)'
  BY <1>1, <1>3 DEF KnowsTree
<1>. QED BY <1>1, <1>2, <1>3

\* The window shows or asks for something else, and nothing is written.
LEMMA ShowTree ==
    ASSUME TreeInv, NEW w \in BoxWindow, NEW next \in B!TabState, KnowsTree(next),
           B!Show(w, next), UNCHANGED <<parent, used>>
    PROVE  TreeInv'
<1>1. /\ boxes' \in [BoxWindow -> B!TabState]
      /\ \A v \in BoxWindow : boxes'[v] = IF v = w THEN next ELSE boxes[v]
  BY DEF TreeInv, B!TypeOK, B!Show
<1>2. B!TypeOK' /\ B!EveryBoxReached'
  BY <1>1, Unwritten DEF TreeInv, B!TypeOK
<1>3. \A v \in BoxWindow : KnowsTree(boxes'[v])
  BY <1>1 DEF TreeInv
<1>4. \A v \in BoxWindow : KnowsTree(boxes[v])'
  BY <1>3, Unwritten DEF KnowsTree
<1>. QED BY <1>2, <1>4 DEF TreeInv

\* Every step of the only window keeps the tree.
LEMMA TreeStep ==
    ASSUME TreeInv, \A v, w \in BoxWindow : v = w, [B!Next]_(B!vars)
    PROVE  TreeInv'
<1>1. CASE UNCHANGED B!vars
  <2>1. UNCHANGED <<parent, used, boxes>>
    BY <1>1 DEF B!vars
  <2>2. \A w \in BoxWindow : KnowsTree(boxes[w])'
    BY <2>1, Unwritten DEF TreeInv, KnowsTree
  <2>. QED BY <2>1, <2>2, Unwritten DEF TreeInv, B!TypeOK
<1>2. ASSUME NEW w \in BoxWindow, B!OpenNew(w) PROVE TreeInv'
  <2>. DEFINE next == [B!Idle EXCEPT !.pc = "form", !.offered = B!Stored]
  <2>1. next \in B!TabState
    BY BelowIsClosed DEF B!Idle, B!TabState
  <2>2. KnowsTree(next)
    BY DEF KnowsTree, B!Idle
  <2>. QED BY <1>2, <2>1, <2>2, ShowTree DEF B!OpenNew
<1>3. ASSUME NEW w \in BoxWindow, NEW b \in Box, B!OpenEdit(w, b) PROVE TreeInv'
  <2>. DEFINE next == [B!Idle EXCEPT !.pc = "form", !.box = b, !.offered = B!Offered(b)]
  <2>1. B!Offered(b) \subseteq B!Stored /\ B!Offered(b) \cap ({b} \cup B!Below(b)) = {}
    BY DEF B!Offered
  <2>2. next \in B!TabState
    BY <2>1, BelowIsClosed DEF B!Idle, B!TabState
  <2>3. next.pc = "form" /\ next.box = b /\ next.offered = B!Offered(b)
    BY DEF B!Idle
  <2>4. b \in B!Stored /\ B!Show(w, next) /\ UNCHANGED <<parent, used>>
    BY <1>3 DEF B!OpenEdit
  <2>. HIDE DEF next
  <2>5. KnowsTree(next)
    BY <2>1, <2>3, <2>4 DEF KnowsTree
  <2>. QED BY <2>2, <2>4, <2>5, ShowTree
<1>4. ASSUME NEW w \in BoxWindow, B!Leave(w) \/ B!Rollback(w) PROVE TreeInv'
  <2>1. KnowsTree(B!Idle)
    BY IdleBox DEF KnowsTree
  <2>2. B!Show(w, B!Idle) /\ UNCHANGED <<parent, used>>
    BY <1>4 DEF B!Leave, B!Rollback
  <2>. QED BY <2>1, <2>2, IdleBox, ShowTree
\* What is sent is still right when it is stored: no other window moves the boxes.
<1>5. ASSUME NEW w \in BoxWindow, NEW p \in Box \cup {Top}, B!Sends(w, p),
             boxes[w].box = NoBox \/ boxes[w].box \in B!Stored
      PROVE  TreeInv'
  <2>. DEFINE t == boxes[w]
              to == B!Converted(p)
              next == [t EXCEPT !.pc = "save", !.to = to]
  <2>1. t \in B!TabState /\ KnowsTree(t) /\ t.pc = "form" /\ p \in t.offered \cup {Top}
    BY <1>5 DEF TreeInv, B!TypeOK, B!Sends
  <2>2. to \in B!Stored \cup {Top} /\ (to = p \/ to = Top)
    BY DEF B!Converted
  <2>3. /\ next \in B!TabState /\ next.pc = "save"
        /\ next.box = t.box /\ next.to = to
    BY <2>1, <2>2, BelowIsClosed DEF B!TabState
  <2>4. t.box # NoBox => to \notin {t.box} \cup B!Below(t.box)
    BY <1>5, <2>1, <2>2, BelowIsClosed, BoxesAssumption DEF KnowsTree
  <2>5. B!Show(w, next) /\ UNCHANGED <<parent, used>>
    BY <1>5 DEF B!Sends
  <2>. HIDE DEF next, t, to
  <2>6. KnowsTree(next)
    BY <1>5, <2>2, <2>3, <2>4 DEF KnowsTree, t
  <2>. QED BY <2>3, <2>5, <2>6, ShowTree
<1>6. ASSUME NEW w \in BoxWindow, NEW p \in Box \cup {Top}, B!SendNew(w, p) \/ B!SendEdit(w, p)
      PROVE  TreeInv'
  BY <1>5, <1>6 DEF B!SendNew, B!SendEdit
<1>7. ASSUME NEW w \in BoxWindow, NEW b \in Box, B!AskDelete(w, b) PROVE TreeInv'
  <2>. DEFINE D == {b} \cup B!Below(b)
              next == [B!Idle EXCEPT !.pc = "delete", !.doomed = D]
  <2>1. B!Closed(D) /\ D \subseteq Box
    BY BelowIsClosed DEF B!Closed
  <2>. HIDE DEF D
  <2>2. next \in B!TabState /\ next.pc = "delete" /\ next.doomed = D
    BY <2>1 DEF B!Idle, B!TabState
  <2>3. B!Show(w, next) /\ UNCHANGED <<parent, used>>
    BY <1>7 DEF B!AskDelete, D
  <2>. HIDE DEF next
  <2>4. KnowsTree(next)
    BY <2>1, <2>2 DEF KnowsTree
  <2>. QED BY <2>2, <2>3, <2>4, ShowTree
<1>8. ASSUME NEW w \in BoxWindow, B!Insert(w) PROVE TreeInv'
  <2>1. PICK b \in Box \ used :
          /\ parent' = [parent EXCEPT ![b] = boxes[w].to]
          /\ used' = used \cup {b} /\ B!Commits(w, {b})
    BY <1>8 DEF B!Insert
  <2>2. b \notin B!Stored /\ boxes[w].to \in B!Stored \cup {Top}
    BY <1>8 DEF TreeInv, B!TypeOK, B!Insert, B!Refers
  <2>3. B!EveryBoxReached' /\ B!Stored' = B!Stored \cup {b}
    BY <2>1, <2>2, InsertReaches
  <2>4. parent' \in [Box -> Box \cup {Top, NoBox}]
    BY <2>1, <2>2, BelowIsClosed DEF TreeInv, B!TypeOK
  <2>. QED BY <2>1, <2>3, <2>4, OnlyWindowEnds DEF TreeInv, B!TypeOK
<1>9. ASSUME NEW w \in BoxWindow, B!Save(w) PROVE TreeInv'
  <2>. DEFINE b == boxes[w].box
              p == boxes[w].to
  <2>1. /\ b \in B!Stored /\ p \in B!Stored \cup {Top} /\ p \notin {b} \cup B!Below(b)
        /\ parent' = [parent EXCEPT ![b] = p]
        /\ used' = used /\ B!Commits(w, {b})
    BY <1>9 DEF TreeInv, KnowsTree, B!Save
  <2>. HIDE DEF b, p
  <2>2. B!EveryBoxReached' /\ B!Stored' = B!Stored
    BY <2>1, MoveReaches
  <2>3. parent' \in [Box -> Box \cup {Top, NoBox}]
    BY <2>1, BelowIsClosed DEF TreeInv, B!TypeOK
  <2>. QED BY <2>1, <2>2, <2>3, OnlyWindowEnds DEF TreeInv, B!TypeOK
<1>10. ASSUME NEW w \in BoxWindow, B!Delete(w) PROVE TreeInv'
  <2>. DEFINE D == boxes[w].doomed
  <2>1. /\ parent' = [b \in Box |-> IF b \in D THEN NoBox ELSE parent[b]]
        /\ used' = used /\ B!Commits(w, D) /\ B!Closed(D)
    BY <1>10 DEF TreeInv, KnowsTree, B!Delete
  <2>. HIDE DEF D
  <2>2. B!EveryBoxReached' /\ B!Stored' = B!Stored \ D
    BY <2>1, DeleteReaches
  <2>3. parent' \in [Box -> Box \cup {Top, NoBox}]
    BY <2>1 DEF TreeInv, B!TypeOK
  <2>. QED BY <2>1, <2>2, <2>3, OnlyWindowEnds DEF TreeInv, B!TypeOK
<1>. QED
  BY <1>1, <1>2, <1>3, <1>4, <1>6, <1>7, <1>8, <1>9, <1>10 DEF B!Next

\* Nothing is stored at first.
LEMMA TreeInit == B!Init => TreeInv
<1>. SUFFICES ASSUME B!Init PROVE TreeInv
  OBVIOUS
<1>1. B!Stored = {}
  BY DEF B!Init, B!Stored
<1>2. B!TypeOK
  BY <1>1, IdleBox DEF B!Init, B!TypeOK
<1>3. \A w \in BoxWindow : KnowsTree(boxes[w])
  BY IdleBox DEF B!Init, KnowsTree
<1>. QED BY <1>1, <1>2, <1>3, ReachedIsAll DEF TreeInv

\* What the pages of any number of windows know: a box that has a form was inserted.
TreeTyping ==
    B!TypeOK /\ \A w \in BoxWindow : boxes[w].box \in used \cup {NoBox}

\* A commit ends the request of its window, and may make others stale.
LEMMA CommitTyped ==
    ASSUME TreeTyping, NEW w \in BoxWindow, NEW S, B!Commits(w, S)
    PROVE  /\ boxes' \in [BoxWindow -> B!TabState]
           /\ \A v \in BoxWindow : boxes'[v].box \in used \cup {NoBox}
<1>1. boxes' = [v \in BoxWindow |->
                 IF v = w THEN B!Idle
                 ELSE [boxes[v] EXCEPT !.stale =
                         @ \/ (boxes[v].pc = "save" /\ boxes[v].box \in S)
                           \/ (boxes[v].pc = "delete" /\ boxes[v].doomed \cap S # {})]]
  BY DEF B!Commits
<1>2. \A v \in BoxWindow, s \in BOOLEAN :
        /\ [boxes[v] EXCEPT !.stale = s] \in B!TabState
        /\ [boxes[v] EXCEPT !.stale = s].box = boxes[v].box
  BY DEF TreeTyping, B!TypeOK, B!TabState
<1>3. B!Idle.box = NoBox
  BY DEF B!Idle
<1>. QED BY <1>1, <1>2, <1>3, IdleBox DEF TreeTyping, B!TypeOK, B!TabState

\* What a window shows or asks for next is of the type of the windows.
LEMMA ShowTyped ==
    ASSUME TreeTyping, NEW w \in BoxWindow, NEW next \in B!TabState, B!Show(w, next),
           next.box \in used \cup {NoBox}, UNCHANGED <<parent, used>>
    PROVE  TreeTyping'
<1>1. /\ boxes' \in [BoxWindow -> B!TabState]
      /\ \A v \in BoxWindow : boxes'[v] = IF v = w THEN next ELSE boxes[v]
  BY DEF TreeTyping, B!TypeOK, B!Show
<1>. QED BY <1>1, Unwritten DEF TreeTyping, B!TypeOK

\* Every step of any number of windows keeps the types.
LEMMA TypingStep ==
    ASSUME TreeTyping, [B!Next]_(B!vars)
    PROVE  TreeTyping'
<1>0. B!Stored \subseteq Box /\ B!Stored \subseteq used
  BY BelowIsClosed DEF TreeTyping, B!TypeOK
<1>1. CASE UNCHANGED B!vars
  <2>1. UNCHANGED <<parent, used, boxes>>
    BY <1>1 DEF B!vars
  <2>. QED BY <2>1, Unwritten DEF TreeTyping, B!TypeOK
<1>2. ASSUME NEW w \in BoxWindow, B!OpenNew(w) PROVE TreeTyping'
  <2>. DEFINE next == [B!Idle EXCEPT !.pc = "form", !.offered = B!Stored]
  <2>1. next \in B!TabState /\ next.box = NoBox
    BY <1>0 DEF B!Idle, B!TabState
  <2>. QED BY <1>2, <2>1, ShowTyped DEF B!OpenNew
<1>3. ASSUME NEW w \in BoxWindow, NEW b \in Box, B!OpenEdit(w, b) PROVE TreeTyping'
  <2>. DEFINE next == [B!Idle EXCEPT !.pc = "form", !.box = b, !.offered = B!Offered(b)]
  <2>1. next \in B!TabState /\ next.box = b
    BY <1>0 DEF B!Idle, B!TabState, B!Offered
  <2>2. b \in used /\ B!Show(w, next) /\ UNCHANGED <<parent, used>>
    BY <1>0, <1>3 DEF B!OpenEdit
  <2>. HIDE DEF next
  <2>. QED BY <2>1, <2>2, ShowTyped
<1>4. ASSUME NEW w \in BoxWindow, NEW b \in Box, B!AskDelete(w, b) PROVE TreeTyping'
  <2>. DEFINE D == {b} \cup B!Below(b)
              next == [B!Idle EXCEPT !.pc = "delete", !.doomed = D]
  <2>1. D \subseteq Box
    BY BelowIsClosed
  <2>. HIDE DEF D
  <2>2. next \in B!TabState /\ next.box = NoBox
    BY <2>1 DEF B!Idle, B!TabState
  <2>3. B!Show(w, next) /\ UNCHANGED <<parent, used>>
    BY <1>4 DEF B!AskDelete, D
  <2>. HIDE DEF next
  <2>. QED BY <2>2, <2>3, ShowTyped
<1>5. ASSUME NEW w \in BoxWindow, B!Leave(w) \/ B!Rollback(w) PROVE TreeTyping'
  <2>1. B!Idle.box = NoBox
    BY DEF B!Idle
  <2>. QED BY <1>5, <2>1, IdleBox, ShowTyped DEF B!Leave, B!Rollback
<1>6. ASSUME NEW w \in BoxWindow, NEW p \in Box \cup {Top}, B!SendNew(w, p) \/ B!SendEdit(w, p)
      PROVE  TreeTyping'
  <2>. DEFINE next == [boxes[w] EXCEPT !.pc = "save", !.to = B!Converted(p)]
  <2>1. B!Converted(p) \in Box \cup {Top}
    BY <1>0 DEF B!Converted
  <2>2. next \in B!TabState /\ next.box = boxes[w].box
    BY <2>1 DEF TreeTyping, B!TypeOK, B!TabState
  <2>3. B!Show(w, next) /\ UNCHANGED <<parent, used>>
    BY <1>6 DEF B!SendNew, B!SendEdit, B!Sends
  <2>. HIDE DEF next
  <2>. QED BY <2>2, <2>3, ShowTyped DEF TreeTyping
<1>7. ASSUME NEW w \in BoxWindow, NEW b \in used', NEW p \in B!Stored \cup {Top}, NEW S,
             parent' = [parent EXCEPT ![b] = p], B!Commits(w, S),
             used \subseteq used', used' \in SUBSET Box
      PROVE  TreeTyping'
  <2>1. parent' \in [Box -> Box \cup {Top, NoBox}]
    BY <1>0, <1>7 DEF TreeTyping, B!TypeOK
  <2>2. B!Stored' \subseteq used'
    BY <1>0, <1>7 DEF TreeTyping, B!TypeOK, B!Stored
  <2>. QED BY <1>7, <2>1, <2>2, CommitTyped DEF TreeTyping, B!TypeOK
<1>8. ASSUME NEW w \in BoxWindow, B!Insert(w) \/ B!Save(w) PROVE TreeTyping'
  <2>1. boxes[w].to \in B!Stored \cup {Top}
    BY <1>8 DEF B!Insert, B!Save, B!Refers
  <2>2. CASE B!Insert(w)
    <3>1. PICK b \in Box \ used :
            /\ parent' = [parent EXCEPT ![b] = boxes[w].to]
            /\ used' = used \cup {b} /\ B!Commits(w, {b})
      BY <2>2 DEF B!Insert
    <3>2. used' \in SUBSET Box
      BY <3>1 DEF TreeTyping, B!TypeOK
    <3>. QED BY <1>7, <2>1, <3>1, <3>2
  <2>3. CASE B!Save(w)
    <3>1. /\ parent' = [parent EXCEPT ![boxes[w].box] = boxes[w].to]
          /\ used' = used /\ B!Commits(w, {boxes[w].box}) /\ boxes[w].box \in used
      BY <2>3 DEF B!Save, TreeTyping
    <3>2. used' \in SUBSET Box
      BY <3>1 DEF TreeTyping, B!TypeOK
    <3>. QED BY <1>7, <2>1, <3>1, <3>2
  <2>. QED BY <1>8, <2>2, <2>3
<1>9. ASSUME NEW w \in BoxWindow, B!Delete(w) PROVE TreeTyping'
  <2>1. /\ parent' = [b \in Box |-> IF b \in boxes[w].doomed THEN NoBox ELSE parent[b]]
        /\ used' = used /\ B!Commits(w, boxes[w].doomed)
    BY <1>9 DEF B!Delete
  <2>2. parent' \in [Box -> Box \cup {Top, NoBox}] /\ B!Stored' \subseteq B!Stored
    BY <2>1 DEF TreeTyping, B!TypeOK, B!Stored
  <2>. QED BY <1>0, <2>1, <2>2, CommitTyped DEF TreeTyping, B!TypeOK
<1>. QED
  BY <1>1, <1>2, <1>3, <1>4, <1>5, <1>6, <1>8, <1>9 DEF B!Next

\* Nothing is stored at first.
LEMMA TypingInit == B!Init => TreeTyping
<1>1. B!Idle.box = NoBox
  BY DEF B!Idle
<1>. QED BY <1>1, TreeInit DEF TreeInv, TreeTyping, B!Init

\* In a tree whose boxes are all reached no box is below itself: findByParent() and
\* delete() end, from whatever box they start.
LEMMA ReachedEnds ==
    ASSUME B!EveryBoxReached, NEW b \in Box
    PROVE  B!Ends(b)
<1>. DEFINE Good == {c \in B!Stored : c \notin B!Below(c)}
\* The last way down to a box is from the box above it.
<1>1. ASSUME NEW y \in Box, NEW x \in B!Below(y)
      PROVE  parent[x] \in {y} \cup B!Below(y)
  <2>. DEFINE S == {c \in B!Below(y) : parent[c] \in {y} \cup B!Below(y)}
  <2>1. S \in SUBSET B!Stored /\ B!Children(y) \subseteq S
    BY BelowIsClosed DEF B!Children
  <2>2. B!Closed(S)
    BY BelowIsClosed DEF B!Closed, B!Children
  <2>3. x \in S
    BY <2>1, <2>2 DEF B!Below
  <2>. QED BY <2>3
\* What is below a box below y is below y.
<1>2. ASSUME NEW y \in Box, NEW x \in B!Below(y)
      PROVE  B!Below(x) \subseteq B!Below(y)
  <2>1. /\ B!Below(y) \in SUBSET B!Stored /\ B!Closed(B!Below(y))
        /\ B!Children(x) \subseteq B!Below(y)
    BY <1>2, BelowIsClosed DEF B!Closed
  <2>. HIDE DEF B!Below
  <2>. QED BY <2>1 DEF B!Below
<1>3. ASSUME NEW x \in B!Stored, parent[x] \in Good \cup {Top}
      PROVE  x \in Good
  <2>. SUFFICES ASSUME x \in B!Below(x) PROVE FALSE
    OBVIOUS
  <2>1. x \in Box /\ parent[x] \in {x} \cup B!Below(x)
    BY <1>1, BelowIsClosed
  <2>2. parent[x] \in Box
    BY <2>1, BelowIsClosed
  <2>3. parent[x] \in Good /\ parent[x] # x
    BY <1>3, <2>2, BoxesAssumption
  <2>4. x \in B!Below(parent[x])
    <3>1. x \in B!Children(parent[x])
      BY DEF B!Children
    <3>. QED BY <2>2, <3>1, BelowIsClosed
  <2>5. parent[x] \in B!Below(parent[x])
    BY <1>2, <2>1, <2>2, <2>3, <2>4
  <2>. QED BY <2>3, <2>5
<1>. HIDE DEF Good
<1>4. B!Stored \subseteq Good
  BY <1>3, Walk
<1>5. \A c \in B!Below(b) : c \notin B!Below(c)
  BY <1>4, BelowIsClosed DEF Good
<1>6. b \notin B!Below(b)
  BY <1>4, BelowIsClosed DEF Good
<1>. QED BY <1>5, <1>6 DEF B!Ends

-----------------------------------------------------------------------------
(* The components side by side: what is proved of the specification of each *)
(* holds in the behaviours the runs check, in which one component moves.    *)

HP == INSTANCE HistoryRecords_proofs WITH tab <- edits
FP == INSTANCE FinderCache_proofs WITH tab <- search

\* The history in the sum, and the one its theorems are about, are the same.
LEMMA HistoryIs ==
    /\ H!Init => HP!Init
    /\ [H!Next]_(H!vars) => [HP!Next]_(HP!vars)
    /\ HP!TypeOK => H!TypeOK
    /\ HP!OneInception => H!OneInception
    /\ HP!EachListedOnce => H!EachListedOnce
<1>1. H!Init => HP!Init
  BY DEF H!Init, HP!Init, H!Ids, HP!Ids, H!Idle, HP!Idle, H!Nothing, HP!Nothing, H!AnyText,
         HP!AnyText
<1>2. H!Next => HP!Next
  BY DEF H!Next, HP!Next, H!AskAdd, HP!AskAdd, H!Add, HP!Add, H!AskEdit, HP!AskEdit, H!Edit,
         HP!Edit, H!AskDelete, HP!AskDelete, H!Delete, HP!Delete, H!Rollback, HP!Rollback,
         H!Ids, HP!Ids, H!Asks, HP!Asks, H!Show, HP!Show, H!Ends, HP!Ends, H!Writes, HP!Writes,
         H!MayAdd, HP!MayAdd, H!Stored, HP!Stored, H!Lists, HP!Lists, H!Delisted, HP!Delisted,
         H!Idle, HP!Idle, H!Nothing, HP!Nothing, H!AnyText, HP!AnyText
<1>3. HP!vars = H!vars /\ (UNCHANGED H!vars => UNCHANGED HP!vars)
  BY DEF H!vars, HP!vars
<1>4. HP!TypeOK => H!TypeOK
  BY DEF H!TypeOK, HP!TypeOK, H!Ids, HP!Ids, H!Record, HP!Record, H!TabState, HP!TabState
<1>5. /\ HP!OneInception => H!OneInception
      /\ HP!EachListedOnce => H!EachListedOnce
  BY DEF H!OneInception, HP!OneInception, H!EachListedOnce, HP!EachListedOnce, H!Stored,
         HP!Stored, H!Ids, HP!Ids
<1>. QED BY <1>1, <1>2, <1>3, <1>4, <1>5

\* The finder in the sum, and the one its theorems are about, are the same.
LEMMA FinderIs ==
    /\ F!Init => FP!Init
    /\ [F!Next]_(F!vars) => [FP!Next]_(FP!vars)
    /\ FP!TypeOK => F!TypeOK
    /\ [FP!YoungResultsStandStep]_(FP!vars) => [F!YoungResultsStandStep]_(F!vars)
<1>1. F!Init => FP!Init
  BY DEF F!Init, FP!Init, F!Idle, FP!Idle, F!Empty, FP!Empty
<1>2. F!Next => FP!Next
  <2>1. F!Found = FP!Found
    <3>1. \A S : F!Cardinality(S) = FP!Cardinality(S)
      BY DEF F!Cardinality, FP!Cardinality
    <3>. QED BY <3>1 DEF F!Found, FP!Found, F!Final, FP!Final, F!Taken, FP!Taken
  <2>. QED
    BY <2>1
    DEF F!Next, FP!Next, F!OpenSearch, FP!OpenSearch, F!CheckExpiry, FP!CheckExpiry,
        F!CheckAgain, FP!CheckAgain, F!Drop, FP!Drop, F!SendSearch, FP!SendSearch, F!Search,
        FP!Search, F!Clear, FP!Clear, F!Leave, FP!Leave, F!Rollback, FP!Rollback,
        F!SaveParade, FP!SaveParade, F!Configure, FP!Configure, F!Tick, FP!Tick, F!Show,
        FP!Show, F!Goes, FP!Goes, F!Expired, FP!Expired, F!ToDrop, FP!ToDrop, F!Commits,
        FP!Commits, F!Store, FP!Store, F!Refers, FP!Refers, F!Empty, FP!Empty, F!Idle,
        FP!Idle
<1>3. FP!vars = F!vars /\ (UNCHANGED F!vars <=> UNCHANGED FP!vars)
  BY DEF F!vars, FP!vars
<1>4. FP!TypeOK => F!TypeOK
  BY DEF F!TypeOK, FP!TypeOK, F!Finder, FP!Finder, F!Moments, FP!Moments, F!Refers,
         FP!Refers, F!TabState, FP!TabState, F!InTransaction, FP!InTransaction
<1>5. FP!YoungResultsStandStep => F!YoungResultsStandStep
  BY DEF F!YoungResultsStandStep, FP!YoungResultsStandStep, F!Shortest, FP!Shortest
<1>. QED BY <1>1, <1>2, <1>3, <1>4, <1>5

\* A behaviour of the sum is one of each component.
LEMMA SumIsEach ==
    /\ SumInit => Init /\ F!Init /\ H!Init /\ B!Init
    /\ [SumNext]_all => /\ [Next]_vars /\ [F!Next]_(F!vars)
                        /\ [H!Next]_(H!vars) /\ [B!Next]_(B!vars)
<1>1. SumNext => /\ Next \/ UNCHANGED vars
                 /\ F!Next \/ UNCHANGED finders
                 /\ H!Next \/ UNCHANGED histories
                 /\ B!Next \/ UNCHANGED trees
  BY DEF SumNext
<1>2. F!vars = finders /\ H!vars = histories /\ B!vars = trees
  BY DEF F!vars, finders, H!vars, histories, B!vars, trees
<1>3. /\ UNCHANGED finders => UNCHANGED F!vars
      /\ UNCHANGED histories => UNCHANGED H!vars
      /\ UNCHANGED trees => UNCHANGED B!vars
  BY DEF F!vars, finders, H!vars, histories, B!vars, trees
<1>4. UNCHANGED all => UNCHANGED <<vars, finders, histories, trees>>
  BY DEF all
<1>. QED BY <1>1, <1>2, <1>3, <1>4 DEF SumInit

\* The constants of the sum are what the theorems about the history assume.
LEMMA HistoryFits == HP!ConstantsFit
BY RecordsAssumption DEF HP!ConstantsFit, HP!Ids, HP!Record

\* The constants of the sum are what the theorems about the finder assume.
LEMMA FinderFits == FP!ConstantsFit
BY FinderAssumption DEF FP!ConstantsFit, FP!Moments

\* From the boxes below none the pages of one window lead down to every box, whatever is
\* moved, made and deleted.
THEOREM EveryBoxIsReached ==
    ASSUME \A v, w \in BoxWindow : v = w
    PROVE  SumSpec => []EveryBoxReached
<1>1. SumInit => TreeInv
  BY SumIsEach, TreeInit
<1>2. TreeInv /\ [SumNext]_all => TreeInv'
  BY SumIsEach, TreeStep
<1>3. TreeInv => EveryBoxReached
  BY DEF TreeInv, EveryBoxReached
<1>. QED BY <1>1, <1>2, <1>3, PTL DEF SumSpec

\* The recursions of findByParent() and delete() end, from whatever box one window asks.
THEOREM EveryWalkEnds ==
    ASSUME \A v, w \in BoxWindow : v = w
    PROVE  SumSpec => [](\A b \in Box : B!Ends(b))
<1>1. EveryBoxReached => \A b \in Box : B!Ends(b)
  BY ReachedEnds DEF EveryBoxReached
<1>. QED BY <1>1, EveryBoxIsReached, PTL

\* One inception record at most, the one the history names, for any windows.
THEOREM OneInceptionEver == SumSpec => []OneInception
<1>1. HP!Spec => []HP!OneInception
  BY HistoryFits, HP!OneInceptionEver
<1>2. /\ SumInit => HP!Init
      /\ [SumNext]_all => [HP!Next]_(HP!vars)
      /\ HP!OneInception => OneInception
  BY SumIsEach, HistoryIs DEF OneInception
<1>. QED BY <1>1, <1>2, PTL DEF HP!Spec, SumSpec

\* The history lists every other record once, and nothing that is not there.
THEOREM ListedOnceEver == SumSpec => []EachListedOnce
<1>1. HP!Spec => []HP!EachListedOnce
  BY HistoryFits, HP!ListedOnceEver
<1>2. /\ SumInit => HP!Init
      /\ [SumNext]_all => [HP!Next]_(HP!vars)
      /\ HP!EachListedOnce => EachListedOnce
  BY SumIsEach, HistoryIs DEF EachListedOnce
<1>. QED BY <1>1, <1>2, PTL DEF HP!Spec, SumSpec

\* Whatever the administrator sets meanwhile, results younger than the shortest cache
\* time are dropped only at the request of a window that shows them.
THEOREM YoungStand == SumSpec => YoungResultsStand
<1>1. FP!Spec => FP!YoungResultsStand
  BY FinderFits, FP!YoungStand
<1>2. /\ SumInit => FP!Init
      /\ [SumNext]_all => [FP!Next]_(FP!vars)
      /\ [FP!YoungResultsStandStep]_(FP!vars) => [F!YoungResultsStandStep]_(F!vars)
  BY SumIsEach, FinderIs
<1>. QED BY <1>1, <1>2, PTL
        DEF FP!Spec, SumSpec, FP!YoungResultsStand, YoungResultsStand, F!YoungResultsStand

\* Everything the four components keep is of its type, for any number of windows.
THEOREM RecordsTyped == SumSpec => []RecordsTypeOK
<1>1. SumSpec => []TypeOK
  BY SumIsEach, TypeCorrect, PTL DEF SumSpec, Spec
<1>2. SumSpec => []HP!Inv
  <2>1. HP!Spec => []HP!Inv
    BY HistoryFits, HP!RequestsKnow
  <2>2. SumInit => HP!Init
    BY SumIsEach, HistoryIs
  <2>3. [SumNext]_all => [HP!Next]_(HP!vars)
    BY SumIsEach, HistoryIs
  <2>. QED BY <2>1, <2>2, <2>3, PTL DEF SumSpec, HP!Spec
<1>3. SumSpec => []FP!Inv
  <2>1. FP!Spec => []FP!Inv
    BY FinderFits, FP!PagesKnow
  <2>2. SumInit => FP!Init
    BY SumIsEach, FinderIs
  <2>3. [SumNext]_all => [FP!Next]_(FP!vars)
    BY SumIsEach, FinderIs
  <2>. QED BY <2>1, <2>2, <2>3, PTL DEF SumSpec, FP!Spec
<1>4. SumSpec => []TreeTyping
  <2>1. SumInit => TreeTyping
    BY SumIsEach, TypingInit
  <2>2. TreeTyping /\ [SumNext]_all => TreeTyping'
    BY SumIsEach, TypingStep
  <2>. QED BY <2>1, <2>2, PTL DEF SumSpec
<1>5. TypeOK /\ HP!Inv /\ FP!Inv /\ TreeTyping => RecordsTypeOK
  BY HistoryIs, FinderIs DEF HP!Inv, FP!Inv, TreeTyping, RecordsTypeOK
<1>. QED BY <1>1, <1>2, <1>3, <1>4, <1>5, PTL

=============================================================================
