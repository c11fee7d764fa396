------------------------ MODULE MarchPlacement_proofs ------------------------
(***************************************************************************)
(* Theorems about MarchPlacement, for any members and windows, any bounds, *)
(* and whatever fails. What each needs of the brotherhood, that it types   *)
(* the recommended place or sends fresh forms, it says.                    *)
(***************************************************************************)
EXTENDS MarchPlacement, TLAPS

\* No id is given twice.
IdsAhead == \A i \in Ids : i >= nextId => march[i] = NoMarch

\* What the page or request of a window holds: the brotherhood's forms are of marches
\* to be decided on, and a deletion holds the row that is stored unless it was written
\* since.
Knows(w) ==
    LET t == tab[w]
    IN  /\ t.pc \in {"accepting", "rejecting", "notify", "delete"} =>
              t.id \in Ids /\ t.row \in March
        /\ t.pc \in {"accepting", "rejecting"} => t.row.status = "PENDING" /\ w \in Window
        /\ t.pc = "accepting" => t.advice \in Places
        /\ t.pc = "delete" /\ ~t.stale => march[t.id] = t.row
        /\ t.pc = "delete" /\ FreshForms => t.row.status = "PENDING"
        /\ t.pc = "requesting" => w \in Member /\ ~Applied(w)

\* One window gives the places, as recommended, where recommendations can be trusted.
OneByOne ==
    /\ Advised
    /\ \A b, c \in Window : b = c
    /\ MaxRow <= Cached /\ MaxCols <= Cached

Holds(i, place) == i \in Stored /\ march[i].place = place

\* No two marches hold one place, and the recommended one is free while its page is open.
PlacesApart ==
    /\ \A i, j \in Ids, p \in Places : Holds(i, p) /\ Holds(j, p) => i = j
    /\ \A w \in Tab, i \in Ids : tab[w].pc = "accepting" => ~Holds(i, tab[w].advice)

\* The inductive invariant.
Inv ==
    /\ TypeOK
    /\ IdsAhead
    /\ MarchesOnce
    /\ Advised => PlacedIffApproved
    /\ OneByOne => PlacesApart
    /\ \A w \in Tab : Knows(w)

\* Stored rows are rows.
LEMMA RowsAreRows ==
    ASSUME TypeOK
    PROVE  \A i \in Ids : i \in Stored <=> march[i] \in March
BY NoRowsAssumption DEF TypeOK, Stored

\* A window that waits for nothing is a state of a window.
LEMMA IdleIsState == Idle \in TabState /\ Idle.pc = "idle"
BY DEF Idle, TabState

\* A window shows something else, and no march is written.
LEMMA ShowStep ==
    ASSUME Inv, NEW w \in Tab, NEW next \in TabState,
           tab' = [tab EXCEPT ![w] = next], Knows(w)',
           OneByOne /\ next.pc = "accepting" => \A i \in Ids : ~Holds(i, next.advice),
           told' \in [Ids -> {"PENDING", "APPROVED", "REJECTED"}],
           UNCHANGED <<march, nextId>>
    PROVE  Inv'
<1>1. /\ tab' \in [Tab -> TabState]
      /\ \A v \in Tab : tab'[v] = IF v = w THEN next ELSE tab[v]
  BY DEF Inv, TypeOK
<1>2. Stored' = Stored
  BY DEF Stored
<1>3. TypeOK' /\ IdsAhead' /\ MarchesOnce'
  BY <1>1, <1>2 DEF Inv, TypeOK, IdsAhead, MarchesOnce
<1>4. Advised => PlacedIffApproved'
  BY <1>2 DEF Inv, PlacedIffApproved, Approved
<1>5. OneByOne => PlacesApart'
  BY <1>1, <1>2 DEF Inv, PlacesApart, Holds
<1>6. \A v \in Tab : Knows(v)'
  <2>. SUFFICES ASSUME NEW v \in Tab, v # w PROVE Knows(v)'
    OBVIOUS
  <2>1. Knows(v) /\ tab'[v] = tab[v]
    BY <1>1 DEF Inv
  <2>. QED BY <2>1, <1>2 DEF Knows, Applied
<1>. QED BY <1>3, <1>4, <1>5, <1>6 DEF Inv, OneByOne

\* A march is stored: inserted, changed or deleted.
LEMMA StoreStep ==
    ASSUME Inv, NEW w \in Tab, NEW i \in Ids, NEW row \in March \cup {NoMarch},
           NEW next \in TabState, Store(w, i, row, next),
           \/ next.pc = "idle"
           \/ next.pc = "notify" /\ next.id \in Ids /\ next.row \in March,
           \/ i = nextId /\ nextId' = nextId + 1 /\ row.member = w /\ ~Applied(w)
              /\ row \in March
           \/ i \in Stored /\ nextId' = nextId
              /\ (row = NoMarch \/ row.member = march[i].member),
           row = NoMarch \/ row.place = NoPlace
             \/ (row.status = "APPROVED"
                   /\ (OneByOne => \A j \in Ids : ~Holds(j, row.place))
                   /\ w \in Window),
           Advised /\ row # NoMarch => (row.status = "APPROVED" <=> row.place # NoPlace),
           UNCHANGED told
    PROVE  Inv'
<1>1. /\ march' \in [Ids -> March \cup {NoMarch}]
      /\ \A j \in Ids : march'[j] = IF j = i THEN row ELSE march[j]
  BY DEF Inv, TypeOK, Store
<1>2. /\ \A j \in Ids : j \in Stored' <=> IF j = i THEN row # NoMarch ELSE j \in Stored
      /\ Stored \subseteq Ids /\ Stored' \subseteq Ids
  BY <1>1 DEF Stored
<1>3. /\ tab' \in [Tab -> TabState]
      /\ tab'[w] = next
      /\ \A v \in Tab \ {w} :
           /\ tab'[v].pc = tab[v].pc
           /\ tab'[v].id = tab[v].id
           /\ tab'[v].row = tab[v].row
           /\ tab'[v].advice = tab[v].advice
           /\ ~tab'[v].stale =>
                /\ ~tab[v].stale
                /\ tab[v].pc \in InTransaction /\ tab[v].id = i => row = march[i]
  BY DEF Inv, TypeOK, TabState, Store
<1>4. nextId' \in 1..(MaxId + 1)
  BY BoundsAssumption DEF Inv, TypeOK, Ids
<1>5. TypeOK'
  BY <1>1, <1>3, <1>4 DEF Inv, TypeOK
<1>6. i = nextId => i \notin Stored
  BY DEF Inv, TypeOK, IdsAhead, Stored
<1>7. IdsAhead'
  BY <1>1, <1>6, BoundsAssumption DEF Inv, IdsAhead, TypeOK, Ids, Stored
<1>8. MarchesOnce'
  BY <1>1, <1>2, <1>6 DEF Inv, MarchesOnce, Applied
<1>9. Advised => PlacedIffApproved'
  BY <1>1, <1>2 DEF Inv, PlacedIffApproved, Approved
<1>10. \A j \in Ids, p \in Places : Holds(j, p)' =>
         IF j = i THEN row # NoMarch /\ row.place = p ELSE Holds(j, p)
  BY <1>1, <1>2 DEF Holds
<1>11. OneByOne => PlacesApart'
  <2>. SUFFICES ASSUME OneByOne PROVE PlacesApart'
    OBVIOUS
  <2>1. PlacesApart
    BY DEF Inv
  <2>2. row # NoMarch /\ row.place \in Places => \A j \in Ids : ~Holds(j, row.place)
    BY NoRowsAssumption
  <2>3. ASSUME NEW j \in Ids, NEW k \in Ids, NEW p \in Places, Holds(j, p)', Holds(k, p)'
        PROVE  j = k
    BY <2>1, <2>2, <2>3, <1>10 DEF PlacesApart
  <2>4. ASSUME NEW v \in Tab, NEW j \in Ids, tab'[v].pc = "accepting",
               Holds(j, tab[v].advice)'
        PROVE  FALSE
    <3>1. v # w /\ tab[v].pc = "accepting" /\ tab[v].advice = tab'[v].advice
      BY <2>4, <1>3
    <3>2. v \in Window /\ tab[v].advice \in Places
      BY <3>1 DEF Inv, Knows
    <3>3. w \notin Window
      BY <3>1, <3>2 DEF OneByOne
    <3>4. row # NoMarch => row.place = NoPlace
      BY <3>3
    <3>5. j \in Stored' /\ march'[j].place = tab[v].advice
      BY <2>4, <3>1 DEF Holds
    <3>6. Holds(j, tab[v].advice)
      BY <3>2, <3>4, <3>5, <1>1, <1>2, NoRowsAssumption DEF Holds
    <3>. QED BY <2>1, <3>1, <3>6 DEF PlacesApart
  <2>. QED BY <2>3, <2>4 DEF PlacesApart
<1>12. \A v \in Tab : Knows(v)'
  <2>. SUFFICES ASSUME NEW v \in Tab PROVE Knows(v)'
    OBVIOUS
  <2>1. CASE v = w
    BY <2>1, <1>3 DEF Knows
  <2>2. CASE v # w
    <3>1. Knows(v)
      BY DEF Inv
    <3>2. ~Applied(v) => ~Applied(v)'
      BY <2>2, <1>1, <1>2, <1>6 DEF Applied
    <3>. QED BY <2>2, <3>1, <3>2, <1>1, <1>3 DEF Knows, InTransaction
  <2>. QED BY <2>1, <2>2
<1>. QED BY <1>5, <1>7, <1>8, <1>9, <1>11, <1>12 DEF Inv, OneByOne

\* A decision is stored: it finds its march, and gives it a place that is free if the
\* one recommended was.
LEMMA DecisionStep ==
    ASSUME Inv, NEW b \in Window, NEW status \in {"APPROVED", "REJECTED"},
           NEW place \in Places \cup {NoPlace}, Decides(b, status, place),
           tab[b].pc \in {"accepting", "rejecting"},
           status = "REJECTED" => place = NoPlace,
           status = "APPROVED" => tab[b].pc = "accepting" /\ (Advised => place = tab[b].advice)
    PROVE  Inv'
<1>. DEFINE i == tab[b].id
            row == Decided(march[i], status, place)
            next == AfterDecision(i, row)
<1>1. /\ b \in Tab /\ i \in Stored /\ i \in Ids
      /\ Store(b, i, row, next) /\ UNCHANGED <<nextId, told>>
  BY DEF Tab, Decides, Stored
<1>2. march[i] \in March
  BY <1>1, RowsAreRows DEF Inv
<1>3. /\ row \in March /\ row.member = march[i].member
      /\ row.status = status /\ row.place = place
  BY <1>2 DEF March, Decided
<1>4. /\ next \in TabState /\ next.pc = "notify"
      /\ next.id \in Ids /\ next.row \in March
  BY <1>1, <1>3 DEF AfterDecision, Idle, TabState, InTransaction
<1>5. status = "APPROVED" /\ OneByOne => \A j \in Ids : ~Holds(j, place)
  BY <1>1 DEF Inv, PlacesApart, OneByOne
<1>6. Advised => (status = "APPROVED" <=> place # NoPlace)
  <2>1. Knows(b)
    BY <1>1 DEF Inv
  <2>. QED BY <2>1, NoRowsAssumption DEF Knows
<1>. HIDE DEF i, row, next
<1>. QED BY <1>1, <1>3, <1>4, <1>5, <1>6, StoreStep

\* Every step keeps the invariant.
LEMMA StepKeeps ==
    ASSUME Inv, [Next]_vars
    PROVE  Inv'
<1>. /\ TypeOK
     /\ \A v \in Tab : Knows(v) /\ tab[v] \in TabState
     /\ Window \subseteq Tab /\ Member \subseteq Tab
  BY DEF Inv, TypeOK, Tab
<1>0. ASSUME NEW w \in Tab, tab' = [tab EXCEPT ![w] = Idle],
             told' \in [Ids -> {"PENDING", "APPROVED", "REJECTED"}],
             UNCHANGED <<march, nextId>>
      PROVE  Inv'
  <2>1. tab'[w] = Idle
    BY <1>0 DEF TypeOK
  <2>2. Knows(w)'
    BY <2>1, IdleIsState DEF Knows
  <2>. QED BY <1>0, <2>2, IdleIsState, ShowStep
<1>1. ASSUME NEW m \in Member, OpenRequest(m)
      PROVE  Inv'
  <2>. DEFINE next == [tab[m] EXCEPT !.pc = "requesting"]
  <2>1. next \in TabState /\ next.pc = "requesting"
    BY DEF TabState
  <2>2. tab' = [tab EXCEPT ![m] = next] /\ ~Applied(m) /\ UNCHANGED <<march, nextId, told>>
    BY <1>1 DEF OpenRequest
  <2>3. ~Applied(m)'
    BY <2>2 DEF Applied, Stored
  <2>4. Knows(m)'
    BY <2>1, <2>2, <2>3 DEF Knows, TypeOK
  <2>. QED BY <2>1, <2>2, <2>4, ShowStep DEF TypeOK
<1>2. ASSUME NEW m \in Member, SendRequest(m)
      PROVE  Inv'
  <2>. DEFINE row == Requested(m)
  <2>1. /\ nextId \in Ids /\ nextId' = nextId + 1 /\ ~Applied(m)
        /\ Store(m, nextId, row, Idle) /\ UNCHANGED told
    BY <1>2 DEF SendRequest, Knows
  <2>2. /\ row \in March /\ row.member = m
        /\ row.status # "APPROVED" /\ row.place = NoPlace
    BY DEF Requested, March
  <2>. HIDE DEF row
  <2>. QED BY <2>1, <2>2, IdleIsState, StoreStep
<1>3. ASSUME NEW w \in Tab, NEW i \in Stored, NEW next \in TabState,
             tab' = [tab EXCEPT ![w] = next],
             next.pc \in {"accepting", "rejecting", "delete"},
             next.id = i, next.row = march[i],
             next.pc = "accepting" => next.advice \in Places /\ IsFree(next.advice),
             next.pc # "delete" => w \in Window /\ march[i].status = "PENDING",
             next.pc = "delete" /\ FreshForms => march[i].status = "PENDING",
             UNCHANGED <<march, nextId, told>>
      PROVE  Inv'
  <2>. DEFINE advice == next.advice
  <2>1. i \in Ids /\ march[i] \in March
    BY RowsAreRows DEF Stored
  <2>2. tab'[w] = next
    BY <1>3 DEF TypeOK
  <2>3. Knows(w)'
    BY <1>3, <2>1, <2>2 DEF Knows
  <2>4. OneByOne /\ next.pc = "accepting" => \A j \in Ids : ~Holds(j, advice)
    <3>. SUFFICES ASSUME OneByOne, next.pc = "accepting", NEW j \in Stored, march[j].place = advice
                  PROVE  FALSE
      BY DEF Holds
    <3>1. advice \in Places /\ IsFree(advice)
      BY <1>3
    <3>2. advice[1] \in 1..MaxRow /\ advice[2] \in 1..MaxCols
      BY <3>1 DEF Places
    <3>3. advice[1] <= Cached /\ advice[2] <= Cached
      BY <3>2, BoundsAssumption DEF OneByOne
    <3>. QED BY <3>1, <3>3, NoRowsAssumption DEF IsFree, SameInteger
  <2>. QED BY <1>3, <2>3, <2>4, ShowStep DEF TypeOK
<1>4. ASSUME NEW m \in Member, NEW i \in Ids, AskDelete(m, i)
      PROVE  Inv'
  <2>. DEFINE next == [Idle EXCEPT !.pc = "delete", !.id = i, !.row = march[i]]
  <2>1. i \in Stored /\ march[i] \in March
    BY <1>4, RowsAreRows DEF AskDelete
  <2>2. next \in TabState /\ next.pc = "delete" /\ next.id = i /\ next.row = march[i]
    BY <2>1 DEF Idle, TabState, InTransaction
  <2>3. /\ tab' = [tab EXCEPT ![m] = next] /\ UNCHANGED <<march, nextId, told>>
        /\ FreshForms => march[i].status = "PENDING"
    BY <1>4 DEF AskDelete
  <2>. HIDE DEF next
  <2>. QED BY <1>3, <2>1, <2>2, <2>3
<1>5. ASSUME NEW m \in Member, FinishDelete(m)
      PROVE  Inv'
  <2>1. tab[m].id \in Ids /\ march[tab[m].id] \in March
    BY <1>5 DEF FinishDelete, UpToDate, Knows
  <2>2. tab[m].id \in Stored
    BY <2>1, RowsAreRows
  <2>. QED BY <1>5, <2>1, <2>2, IdleIsState, StoreStep DEF FinishDelete
<1>6. ASSUME NEW b \in Window, NEW i \in Ids, NEW place \in Places, OpenAccept(b, i, place)
      PROVE  Inv'
  <2>. DEFINE next == [Idle EXCEPT !.pc = "accepting", !.id = i, !.row = march[i],
                                   !.advice = place]
  <2>1. i \in Stored /\ march[i] \in March
    BY <1>6, RowsAreRows DEF OpenAccept
  <2>2. /\ next \in TabState /\ next.pc = "accepting" /\ next.id = i /\ next.row = march[i]
        /\ next.advice = place
    BY <2>1 DEF Idle, TabState, InTransaction
  <2>3. /\ tab' = [tab EXCEPT ![b] = next] /\ UNCHANGED <<march, nextId, told>>
        /\ march[i].status = "PENDING" /\ IsFree(place)
    BY <1>6 DEF OpenAccept, IsRecommended
  <2>. HIDE DEF next
  <2>. QED BY <1>3, <2>1, <2>2, <2>3
<1>7. ASSUME NEW b \in Window, NEW i \in Ids, OpenReject(b, i)
      PROVE  Inv'
  <2>. DEFINE next == [Idle EXCEPT !.pc = "rejecting", !.id = i, !.row = march[i]]
  <2>1. i \in Stored /\ march[i] \in March
    BY <1>7, RowsAreRows DEF OpenReject
  <2>2. next \in TabState /\ next.pc = "rejecting" /\ next.id = i /\ next.row = march[i]
    BY <2>1 DEF Idle, TabState, InTransaction
  <2>3. /\ tab' = [tab EXCEPT ![b] = next] /\ UNCHANGED <<march, nextId, told>>
        /\ march[i].status = "PENDING"
    BY <1>7 DEF OpenReject
  <2>. HIDE DEF next
  <2>. QED BY <1>3, <2>1, <2>2, <2>3
<1>8. ASSUME NEW b \in Window, NEW place \in Places \cup {NoPlace}, SendAccept(b, place)
      PROVE  Inv'
  BY <1>8, DecisionStep DEF SendAccept
<1>9. ASSUME NEW b \in Window, SendReject(b)
      PROVE  Inv'
  BY <1>9, DecisionStep DEF SendReject
<1>10. ASSUME NEW b \in Window, Notify(b)
       PROVE  Inv'
  <2>1. tab[b].id \in Ids /\ tab[b].row \in March
    BY <1>10 DEF Notify, Knows
  <2>2. told' \in [Ids -> {"PENDING", "APPROVED", "REJECTED"}]
    BY <1>10, <2>1 DEF Notify, TypeOK, March
  <2>. QED BY <1>0, <1>10, <2>2 DEF Notify
<1>11. ASSUME NEW w \in Tab, Leave(w) \/ Rollback(w)
       PROVE  Inv'
  BY <1>0, <1>11 DEF Leave, Rollback, TypeOK
<1>12. ASSUME UNCHANGED vars
       PROVE  Inv'
  <2>1. Stored' = Stored /\ UNCHANGED <<march, nextId, told, tab>>
    BY <1>12 DEF vars, Stored
  <2>2. TypeOK' /\ IdsAhead' /\ MarchesOnce' /\ (Advised => PlacedIffApproved')
    BY <2>1 DEF Inv, TypeOK, IdsAhead, MarchesOnce, PlacedIffApproved, Approved
  <2>3. OneByOne => PlacesApart'
    BY <2>1 DEF Inv, PlacesApart, Holds
  <2>4. \A w \in Tab : Knows(w)'
    BY <2>1 DEF Knows, Applied
  <2>. QED BY <2>2, <2>3, <2>4 DEF Inv, OneByOne
<1>. QED
  BY <1>1, <1>2, <1>4, <1>5, <1>6, <1>7, <1>8, <1>9, <1>10, <1>11, <1>12 DEF Next

-----------------------------------------------------------------------------

\* What a page or a request holds of a march is what the comment of Knows says, in
\* every reachable state.
THEOREM WindowsKnow == Spec => []Inv
<1>1. Init => Inv
  <2>. SUFFICES ASSUME Init PROVE Inv
    OBVIOUS
  <2>1. Stored = {} /\ \A w \in Tab : tab[w] = Idle
    BY DEF Init, Stored
  <2>2. TypeOK
    BY IdleIsState, BoundsAssumption DEF Init, TypeOK
  <2>3. IdsAhead /\ MarchesOnce /\ PlacedIffApproved
    BY <2>1 DEF Init, IdsAhead, MarchesOnce, PlacedIffApproved, Approved
  <2>4. PlacesApart
    BY <2>1, IdleIsState DEF PlacesApart, Holds
  <2>5. \A w \in Tab : Knows(w)
    BY <2>1, IdleIsState DEF Knows
  <2>. QED BY <2>2, <2>3, <2>4, <2>5 DEF Inv
<1>2. Inv /\ [Next]_vars => Inv'
  BY StepKeeps
<1>. QED BY <1>1, <1>2, PTL DEF Spec

\* Every reachable state is well typed.
THEOREM TypeCorrect == Spec => []TypeOK
<1>1. Inv => TypeOK
  BY DEF Inv
<1>. QED BY <1>1, WindowsKnow, PTL

\* A member with one window marches once.
THEOREM OneMarch == Spec => []MarchesOnce
<1>1. Inv => MarchesOnce
  BY DEF Inv
<1>. QED BY <1>1, WindowsKnow, PTL

\* Who marches has a place and nobody else, if recommended places are typed.
THEOREM ApprovedArePlaced == ASSUME Advised PROVE Spec => []PlacedIffApproved
<1>1. Inv => PlacedIffApproved
  BY DEF Inv
<1>. QED BY <1>1, WindowsKnow, PTL

\* If moreover one window types them and no place is beyond the cache of boxed
\* integers, two members never march on one place.
THEOREM PlacesDistinct == ASSUME OneByOne PROVE Spec => []DistinctPlaces
<1>1. Inv => DistinctPlaces
  <2>. SUFFICES ASSUME Inv, NEW i \in Approved, NEW j \in Approved, i # j,
                       march[i].place = march[j].place, march[i].place # NoPlace
                PROVE  FALSE
    BY DEF DistinctPlaces
  <2>1. i \in Stored /\ j \in Stored /\ i \in Ids /\ j \in Ids
    BY DEF Approved, Stored
  <2>2. march[i].place \in Places
    BY <2>1, RowsAreRows DEF Inv, March
  <2>. QED BY <2>1, <2>2 DEF Inv, PlacesApart, Holds
<1>. QED BY <1>1, WindowsKnow, PTL

\* With fresh forms a decision stands: no request deletes or changes a decided march.
THEOREM DecisionsStand == ASSUME FreshForms PROVE Spec => DecisionStands
<1>1. Inv /\ [Next]_vars => [DecisionStandsStep]_vars
  <2>. SUFFICES ASSUME Inv, Next, NEW i \in Stored, march[i].status # "PENDING"
                PROVE  march'[i] = march[i]
    BY DEF DecisionStandsStep
  <2>. i \in Ids /\ TypeOK /\ Window \subseteq Tab /\ Member \subseteq Tab
    BY DEF Inv, Stored, Tab
  <2>1. ASSUME NEW w, NEW j, NEW row, NEW next, Store(w, j, row, next), j # i
        PROVE  march'[i] = march[i]
    BY <2>1 DEF Store, TypeOK
  <2>2. ASSUME NEW m \in Member, SendRequest(m)
        PROVE  march'[i] = march[i]
    <3>1. nextId # i
      BY DEF Inv, IdsAhead, Stored, TypeOK
    <3>. QED BY <2>1, <2>2, <3>1 DEF SendRequest
  <2>3. ASSUME NEW m \in Member, FinishDelete(m)
        PROVE  march'[i] = march[i]
    <3>1. march[tab[m].id].status = "PENDING"
      BY <2>3 DEF Inv, Knows, FinishDelete, UpToDate
    <3>. QED BY <2>1, <2>3, <3>1 DEF FinishDelete
  <2>4. ASSUME NEW b \in Window, NEW status, NEW place, Decides(b, status, place),
               tab[b].pc \in {"accepting", "rejecting"}
        PROVE  march'[i] = march[i]
    <3>1. march[tab[b].id].status = "PENDING"
      BY <2>4 DEF Inv, Knows, Decides
    <3>. QED BY <2>1, <2>4, <3>1 DEF Decides
  <2>5. CASE UNCHANGED march
    BY <2>5
  <2>6. \/ \E m \in Member : SendRequest(m) \/ FinishDelete(m)
        \/ \E b \in Window : (\E p \in Places \cup {NoPlace} : SendAccept(b, p)) \/ SendReject(b)
        \/ UNCHANGED march
    BY DEF Next, OpenRequest, AskDelete, OpenAccept, OpenReject, Notify, Leave, Rollback
  <2>. QED BY <2>2, <2>3, <2>4, <2>5, <2>6 DEF SendAccept, SendReject
<1>. QED BY <1>1, WindowsKnow, PTL DEF Spec, DecisionStands
=============================================================================
