-------------------------- MODULE Enrolments_proofs --------------------------
(***************************************************************************)
(* Theorems about Enrolments, for any members, windows and positions and   *)
(* any bounds.                                                             *)
(***************************************************************************)
EXTENDS Enrolments, TLAPS

\* No id is given twice.
IdsAhead == \A i \in Ids : i >= nextId => enrolment[i] = NoEnrolment

\* What the request of a window holds: a row of the table, and the row that is stored
\* unless it was written since.
Knows(t) ==
    /\ t.pc \in InTransaction => t.id \in Ids /\ t.row \in Enrolment
    /\ t.pc \in {"accept", "reject"} /\ ~t.stale => enrolment[t.id] = t.row
    /\ t.pc = "reject" /\ t.row.isOut = "false" => t.row.exits < MaxExits

\* The inductive invariant.
Inv ==
    /\ TypeOK
    /\ PositionOfTheEnrolled
    /\ HeldIsListed
    /\ IdsAhead
    /\ \A w \in Tab : Knows(tab[w])

\* A window may come to know nothing.
LEMMA IdleKnows == Idle \in TabState /\ Knows(Idle)
BY DEF Idle, TabState, Knows, InTransaction

\* So may the page of the brotherhoods.
LEMMA ListKnows == ListPage \in TabState /\ Knows(ListPage) /\ ListPage.pc = "list"
BY DEF ListPage, Idle, TabState, Knows, InTransaction

\* Stored rows are rows.
LEMMA RowsAreRows ==
    ASSUME TypeOK
    PROVE  \A i \in Ids : i \in Stored <=> enrolment[i] \in Enrolment
BY NoRowsAssumption DEF TypeOK, Stored

\* A window shows something else, and no enrolment and no position is written.
LEMMA ShowStep ==
    ASSUME Inv, NEW w \in Tab, NEW next \in TabState, Knows(next),
           Show(w, next), told' \in [Ids -> 0..MaxExits],
           UNCHANGED <<enrolment, nextId, catalogue, removing>>
    PROVE  Inv'
<1>1. /\ tab' \in [Tab -> TabState]
      /\ \A v \in Tab : tab'[v] = IF v = w THEN next ELSE tab[v]
  BY DEF Inv, TypeOK, Show
<1>2. Stored' = Stored /\ Listed' = Listed
  BY DEF Stored, Listed
<1>3. TypeOK'
  BY <1>1 DEF Inv, TypeOK
<1>4. PositionOfTheEnrolled' /\ HeldIsListed' /\ IdsAhead'
  BY <1>2 DEF Inv, PositionOfTheEnrolled, HeldIsListed, IdsAhead
<1>5. \A v \in Tab : Knows(tab[v])'
  BY <1>1 DEF Inv, Knows
<1>. QED BY <1>3, <1>4, <1>5 DEF Inv

\* A row is stored, a new one or one that was there.
LEMMA StoreStep ==
    ASSUME Inv, NEW w \in Tab, NEW i \in Ids, NEW row \in Enrolment,
           NEW next \in TabState,
           Store(w, i, row, next),
           next.pc \notin {"accept", "reject"},
           next.pc \in InTransaction => next.id \in Ids /\ next.row \in Enrolment,
           \/ i = nextId /\ nextId' = nextId + 1
           \/ i \in Stored /\ nextId' = nextId,
           row.position # NoPosition => row.isOut = "false",
           row.position \in Listed \cup {NoPosition},
           UNCHANGED <<catalogue, removing, told>>
    PROVE  Inv'
<1>. USE DEF Inv
<1>1. /\ enrolment' \in [Ids -> Enrolment \cup {NoEnrolment}]
      /\ \A j \in Ids : enrolment'[j] = IF j = i THEN row ELSE enrolment[j]
  BY DEF TypeOK, Store
<1>2. /\ Stored' = Stored \cup {i}
      /\ Listed' = Listed
      /\ i \in Stored \/ enrolment[i] = NoEnrolment
  BY <1>1, NoRowsAssumption DEF Stored, Listed
<1>3. /\ tab' \in [Tab -> TabState]
      /\ tab'[w] = next
      /\ \A v \in Tab \ {w} :
           /\ tab'[v].pc = tab[v].pc
           /\ tab'[v].id = tab[v].id
           /\ tab'[v].row = tab[v].row
           /\ ~tab'[v].stale =>
                /\ ~tab[v].stale
                /\ tab[v].pc \in InTransaction /\ tab[v].id = i => row = enrolment[i]
  BY DEF TypeOK, TabState, Store
<1>4. nextId' \in 1..(MaxId + 1)
  BY BoundsAssumption DEF TypeOK, Ids
<1>5. TypeOK'
  BY <1>1, <1>3, <1>4 DEF TypeOK
<1>6. PositionOfTheEnrolled' /\ HeldIsListed'
  BY <1>1, <1>2 DEF PositionOfTheEnrolled, HeldIsListed, Stored
<1>7. IdsAhead'
  BY <1>1, <1>2, BoundsAssumption DEF IdsAhead, TypeOK, Ids, Stored
<1>8. \A v \in Tab : Knows(tab[v])'
  <2>. SUFFICES ASSUME NEW v \in Tab PROVE Knows(tab[v])'
    OBVIOUS
  <2>1. CASE v = w
    BY <2>1, <1>3 DEF Knows
  <2>2. CASE v # w
    <3>1. Knows(tab[v])
      OBVIOUS
    <3>. QED BY <3>1, <2>2, <1>1, <1>3 DEF Knows, InTransaction
  <2>. QED BY <2>1, <2>2
<1>. QED BY <1>5, <1>6, <1>7, <1>8

\* The positions change, and no enrolment does.
LEMMA PositionStep ==
    ASSUME Inv,
           catalogue' \in [Position -> {"none", "listed", "deleted"}],
           removing' \in Position \cup {NoPosition},
           \A p \in Listed : p \in Listed' \/ Free(p),
           UNCHANGED <<enrolment, nextId, told, tab>>
    PROVE  Inv'
<1>1. Stored' = Stored
  BY DEF Stored
<1>2. TypeOK' /\ PositionOfTheEnrolled' /\ IdsAhead'
  BY <1>1 DEF Inv, TypeOK, PositionOfTheEnrolled, IdsAhead
<1>3. HeldIsListed'
  BY <1>1 DEF Inv, HeldIsListed, Free, isAssigned
<1>4. \A w \in Tab : Knows(tab[w])'
  BY DEF Inv, Knows
<1>. QED BY <1>2, <1>3, <1>4 DEF Inv

\* The new row has one exit more than the old one if its member left.
Counted(old, new) ==
    new.exits = old.exits + (IF old.isOut = "false" /\ new.isOut = "true" THEN 1 ELSE 0)

\* What a rejection makes of a row.
LEMMA OutCounts ==
    ASSUME NEW old \in Enrolment, old.isOut = "false" => old.exits < MaxExits
    PROVE  /\ Out(old) \in Enrolment
           /\ Out(old).position = NoPosition
           /\ Counted(old, Out(old))
<1>. DEFINE e == IF old.isOut = "false" THEN old.exits + 1 ELSE old.exits
<1>1. /\ e \in 0..MaxExits
      /\ e = old.exits + (IF old.isOut = "false" /\ "true" = "true" THEN 1 ELSE 0)
  BY BoundsAssumption DEF Enrolment
<1>2. Out(old) = [old EXCEPT !.isOut = "true", !.position = NoPosition, !.exits = e]
  BY DEF Out
<1>. HIDE DEF e
<1>. QED BY <1>1, <1>2 DEF Enrolment, Counted

\* The session's row, as the controller changed it, is saved: nothing is written, or
\* it was the stored row.
LEMMA SavesStep ==
    ASSUME Inv, NEW w \in Tab, tab[w].pc \in {"accept", "reject"},
           NEW row \in Enrolment, NEW next \in TabState, Saves(w, row, next),
           next.pc \in {"position", "notifyOut"},
           next.pc \in InTransaction => next.id \in Ids /\ next.row \in Enrolment,
           row.position # NoPosition => row.isOut = "false",
           row.position \in {tab[w].row.position, NoPosition},
           UNCHANGED <<nextId, catalogue, removing, told>>
    PROVE  Inv'
<1>1. CASE row = tab[w].row
  <2>1. Knows(next)
    BY DEF Knows
  <2>2. told' \in [Ids -> 0..MaxExits]
    BY DEF Inv, TypeOK
  <2>. QED BY <1>1, <2>1, <2>2, ShowStep DEF Saves
<1>2. CASE row # tab[w].row
  <2>1. ~tab[w].stale /\ Store(w, tab[w].id, row, next)
    BY <1>2 DEF Saves
  <2>2. tab[w].id \in Ids /\ enrolment[tab[w].id] = tab[w].row /\ tab[w].row \in Enrolment
    BY <2>1 DEF Inv, Knows, InTransaction
  <2>3. tab[w].id \in Stored
    BY <2>2, NoRowsAssumption DEF Stored
  <2>4. tab[w].row.position \in Listed \cup {NoPosition}
    BY <2>2, <2>3 DEF Inv, HeldIsListed
  <2>. QED BY <2>1, <2>2, <2>3, <2>4, StoreStep
<1>. QED BY <1>1, <1>2

\* Every step keeps the invariant.
LEMMA StepKeeps ==
    ASSUME Inv, [Next]_vars
    PROVE  Inv'
<1>. TypeOK /\ \A v \in Tab : Knows(tab[v]) /\ tab[v] \in TabState
  BY DEF Inv, TypeOK
<1>1. ASSUME NEW w \in MemberTab, OpenList(w)
      PROVE  Inv'
  BY <1>1, ListKnows, ShowStep DEF OpenList, TypeOK, positions, Tab
<1>2. ASSUME NEW w \in MemberTab, Request(w)
      PROVE  Inv'
  <2>1. w \in Tab /\ nextId \in Ids /\ w[1] \in Member
    BY <1>2 DEF Tab, MemberTab, Request
  <2>2. Asked(w[1]) \in Enrolment /\ Asked(w[1]).position = NoPosition
    BY <2>1, BoundsAssumption DEF Asked, Enrolment
  <2>3. PICK page \in {Idle, ListPage} : Store(w, nextId, Asked(w[1]), page)
    BY <1>2 DEF Request
  <2>4. nextId' = nextId + 1 /\ UNCHANGED <<catalogue, removing, told>>
    BY <1>2 DEF Request, positions
  <2>5. Idle.pc = "idle"
    BY DEF Idle
  <2>6. page \in TabState /\ page.pc \in {"idle", "list"}
    BY <2>5, IdleKnows, ListKnows
  <2>7. page.pc \notin InTransaction
    BY <2>6 DEF InTransaction
  <2>. QED BY <2>1, <2>2, <2>3, <2>4, <2>6, <2>7, StoreStep
<1>3. ASSUME NEW w \in Tab, NEW i \in Ids, NEW pc \in {"accept", "reject"},
             Reads(w, i, pc),
             pc = "reject" /\ enrolment[i].isOut = "false" => enrolment[i].exits < MaxExits
      PROVE  Inv'
  <2>. DEFINE next == About(pc, i, enrolment[i])
  <2>1. enrolment[i] \in Enrolment
    BY <1>3, RowsAreRows DEF Reads
  <2>2. next \in TabState /\ Knows(next)
    BY <1>3, <2>1 DEF About, TabState, Knows, InTransaction
  <2>. QED BY <1>3, <2>2, ShowStep DEF Reads, TypeOK, positions
<1>4. ASSUME NEW b \in Window, NEW i \in Ids, AskAccept(b, i)
      PROVE  Inv'
  BY <1>3, <1>4 DEF AskAccept, Tab
<1>5. ASSUME NEW w \in Tab, NEW i \in Ids, AskReject(w, i)
      PROVE  Inv'
  BY <1>3, <1>5 DEF AskReject
<1>6. ASSUME NEW b \in Window, Accept(b)
      PROVE  Inv'
  <2>. DEFINE row == [tab[b].row EXCEPT !.isOut = "false"]
              next == About("position", tab[b].id, row)
  <2>1. b \in Tab /\ tab[b].pc = "accept" /\ Saves(b, row, next)
        /\ UNCHANGED <<nextId, catalogue, removing, told>>
    BY <1>6 DEF Tab, Accept, positions
  <2>2. tab[b].row \in Enrolment /\ tab[b].id \in Ids
    BY <2>1 DEF Knows, InTransaction
  <2>3. /\ row \in Enrolment
        /\ row.isOut = "false"
        /\ row.position = tab[b].row.position
    BY <2>2 DEF Enrolment
  <2>4. next \in TabState /\ next.pc = "position" /\ "position" \notin InTransaction
    BY <2>2, <2>3 DEF About, TabState, InTransaction
  <2>. QED BY <2>1, <2>3, <2>4, SavesStep
<1>7. ASSUME NEW w \in Tab, Reject(w)
      PROVE  Inv'
  <2>. DEFINE row == Out(tab[w].row)
              next == AfterReject(w, row)
  <2>1. tab[w].pc = "reject" /\ Saves(w, row, next)
        /\ UNCHANGED <<nextId, catalogue, removing, told>>
    BY <1>7 DEF Reject, positions
  <2>2. /\ tab[w].row \in Enrolment /\ tab[w].id \in Ids
        /\ tab[w].row.isOut = "false" => tab[w].row.exits < MaxExits
    BY <2>1 DEF Knows, InTransaction
  <2>3. row \in Enrolment /\ row.position = NoPosition
    BY <2>2, OutCounts
  <2>4. /\ next \in TabState /\ next.pc = "notifyOut"
        /\ next.id \in Ids /\ next.row \in Enrolment
    BY <2>2, <2>3 DEF AfterReject, About, TabState, InTransaction
  <2>. QED BY <2>1, <2>3, <2>4, SavesStep
<1>8. ASSUME NEW w \in Tab, NotifyOut(w)
      PROVE  Inv'
  <2>1. tab[w].row \in Enrolment /\ tab[w].id \in Ids
    BY <1>8 DEF NotifyOut, Knows, InTransaction
  <2>2. tab[w].row.exits \in 0..MaxExits
    BY <2>1 DEF Enrolment
  <2>3. told' \in [Ids -> 0..MaxExits]
    BY <1>8, <2>1, <2>2 DEF NotifyOut, TypeOK
  <2>. QED BY <1>8, <2>3, IdleKnows, ShowStep DEF NotifyOut, positions
<1>9. ASSUME NEW b \in Window, NEW p \in Position \cup {NoPosition}, SetPosition(b, p)
      PROVE  Inv'
  <2>. DEFINE i == tab[b].id
              row == [enrolment[i] EXCEPT !.position = p, !.isOut = "false"]
              next == About("notifyIn", i, row)
  <2>1. /\ b \in Tab /\ i \in Stored /\ p \in Listed \cup {NoPosition}
        /\ Store(b, i, row, next)
        /\ UNCHANGED <<nextId, catalogue, removing, told>>
    BY <1>9 DEF Tab, SetPosition, positions
  <2>2. i \in Ids /\ enrolment[i] \in Enrolment
    BY <2>1, RowsAreRows DEF Stored
  <2>3. /\ row \in Enrolment
        /\ row.isOut = "false"
        /\ row.position = p
    BY <2>2 DEF Enrolment
  <2>4. /\ next \in TabState /\ next.pc = "notifyIn"
        /\ next.id \in Ids /\ next.row \in Enrolment
    BY <2>2, <2>3 DEF About, TabState, InTransaction
  <2>. QED BY <2>1, <2>2, <2>3, <2>4, StoreStep
<1>10. ASSUME NEW w \in Tab, NotifyIn(w) \/ Leave(w) \/ Rollback(w)
       PROVE  Inv'
  <2>1. Show(w, Idle) /\ UNCHANGED <<enrolment, nextId, told, catalogue, removing>>
    BY <1>10 DEF NotifyIn, Leave, Rollback, positions
  <2>. QED BY <2>1, IdleKnows, ShowStep DEF TypeOK
<1>11. ASSUME NEW p \in Position, CreatePosition(p)
       PROVE  Inv'
  <2>1. Listed \subseteq Listed'
    BY <1>11 DEF CreatePosition, Listed, TypeOK
  <2>. QED BY <1>11, <2>1, PositionStep DEF CreatePosition, TypeOK
<1>12. ASSUME NEW p \in Position, AskDeletePosition(p)
       PROVE  Inv'
  <2>1. Listed' = Listed
    BY <1>12 DEF AskDeletePosition, Listed
  <2>. QED BY <1>12, <2>1, PositionStep DEF AskDeletePosition, TypeOK
<1>13. ASSUME DeletePosition
       PROVE  Inv'
  <2>1. catalogue' \in [Position -> {"none", "listed", "deleted"}]
    BY <1>13 DEF DeletePosition, TypeOK
  <2>2. \A p \in Listed : p \in Listed' \/ Free(p)
    BY <1>13 DEF DeletePosition, Listed, TypeOK
  <2>. QED BY <1>13, <2>1, <2>2, PositionStep DEF DeletePosition
<1>14. ASSUME UNCHANGED vars
       PROVE  Inv'
  <2>1. Listed' = Listed
    BY <1>14 DEF vars, Listed
  <2>. QED BY <1>14, <2>1, PositionStep DEF vars, TypeOK
<1>. QED
  BY <1>1, <1>2, <1>4, <1>5, <1>6, <1>7, <1>8, <1>9, <1>10, <1>11, <1>12, <1>13, <1>14
     DEF Next, Tab

-----------------------------------------------------------------------------

\* What a session holds of a row nobody wrote since is the row that is stored, in
\* every reachable state.
THEOREM SessionsKnow == Spec => []Inv
<1>1. Init => Inv
  <2>. SUFFICES ASSUME Init PROVE Inv
    OBVIOUS
  <2>1. Stored = {}
    BY DEF Init, Stored
  <2>2. TypeOK
    BY IdleKnows, BoundsAssumption DEF Init, TypeOK
  <2>3. PositionOfTheEnrolled /\ HeldIsListed /\ IdsAhead
    BY <2>1 DEF Init, PositionOfTheEnrolled, HeldIsListed, IdsAhead
  <2>4. \A w \in Tab : tab[w] = Idle
    BY DEF Init
  <2>. QED BY <2>2, <2>3, <2>4, IdleKnows DEF Inv
<1>2. Inv /\ [Next]_vars => Inv'
  BY StepKeeps
<1>. QED BY <1>1, <1>2, PTL DEF Spec

\* Every reachable state is well typed.
THEOREM TypeCorrect == Spec => []TypeOK
<1>1. Inv => TypeOK
  BY DEF Inv
<1>. QED BY <1>1, SessionsKnow, PTL

\* Only members who are in hold a position.
THEOREM PositionsOfTheEnrolled == Spec => []PositionOfTheEnrolled
<1>1. Inv => PositionOfTheEnrolled
  BY DEF Inv
<1>. QED BY <1>1, SessionsKnow, PTL

\* A position that is held is in the catalogue.
THEOREM HeldAreListed == Spec => []HeldIsListed
<1>1. Inv => HeldIsListed
  BY DEF Inv
<1>. QED BY <1>1, SessionsKnow, PTL

-----------------------------------------------------------------------------

\* A step that writes no enrolment counts nothing.
LEMMA SameCounts ==
    ASSUME TypeOK, UNCHANGED enrolment
    PROVE  ExitsAreCountedStep
<1>1. \A i \in Stored : i \in Ids /\ enrolment[i] \in Enrolment /\ enrolment[i] # NoEnrolment
  BY RowsAreRows DEF Stored
<1>2. \A i \in Stored : enrolment[i].exits \in Nat
  BY <1>1, BoundsAssumption DEF Enrolment
<1>. QED BY <1>1, <1>2 DEF ExitsAreCountedStep

\* A step that writes one counts what it should if that row does.
LEMMA StoreCounts ==
    ASSUME TypeOK, NEW w, NEW j \in Ids, NEW row \in Enrolment, NEW next,
           Store(w, j, row, next),
           j \in Stored => Counted(enrolment[j], row)
    PROVE  ExitsAreCountedStep
<1>1. \A i \in Stored : i \in Ids /\ enrolment[i] \in Enrolment /\ enrolment[i] # NoEnrolment
  BY RowsAreRows DEF Stored
<1>2. \A i \in Stored : enrolment[i].exits \in Nat
  BY <1>1, BoundsAssumption DEF Enrolment
<1>3. \A i \in Ids : enrolment'[i] = IF i = j THEN row ELSE enrolment[i]
  BY DEF Store, TypeOK
<1>. QED
  BY <1>1, <1>2, <1>3, NoRowsAssumption DEF ExitsAreCountedStep, Counted

\* So does a session that saves what it made of its row.
LEMMA SavesCounts ==
    ASSUME Inv, NEW w \in Tab, tab[w].pc \in {"accept", "reject"},
           NEW row \in Enrolment, NEW next, Saves(w, row, next),
           Counted(tab[w].row, row)
    PROVE  ExitsAreCountedStep
<1>1. CASE row = tab[w].row
  BY <1>1, SameCounts DEF Saves, Inv
<1>2. CASE row # tab[w].row
  <2>1. ~tab[w].stale /\ Store(w, tab[w].id, row, next)
    BY <1>2 DEF Saves
  <2>2. tab[w].id \in Ids /\ enrolment[tab[w].id] = tab[w].row
    BY <2>1 DEF Inv, Knows, InTransaction
  <2>. QED BY <2>1, <2>2, StoreCounts DEF Inv
<1>. QED BY <1>1, <1>2

\* dropOutMoment gets one moment each time the member goes from in to out, and never
\* else: a rejection that is committed is one of the row as it is stored.
THEOREM ExitsCounted == Spec => ExitsAreCounted
<1>1. Inv /\ [Next]_vars => [ExitsAreCountedStep]_vars
  <2>. SUFFICES ASSUME Inv, Next
                PROVE  ExitsAreCountedStep
    OBVIOUS
  <2>. TypeOK /\ \A v \in Tab : Knows(tab[v])
    BY DEF Inv
  <2>1. ASSUME NEW w \in MemberTab, Request(w)
        PROVE  ExitsAreCountedStep
    <3>1. Asked(w[1]) \in Enrolment
      BY BoundsAssumption DEF Asked, Enrolment, MemberTab
    <3>2. nextId \in Ids /\ nextId \notin Stored
      BY <2>1 DEF Request, Inv, IdsAhead, Stored, Ids, BoundsAssumption
    <3>. QED BY <2>1, <3>1, <3>2, StoreCounts DEF Request
  <2>2. ASSUME NEW b \in Window, Accept(b)
        PROVE  ExitsAreCountedStep
    <3>. DEFINE row == [tab[b].row EXCEPT !.isOut = "false"]
                next == About("position", tab[b].id, row)
    <3>1. b \in Tab /\ tab[b].pc = "accept" /\ Saves(b, row, next)
      BY <2>2 DEF Tab, Accept
    <3>2. tab[b].row \in Enrolment
      BY <3>1 DEF Knows, InTransaction
    <3>3. row \in Enrolment /\ Counted(tab[b].row, row)
      BY <3>2, BoundsAssumption DEF Enrolment, Counted
    <3>. QED BY <3>1, <3>3, SavesCounts
  <2>3. ASSUME NEW w \in Tab, Reject(w)
        PROVE  ExitsAreCountedStep
    <3>. DEFINE old == tab[w].row
                row == Out(old)
                next == AfterReject(w, row)
    <3>1. tab[w].pc = "reject" /\ Saves(w, row, next)
      BY <2>3 DEF Reject
    <3>2. /\ old \in Enrolment
          /\ old.isOut = "false" => old.exits < MaxExits
      BY <3>1 DEF Knows, InTransaction
    <3>3. row \in Enrolment /\ Counted(old, row)
      BY <3>2, OutCounts
    <3>. QED BY <3>1, <3>3, SavesCounts
  <2>4. ASSUME NEW b \in Window, NEW p \in Position \cup {NoPosition}, SetPosition(b, p)
        PROVE  ExitsAreCountedStep
    <3>. DEFINE i == tab[b].id
                row == [enrolment[i] EXCEPT !.position = p, !.isOut = "false"]
    <3>1. i \in Stored /\ Store(b, i, row, About("notifyIn", i, row))
      BY <2>4 DEF SetPosition
    <3>2. i \in Ids /\ enrolment[i] \in Enrolment
      BY <3>1, RowsAreRows DEF Stored
    <3>3. /\ row \in Enrolment
          /\ row.isOut = "false" /\ row.exits = enrolment[i].exits
      BY <3>2 DEF Enrolment
    <3>4. enrolment[i].exits \in Nat
      BY <3>2, BoundsAssumption DEF Enrolment
    <3>5. Counted(enrolment[i], row)
      BY <3>3, <3>4 DEF Counted
    <3>. QED BY <3>1, <3>2, <3>3, <3>5, StoreCounts
  <2>5. CASE UNCHANGED enrolment
    BY <2>5, SameCounts
  <2>6. \/ \E w \in MemberTab : Request(w)
        \/ \E b \in Window : Accept(b) \/ \E p \in Position \cup {NoPosition} : SetPosition(b, p)
        \/ \E w \in Tab : Reject(w)
        \/ UNCHANGED enrolment
    BY DEF Next, OpenList, AskAccept, AskReject, Reads, NotifyIn, NotifyOut, Leave, Rollback,
           CreatePosition, AskDeletePosition, DeletePosition
  <2>. QED BY <2>1, <2>2, <2>3, <2>4, <2>5, <2>6
<1>. QED BY <1>1, SessionsKnow, PTL DEF Spec, ExitsAreCounted

\* A step after which nobody is in who was out keeps the exits.
LEMMA SameExits ==
    ASSUME \A i \in Stored : enrolment[i].isOut = "true" => enrolment'[i].isOut # "false"
    PROVE  ExitStandsStep
BY DEF ExitStandsStep

\* An exit stands against an acceptance that was asked for before it: one that is
\* committed has read the row as it is, this exit included.
THEOREM ExitsStand == Spec => ExitStands
<1>1. Inv /\ [Next]_vars => [ExitStandsStep]_vars
  <2>. SUFFICES ASSUME Inv, Next
                PROVE  ExitStandsStep
    OBVIOUS
  <2>. TypeOK /\ (\A v \in Tab : Knows(tab[v])) /\ Stored \subseteq Ids
    BY DEF Inv, Stored
  <2>1. ASSUME NEW w \in MemberTab, Request(w)
        PROVE  ExitStandsStep
    <3>1. nextId \in Ids /\ nextId \notin Stored
      BY <2>1 DEF Request, Inv, IdsAhead, Stored, Ids, BoundsAssumption
    <3>2. \A i \in Stored : enrolment'[i] = enrolment[i]
      BY <2>1, <3>1 DEF Request, Store, TypeOK
    <3>. QED BY <3>2, SameExits
  <2>2. ASSUME NEW b \in Window, Accept(b)
        PROVE  ExitStandsStep
    <3>. DEFINE row == [tab[b].row EXCEPT !.isOut = "false"]
                next == About("position", tab[b].id, row)
    <3>1. b \in Tab /\ tab[b].pc = "accept" /\ Saves(b, row, next)
      BY <2>2 DEF Tab, Accept
    <3>2. CASE row = tab[b].row
      BY <3>1, <3>2, SameExits DEF Saves
    <3>3. CASE row # tab[b].row
      <4>1. ~tab[b].stale /\ Store(b, tab[b].id, row, next)
        BY <3>1, <3>3 DEF Saves
      <4>2. enrolment[tab[b].id] = tab[b].row
        BY <3>1, <4>1 DEF Knows
      <4>3. \A i \in Stored : i # tab[b].id => enrolment'[i] = enrolment[i]
        BY <4>1 DEF Store, TypeOK
      <4>. QED BY <3>1, <4>2, <4>3 DEF ExitStandsStep
    <3>. QED BY <3>2, <3>3
  <2>3. ASSUME NEW w \in Tab, Reject(w)
        PROVE  ExitStandsStep
    <3>. DEFINE row == Out(tab[w].row)
                next == AfterReject(w, row)
    <3>1. tab[w].pc = "reject" /\ Saves(w, row, next)
      BY <2>3 DEF Reject
    <3>2. tab[w].row \in Enrolment /\ tab[w].row.isOut = "false" => tab[w].row.exits < MaxExits
      BY <3>1 DEF Knows, InTransaction
    <3>3. row.isOut = "true"
      BY <3>1 DEF Out, Knows, InTransaction, Enrolment
    <3>4. \A i \in Stored : enrolment'[i] = enrolment[i] \/ enrolment'[i] = row
      BY <3>1 DEF Saves, Store, TypeOK
    <3>. HIDE DEF row
    <3>. QED BY <3>3, <3>4, SameExits
  <2>4. ASSUME NEW b \in Window, NEW p \in Position \cup {NoPosition}, SetPosition(b, p)
        PROVE  ExitStandsStep
    <3>1. tab[b].pc = "position"
      BY <2>4 DEF SetPosition
    <3>2. \A i \in Stored : i # tab[b].id => enrolment'[i] = enrolment[i]
      BY <2>4 DEF SetPosition, Store, TypeOK
    <3>. QED BY <3>1, <3>2 DEF ExitStandsStep
  <2>5. CASE UNCHANGED enrolment
    BY <2>5, SameExits
  <2>6. \/ \E w \in MemberTab : Request(w)
        \/ \E b \in Window : Accept(b) \/ \E p \in Position \cup {NoPosition} : SetPosition(b, p)
        \/ \E w \in Tab : Reject(w)
        \/ UNCHANGED enrolment
    BY DEF Next, OpenList, AskAccept, AskReject, Reads, NotifyIn, NotifyOut, Leave, Rollback,
           CreatePosition, AskDeletePosition, DeletePosition
  <2>. QED BY <2>1, <2>2, <2>3, <2>4, <2>5, <2>6
<1>. QED BY <1>1, SessionsKnow, PTL DEF Spec, ExitStands
=============================================================================
