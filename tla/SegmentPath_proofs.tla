------------------------ MODULE SegmentPath_proofs ------------------------
(***************************************************************************)
(* Theorems about SegmentPath, for every number of places, windows and     *)
(* segments.                                                               *)
(***************************************************************************)
EXTENDS SegmentPath, FiniteSetTheorems, TLAPS

-----------------------------------------------------------------------------
(* Types *)

\* A row stays a row when it is edited, closed or reopened.
LEMMA RowTypes ==
    ASSUME NEW row \in Segment, NEW d \in Point
    PROVE  /\ Closed(row) \in Segment
           /\ Reopened(row) \in Segment
           /\ [row EXCEPT !.dest = d, !.timely = TRUE] \in Segment
BY DEF Closed, Reopened, Segment

\* The empty window is a window.
LEMMA IdleType == Idle \in TabState /\ NoRows \in Rows
BY DEF Idle, TabState, NoRows, Rows

\* What a window holds in each place: the forms and requests about a stored
\* segment know which, and a request reaches its last transaction only with an
\* open segment.
Shape(t) ==
    /\ tab[t].pc \in {"editing", "deleting1", "deleting2"} => tab[t].id \in Ids
    /\ tab[t].pc \in {"editing", "saving", "deleting1", "deleting2"} =>
          tab[t].form \in Segment
    /\ tab[t].pc \in {"editing", "saving", "deleting2"} => tab[t].form.editable
    /\ tab[t].pc = "deleting1" => tab[t].view[tab[t].id] = tab[t].form
    /\ tab[t].pc = "deleting2" =>
          tab[t].view[tab[t].id] \in {NoSegment, tab[t].form}

\* A row that a request read and does not miss is the stored one.
Agrees(t) ==
    tab[t].pc \in InTransaction =>
        \A s \in Ids \ tab[t].missed : tab[t].view[s] = path[s]

\* No id is given twice.
IdsAhead == \A s \in Ids : s >= nextId => path[s] = NoSegment

\* The inductive invariant: types, windows and what the sessions know.
Inv ==
    /\ TypeOK
    /\ \A t \in Tab : Shape(t) /\ Agrees(t)
    /\ IdsAhead

\* A commit of rows of this table leaves a table and windows of the right type.
LEMMA CommitType ==
    ASSUME TypeOK, NEW t \in Tab, NEW next \in TabState, NEW rows,
           DOMAIN rows \subseteq Ids,
           \A s \in DOMAIN rows : rows[s] \in Segment \cup {NoSegment},
           Commit(t, rows, next)
    PROVE  path' \in Rows /\ tab' \in [Tab -> TabState]
<1>1. Written(rows) \in Rows
  BY DEF Written, Rows, TypeOK
<1>2. ASSUME NEW r \in Tab
      PROVE  [tab[r] EXCEPT !.missed =
                @ \cup {s \in Ids : Written(rows)[s] # path[s]}] \in TabState
  BY DEF TypeOK, TabState
<1>. QED
  BY <1>1, <1>2 DEF Commit, TypeOK

\* In the initial state nothing is stored and nobody has a page open.
LEMMA InitType == Init => TypeOK
BY IdleType, MaxIdAssumption DEF Init, TypeOK, Ids

\* Every request keeps the types.
LEMMA NextType == Inv /\ [Next]_vars => TypeOK'
<1>. SUFFICES ASSUME TypeOK, \A t \in Tab : Shape(t), [Next]_vars PROVE TypeOK'
  BY DEF Inv
<1>. USE IdleType, MaxIdAssumption
<1>1. CASE UNCHANGED vars
  BY <1>1 DEF TypeOK, vars
<1>2. ASSUME NEW t \in Tab, OpenCreate(t) PROVE TypeOK'
  BY <1>2 DEF OpenCreate, TypeOK, TabState
<1>3. ASSUME NEW t \in Tab, NEW s \in Ids, OpenEdit(t, s) PROVE TypeOK'
  <2>1. path[s] \in Segment
    BY <1>3 DEF OpenEdit, TypeOK, Rows
  <2>. QED BY <1>3, <2>1 DEF OpenEdit, TypeOK, TabState
<1>4. ASSUME NEW t \in Tab, Leave(t) PROVE TypeOK'
  BY <1>4 DEF Leave, TypeOK
<1>5. ASSUME NEW t \in Tab, NEW o \in Point, NEW d \in Point, NEW timely \in Timely,
             SendNew(t, o, d, timely)
      PROVE  TypeOK'
  BY <1>5, TimelyAssumption
     DEF SendNew, TypeOK, TabState, Segment, InTransaction
<1>6. ASSUME NEW t \in Tab, SaveFirst(t) PROVE TypeOK'
  <2>. DEFINE rows == [s \in {nextId} |-> tab[t].form]
  <2>1. \A s \in DOMAIN rows : rows[s] \in Segment \cup {NoSegment}
    BY DEF TypeOK, TabState
  <2>2. DOMAIN rows \subseteq Ids
    BY <1>6 DEF SaveFirst
  <2>3. Commit(t, rows, Idle)
    BY <1>6 DEF SaveFirst
  <2>4. path' \in Rows /\ tab' \in [Tab -> TabState]
    <3>. HIDE DEF rows
    <3>. QED BY <2>1, <2>2, <2>3, CommitType
  <2>. QED BY <1>6, <2>4 DEF SaveFirst, TypeOK, Ids
<1>7. ASSUME NEW t \in Tab, NEW s \in Ids, SaveNext(t, s) PROVE TypeOK'
  <2>. DEFINE rows == [n \in {nextId, s} |-> IF n = s THEN Closed(tab[t].view[s])
                                             ELSE tab[t].form]
  <2>0. tab[t].view[s] \in Segment
    BY <1>7 DEF SaveNext, Ends, Stored, TypeOK, TabState, Rows
  <2>1. \A n \in DOMAIN rows : rows[n] \in Segment \cup {NoSegment}
    BY <2>0 DEF TypeOK, TabState, Closed, Segment
  <2>2. DOMAIN rows \subseteq Ids
    BY <1>7 DEF SaveNext
  <2>3. Commit(t, rows, Idle)
    BY <1>7 DEF SaveNext
  <2>4. path' \in Rows /\ tab' \in [Tab -> TabState]
    <3>. HIDE DEF rows
    <3>. QED BY <2>1, <2>2, <2>3, CommitType
  <2>. QED BY <1>7, <2>4 DEF SaveNext, TypeOK, Ids
<1>8. ASSUME NEW t \in Tab, NEW d \in Point, SendEdit(t, d) PROVE TypeOK'
  <2>. DEFINE rows == [s \in {tab[t].id} |-> Edited(s, d)]
  <2>0. tab[t].id \in Ids /\ path[tab[t].id] \in Segment
    BY <1>8 DEF SendEdit, Reconstructs, TypeOK, Shape, Rows
  <2>1. \A s \in DOMAIN rows : rows[s] \in Segment \cup {NoSegment}
    BY <2>0, RowTypes DEF Edited
  <2>2. DOMAIN rows \subseteq Ids
    BY <2>0
  <2>3. Commit(t, rows, Idle)
    BY <1>8 DEF SendEdit
  <2>4. path' \in Rows /\ tab' \in [Tab -> TabState]
    <3>. HIDE DEF rows
    <3>. QED BY <2>1, <2>2, <2>3, CommitType
  <2>. QED BY <1>8, <2>4 DEF SendEdit, TypeOK
<1>9. ASSUME NEW t \in Tab, NEW d \in Point, NEW carriesParade \in BOOLEAN,
             SendDelete(t, d, carriesParade)
      PROVE  TypeOK'
  <2>. DEFINE me == tab[t].id
              rows == [s \in {me} |-> Edited(me, d)]
              next == IF carriesParade
                      THEN [pc |-> "deleting1", id |-> me, form |-> Edited(me, d),
                            view |-> [NoRows EXCEPT ![me] = Edited(me, d)],
                            missed |-> Ids \ {me}]
                      ELSE Idle
  <2>0. me \in Ids /\ path[me] \in Segment
    BY <1>9 DEF SendDelete, Reconstructs, TypeOK, Shape, Rows
  <2>1. Edited(me, d) \in Segment
    BY <2>0, RowTypes DEF Edited
  <2>2. DOMAIN rows \subseteq Ids
    BY <2>0
  <2>3. Commit(t, rows, next)
    BY <1>9 DEF SendDelete
  <2>4. next \in TabState
    BY <2>0, <2>1 DEF TabState, Rows, NoRows, InTransaction
  <2>5. \A s \in DOMAIN rows : rows[s] \in Segment \cup {NoSegment}
    BY <2>1
  <2>6. path' \in Rows /\ tab' \in [Tab -> TabState]
    <3>. HIDE DEF rows, next
    <3>. QED BY <2>2, <2>3, <2>4, <2>5, CommitType
  <2>. QED BY <1>9, <2>6 DEF SendDelete, TypeOK
<1>10. ASSUME NEW t \in Tab, ReadForDelete(t) PROVE TypeOK'
  <2>. DEFINE me == tab[t].id
              view == [path EXCEPT ![me] =
                         IF path[me] = NoSegment THEN NoSegment ELSE tab[t].form]
              next == [pc |-> "deleting2", id |-> me, form |-> tab[t].form,
                       view |-> view, missed |-> tab[t].missed \cap {me}]
  <2>1. view \in Rows
    BY DEF TypeOK, TabState, Rows
  <2>2. tab' = [tab EXCEPT ![t] = next]
    BY <1>10 DEF ReadForDelete
  <2>3. next \in TabState
    <3>. HIDE DEF view
    <3>. QED BY <2>1 DEF TypeOK, TabState, InTransaction
  <2>4. tab' \in [Tab -> TabState]
    <3>. HIDE DEF next
    <3>. QED BY <2>2, <2>3 DEF TypeOK
  <2>. QED BY <1>10, <2>4 DEF ReadForDelete, TypeOK
<1>11. ASSUME NEW t \in Tab, DeleteOnly(t) PROVE TypeOK'
  <2>. DEFINE rows == [s \in {tab[t].id} |-> NoSegment]
  <2>1. DOMAIN rows \subseteq Ids
    BY <1>11 DEF DeleteOnly, Shape
  <2>2. Commit(t, rows, Idle)
    BY <1>11 DEF DeleteOnly
  <2>3. \A s \in DOMAIN rows : rows[s] \in Segment \cup {NoSegment}
    OBVIOUS
  <2>4. path' \in Rows /\ tab' \in [Tab -> TabState]
    <3>. HIDE DEF rows
    <3>. QED BY <2>1, <2>2, <2>3, CommitType
  <2>. QED BY <1>11, <2>4 DEF DeleteOnly, TypeOK
<1>12. ASSUME NEW t \in Tab, NEW s \in Ids, DeleteLast(t, s) PROVE TypeOK'
  <2>. DEFINE me == tab[t].id
              dirty == {me} \cup {p \in {s} : ~tab[t].view[p].editable}
              rows == [p \in dirty |-> IF p = me THEN NoSegment
                                       ELSE Reopened(tab[t].view[p])]
  <2>0. tab[t].view[s] \in Segment
    <3>1. s \in Stored(tab[t].view)
      BY <1>12 DEF DeleteLast, Before
    <3>. QED BY <3>1 DEF Stored, TypeOK, TabState, Rows
  <2>1. DOMAIN rows \subseteq Ids
    BY <1>12 DEF DeleteLast, Shape
  <2>2. Commit(t, rows, Idle)
    BY <1>12 DEF DeleteLast
  <2>3. \A p \in DOMAIN rows : rows[p] \in Segment \cup {NoSegment}
    <3>1. Reopened(tab[t].view[s]) \in Segment
      BY <2>0 DEF Reopened, Segment
    <3>. QED BY <3>1
  <2>4. path' \in Rows /\ tab' \in [Tab -> TabState]
    <3>. HIDE DEF rows
    <3>. QED BY <2>1, <2>2, <2>3, CommitType
  <2>. QED BY <1>12, <2>4 DEF DeleteLast, TypeOK
<1>13. ASSUME NEW t \in Tab, DeleteNothing(t) PROVE TypeOK'
  <2>1. DOMAIN Unwritten = {} /\ Commit(t, Unwritten, Idle)
    BY <1>13 DEF DeleteNothing, Unwritten
  <2>2. path' \in Rows /\ tab' \in [Tab -> TabState]
    BY <2>1, CommitType
  <2>. QED BY <1>13, <2>2 DEF DeleteNothing, TypeOK
<1>14. ASSUME NEW t \in Tab, Rollback(t) PROVE TypeOK'
  BY <1>14 DEF Rollback, TypeOK
<1>. QED
  BY <1>1, <1>2, <1>3, <1>4, <1>5, <1>6, <1>7, <1>8, <1>9, <1>10, <1>11, <1>12,
     <1>13, <1>14 DEF Next

-----------------------------------------------------------------------------
(* What a commit does to the sessions of the others *)

\* Whatever a request writes, the sessions of the other requests either still
\* agree with the table or know that they miss it.
LEMMA CommitAgrees ==
    ASSUME TypeOK, NEW t \in Tab, NEW r \in Tab \ {t}, NEW next, NEW rows,
           Commit(t, rows, next), Agrees(r), Shape(r)
    PROVE  Agrees(r)' /\ Shape(r)'
<1>1. CASE tab[r].pc \notin InTransaction
  <2>1. tab'[r] = tab[r]
    BY <1>1 DEF Commit
  <2>. QED BY <1>1, <2>1 DEF Agrees, Shape
<1>2. CASE tab[r].pc \in InTransaction
  <2>. DEFINE changed == {s \in Ids : Written(rows)[s] # path[s]}
  <2>1. tab'[r] = [tab[r] EXCEPT !.missed = @ \cup changed]
    BY <1>2 DEF Commit
  <2>2. /\ tab'[r].pc = tab[r].pc
        /\ tab'[r].id = tab[r].id
        /\ tab'[r].form = tab[r].form
        /\ tab'[r].view = tab[r].view
        /\ tab'[r].missed = tab[r].missed \cup changed
    BY <2>1 DEF TypeOK, TabState
  <2>3. Shape(r)'
    BY <2>2 DEF Shape
  <2>4. \A s \in Ids \ tab'[r].missed : tab'[r].view[s] = path'[s]
    BY <1>2, <2>2 DEF Agrees, Commit
  <2>. QED BY <2>3, <2>4 DEF Agrees
<1>. QED BY <1>1, <1>2

\* The request itself has answered, and its window is idle.
LEMMA CommitIdle ==
    ASSUME TypeOK, NEW t \in Tab, NEW rows, Commit(t, rows, Idle),
           \A r \in Tab : Shape(r) /\ Agrees(r)
    PROVE  \A r \in Tab : Shape(r)' /\ Agrees(r)'
<1>1. tab'[t] = Idle
  BY DEF Commit
<1>2. Shape(t)' /\ Agrees(t)'
  BY <1>1 DEF Shape, Agrees, Idle, InTransaction
<1>. QED BY <1>2, CommitAgrees

\* A request that writes nothing leaves the sessions of the others as they are.
LEMMA PathUnchanged ==
    ASSUME TypeOK, NEW t \in Tab, NEW r \in Tab \ {t}, UNCHANGED path,
           tab'[r] = tab[r], Shape(r) /\ Agrees(r)
    PROVE  Shape(r)' /\ Agrees(r)'
BY DEF Shape, Agrees

\* What the session holds of a segment it writes is what is stored.
LEMMA FreshRows ==
    ASSUME NEW t \in Tab, Agrees(t), tab[t].pc \in InTransaction,
           NEW rows, Fresh(t, rows), NEW s \in Ids \cap DOMAIN rows
    PROVE  tab[t].view[s] = path[s]
BY DEF Agrees, Fresh

\* Every request keeps the windows in shape and the sessions in agreement.
LEMMA NextSessions ==
    Inv /\ [Next]_vars => \A r \in Tab : Shape(r)' /\ Agrees(r)'
<1>. SUFFICES ASSUME TypeOK, \A r \in Tab : Shape(r) /\ Agrees(r), [Next]_vars
              PROVE  \A r \in Tab : Shape(r)' /\ Agrees(r)'
  BY DEF Inv
<1>1. CASE UNCHANGED vars
  BY <1>1 DEF vars, Shape, Agrees
<1>2. ASSUME NEW t \in Tab, UNCHANGED path, Shape(t)' /\ Agrees(t)',
             \A r \in Tab \ {t} : tab'[r] = tab[r]
      PROVE  \A r \in Tab : Shape(r)' /\ Agrees(r)'
  BY <1>2, PathUnchanged
<1>3. ASSUME NEW t \in Tab, OpenCreate(t)
      PROVE  \A r \in Tab : Shape(r)' /\ Agrees(r)'
  <2>1. tab'[t].pc = "creating" /\ \A r \in Tab \ {t} : tab'[r] = tab[r]
    BY <1>3 DEF OpenCreate, TypeOK, TabState
  <2>2. Shape(t)' /\ Agrees(t)'
    BY <2>1 DEF Shape, Agrees, InTransaction
  <2>. QED BY <1>2, <1>3, <2>1, <2>2 DEF OpenCreate
<1>4. ASSUME NEW t \in Tab, NEW s \in Ids, OpenEdit(t, s)
      PROVE  \A r \in Tab : Shape(r)' /\ Agrees(r)'
  <2>1. /\ tab'[t].pc = "editing" /\ tab'[t].id = s /\ tab'[t].form = path[s]
        /\ \A r \in Tab \ {t} : tab'[r] = tab[r]
    BY <1>4 DEF OpenEdit, TypeOK, TabState
  <2>2. path[s] \in Segment /\ path[s].editable
    BY <1>4 DEF OpenEdit, TypeOK, Rows
  <2>3. Shape(t)' /\ Agrees(t)'
    BY <2>1, <2>2 DEF Shape, Agrees, InTransaction
  <2>. QED BY <1>2, <1>4, <2>1, <2>3 DEF OpenEdit
<1>5. ASSUME NEW t \in Tab, Leave(t) \/ Rollback(t)
      PROVE  \A r \in Tab : Shape(r)' /\ Agrees(r)'
  <2>1. /\ tab'[t] = Idle /\ UNCHANGED path
        /\ \A r \in Tab \ {t} : tab'[r] = tab[r]
    BY <1>5 DEF Leave, Rollback, TypeOK
  <2>2. Shape(t)' /\ Agrees(t)'
    BY <2>1 DEF Shape, Agrees, InTransaction, Idle
  <2>. QED BY <1>2, <2>1, <2>2
<1>6. ASSUME NEW t \in Tab, NEW o \in Point, NEW d \in Point, NEW timely \in Timely,
             SendNew(t, o, d, timely)
      PROVE  \A r \in Tab : Shape(r)' /\ Agrees(r)'
  <2>. DEFINE form == [origin |-> o, dest |-> d, timely |-> timely, editable |-> TRUE]
  <2>1. tab'[t] = [pc |-> "saving", id |-> 0, form |-> form,
                   view |-> path, missed |-> {}]
    BY <1>6 DEF SendNew, TypeOK
  <2>2. UNCHANGED path /\ \A r \in Tab \ {t} : tab'[r] = tab[r]
    BY <1>6 DEF SendNew, TypeOK
  <2>3. form \in Segment /\ form.editable
    BY TimelyAssumption DEF Segment
  <2>4. Shape(t)' /\ Agrees(t)'
    BY <2>1, <2>2, <2>3 DEF Shape, Agrees
  <2>. QED BY <1>2, <2>2, <2>4
<1>7. ASSUME NEW t \in Tab, SaveFirst(t)
      PROVE  \A r \in Tab : Shape(r)' /\ Agrees(r)'
  BY <1>7, CommitIdle DEF SaveFirst
<1>8. ASSUME NEW t \in Tab, NEW s \in Ids, SaveNext(t, s)
      PROVE  \A r \in Tab : Shape(r)' /\ Agrees(r)'
  BY <1>8, CommitIdle DEF SaveNext
<1>9. ASSUME NEW t \in Tab, NEW d \in Point, SendEdit(t, d)
      PROVE  \A r \in Tab : Shape(r)' /\ Agrees(r)'
  BY <1>9, CommitIdle DEF SendEdit
<1>10. ASSUME NEW t \in Tab, NEW d \in Point, NEW carriesParade \in BOOLEAN,
              SendDelete(t, d, carriesParade)
       PROVE  \A r \in Tab : Shape(r)' /\ Agrees(r)'
  <2>. DEFINE me == tab[t].id
              next == [pc |-> "deleting1", id |-> me, form |-> Edited(me, d),
                       view |-> [NoRows EXCEPT ![me] = Edited(me, d)],
                       missed |-> Ids \ {me}]
              rows == [s \in {me} |-> Edited(me, d)]
  <2>1. CASE ~carriesParade
    BY <1>10, <2>1, CommitIdle DEF SendDelete
  <2>2. CASE carriesParade
    <3>1. Commit(t, rows, next)
      BY <1>10, <2>2 DEF SendDelete
    <3>2. tab'[t] = next /\ path' = Written(rows)
      BY <3>1 DEF Commit
    <3>3. me \in Ids /\ path[me] \in Segment
      BY <1>10 DEF SendDelete, Reconstructs, TypeOK, Shape, Rows
    <3>4. Edited(me, d) \in Segment
      BY <3>3, RowTypes DEF Edited
    <3>5. path'[me] = Edited(me, d) /\ next.view[me] = Edited(me, d)
      BY <3>2, <3>3 DEF Written, NoRows
    <3>6. Shape(t)' /\ Agrees(t)'
      <4>. HIDE DEF me
      <4>. QED BY <3>2, <3>3, <3>4, <3>5 DEF Shape, Agrees
    <3>. QED BY <3>1, <3>6, CommitAgrees
  <2>. QED BY <2>1, <2>2
<1>11. ASSUME NEW t \in Tab, ReadForDelete(t)
       PROVE  \A r \in Tab : Shape(r)' /\ Agrees(r)'
  <2>. DEFINE me == tab[t].id
              view == [path EXCEPT ![me] =
                         IF path[me] = NoSegment THEN NoSegment ELSE tab[t].form]
  <2>1. UNCHANGED path /\ \A r \in Tab \ {t} : tab'[r] = tab[r]
    BY <1>11 DEF ReadForDelete, TypeOK
  <2>2. /\ tab'[t].pc = "deleting2" /\ tab'[t].view = view
        /\ tab'[t].missed = tab[t].missed \cap {me}
        /\ tab'[t].id = me /\ tab'[t].form = tab[t].form
    BY <1>11 DEF ReadForDelete, TypeOK, TabState
  <2>3. tab[t].form \in Segment /\ tab[t].form.editable /\ me \in Ids
    BY <1>11 DEF ReadForDelete, Shape
  <2>4. view[me] \in {NoSegment, tab[t].form}
    BY <2>3 DEF TypeOK, Rows
  <2>5. Shape(t)'
    <3>. HIDE DEF view, me
    <3>. QED BY <2>2, <2>3, <2>4 DEF Shape
  <2>6. Agrees(t)'
    <3>1. \A s \in Ids \ {me} : view[s] = path[s]
      BY DEF TypeOK, Rows
    <3>2. me \notin tab[t].missed => view[me] = path[me]
      <4>1. tab[t].pc = "deleting1"
        BY <1>11 DEF ReadForDelete
      <4>2. SUFFICES ASSUME me \notin tab[t].missed PROVE view[me] = path[me]
        OBVIOUS
      <4>3. path[me] = tab[t].form
        BY <4>1, <4>2, <2>3 DEF Agrees, Shape, InTransaction
      <4>. QED BY <4>3, <2>3, NoSegmentAssumption DEF TypeOK, Rows
    <3>. HIDE DEF view, me
    <3>. QED BY <2>1, <2>2, <3>1, <3>2 DEF Agrees
  <2>. QED BY <1>2, <2>1, <2>5, <2>6
<1>12. ASSUME NEW t \in Tab, DeleteOnly(t)
       PROVE  \A r \in Tab : Shape(r)' /\ Agrees(r)'
  BY <1>12, CommitIdle DEF DeleteOnly
<1>13. ASSUME NEW t \in Tab, NEW s \in Ids, DeleteLast(t, s)
       PROVE  \A r \in Tab : Shape(r)' /\ Agrees(r)'
  BY <1>13, CommitIdle DEF DeleteLast
<1>14. ASSUME NEW t \in Tab, DeleteNothing(t)
       PROVE  \A r \in Tab : Shape(r)' /\ Agrees(r)'
  BY <1>14, CommitIdle DEF DeleteNothing
<1>. QED
  BY <1>1, <1>3, <1>4, <1>5, <1>6, <1>7, <1>8, <1>9, <1>10, <1>11, <1>12, <1>13,
     <1>14 DEF Next

\* Ids are given in order and rows keep to the ids given.
LEMMA NextIds == Inv /\ [Next]_vars => IdsAhead'
<1>. SUFFICES ASSUME TypeOK, \A r \in Tab : Shape(r) /\ Agrees(r), IdsAhead, [Next]_vars
              PROVE  IdsAhead'
  BY DEF Inv
<1>. USE MaxIdAssumption DEF Ids
<1>1. CASE UNCHANGED <<path, nextId>>
  BY <1>1 DEF IdsAhead
<1>2. ASSUME NEW t \in Tab, NEW rows, NEW next, Commit(t, rows, next),
             nextId' \in {nextId, nextId + 1},
             \A s \in DOMAIN rows \cap Ids :
                s < nextId' \/ (path[s] = NoSegment /\ rows[s] = NoSegment)
      PROVE  IdsAhead'
  BY <1>2 DEF IdsAhead, Commit, Written, TypeOK
<1>3. ASSUME NEW t \in Tab, NEW s \in Ids, path[s] # NoSegment
      PROVE  s < nextId
  BY <1>3 DEF IdsAhead, TypeOK
<1>4. ASSUME NEW t \in Tab, SaveFirst(t) PROVE IdsAhead'
  BY <1>4, <1>2 DEF SaveFirst, TypeOK
<1>5. ASSUME NEW t \in Tab, NEW s \in Ids, SaveNext(t, s) PROVE IdsAhead'
  <2>. DEFINE rows == [n \in {nextId, s} |-> IF n = s THEN Closed(tab[t].view[s])
                                             ELSE tab[t].form]
  <2>1. Commit(t, rows, Idle) /\ nextId' = nextId + 1 /\ tab[t].pc = "saving"
    BY <1>5 DEF SaveNext
  <2>2. tab[t].view[s] = path[s]
    BY <2>1, FreshRows DEF Commit, InTransaction
  <2>3. path[s] # NoSegment
    BY <1>5, <2>2 DEF SaveNext, Ends, Stored
  <2>4. s < nextId'
    BY <1>3, <2>1, <2>3 DEF TypeOK
  <2>5. \A n \in DOMAIN rows : n < nextId'
    BY <2>1, <2>4 DEF TypeOK
  <2>6. nextId' \in {nextId, nextId + 1}
    BY <2>1
  <2>. HIDE DEF rows
  <2>. QED BY <1>2, <2>1, <2>5, <2>6
<1>6. ASSUME NEW t \in Tab, NEW d \in Point, SendEdit(t, d) PROVE IdsAhead'
  <2>1. tab[t].id < nextId
    BY <1>6, <1>3 DEF SendEdit, Reconstructs, Shape
  <2>. QED BY <1>6, <1>2, <2>1 DEF SendEdit, TypeOK
<1>7. ASSUME NEW t \in Tab, NEW d \in Point, NEW carriesParade \in BOOLEAN,
             SendDelete(t, d, carriesParade)
      PROVE  IdsAhead'
  <2>1. tab[t].id < nextId
    BY <1>7, <1>3 DEF SendDelete, Reconstructs, Shape
  <2>. QED BY <1>7, <1>2, <2>1 DEF SendDelete, TypeOK
<1>8. ASSUME NEW t \in Tab, DeleteOnly(t) PROVE IdsAhead'
  BY <1>8, <1>2 DEF DeleteOnly, IdsAhead, TypeOK
<1>9. ASSUME NEW t \in Tab, NEW s \in Ids, DeleteLast(t, s) PROVE IdsAhead'
  <2>. DEFINE me == tab[t].id
              dirty == {me} \cup {p \in {s} : ~tab[t].view[p].editable}
              rows == [p \in dirty |-> IF p = me THEN NoSegment
                                       ELSE Reopened(tab[t].view[p])]
  <2>1. Commit(t, rows, Idle) /\ nextId' = nextId /\ tab[t].pc = "deleting2"
    BY <1>9 DEF DeleteLast
  <2>2. s \in dirty => path[s] # NoSegment
    <3>1. s \in Stored(tab[t].view)
      BY <1>9 DEF DeleteLast, Before
    <3>2. s \in dirty => tab[t].view[s] = path[s]
      BY <2>1, FreshRows DEF Commit, InTransaction
    <3>. QED BY <3>1, <3>2 DEF Stored
  <2>3. \A n \in DOMAIN rows \cap Ids : n < nextId \/ rows[n] = NoSegment
    BY <2>2, <1>3
  <2>4. \A n \in DOMAIN rows \cap Ids :
           n < nextId \/ (path[n] = NoSegment /\ rows[n] = NoSegment)
    BY <2>3 DEF IdsAhead, TypeOK
  <2>. HIDE DEF rows
  <2>. QED BY <1>2, <2>1, <2>4
<1>10. ASSUME NEW t \in Tab, DeleteNothing(t) PROVE IdsAhead'
  BY <1>10, <1>2 DEF DeleteNothing, Unwritten
<1>. QED
  BY <1>1, <1>4, <1>5, <1>6, <1>7, <1>8, <1>9, <1>10
     DEF Next, vars, OpenCreate, OpenEdit, Leave, SendNew, ReadForDelete, Rollback

-----------------------------------------------------------------------------
(* Theorems *)

\* The invariant holds in every state the requests can reach: in particular, no
\* session holds an old row without knowing it.
THEOREM SessionsAgree == Spec => []Inv
<1>1. Init => Inv
  BY InitType DEF Init, Inv, Shape, Agrees, IdsAhead, Idle, InTransaction, NoRows
<1>2. Inv /\ [Next]_vars => Inv'
  BY NextType, NextSessions, NextIds DEF Inv
<1>. QED BY <1>1, <1>2, PTL DEF Spec

\* The table, the id generator and the windows have their types in every
\* reachable state, for all constants: no session, and above all no rollback or
\* stale delete, leaves something that is not a row.
THEOREM TypeCorrect == Spec => []TypeOK
<1>1. Inv => TypeOK
  BY DEF Inv
<1>. QED BY <1>1, SessionsAgree, PTL

\* A commit that writes no closed segment, unless to reopen it, leaves the closed
\* ones as they are.
LEMMA KeepsClosed ==
    ASSUME TypeOK, NEW t \in Tab, NEW rows, NEW next, Commit(t, rows, next),
           \A s \in DOMAIN rows \cap (Stored(path) \ Open(path)) :
              rows[s] = Reopened(path[s])
    PROVE  ClosedIsFrozenStep
<1>. SUFFICES ASSUME NEW s \in Stored(path) \ Open(path)
              PROVE  s \in Stored(path') /\ path'[s] \in {path[s], Reopened(path[s])}
  BY DEF ClosedIsFrozenStep, Reopened
<1>1. s \in Ids /\ path[s] \in Segment
  BY DEF Stored, TypeOK, Rows
<1>2. Reopened(path[s]) \in Segment
  BY <1>1 DEF Reopened, Segment
<1>3. path'[s] \in {path[s], Reopened(path[s])}
  BY <1>1 DEF Commit, Written
<1>4. path'[s] # NoSegment
  BY <1>1, <1>2, <1>3, NoSegmentAssumption
<1>. QED BY <1>1, <1>3, <1>4 DEF Stored

\* A closed segment stays as it is until the one after it is deleted, in any
\* interleaving of any number of requests, when forms are sent while they still
\* show their row (FreshForms). It needs both the @Version check and the
\* edit page's test of isEditable.
THEOREM ClosedSegmentsFrozen == ASSUME FreshForms PROVE Spec => ClosedIsFrozen
<1>1. Inv /\ [Next]_vars => [ClosedIsFrozenStep]_vars
  <2>. SUFFICES ASSUME TypeOK, \A r \in Tab : Shape(r) /\ Agrees(r), IdsAhead, Next
                PROVE  ClosedIsFrozenStep
    BY DEF Inv
  <2>1. CASE UNCHANGED path
    BY <2>1 DEF ClosedIsFrozenStep
  <2>2. ASSUME NEW t \in Tab, SaveFirst(t) PROVE ClosedIsFrozenStep
    <3>1. nextId \notin Stored(path)
      BY <2>2 DEF SaveFirst, IdsAhead, Stored, Ids
    <3>. QED BY <2>2, <3>1, KeepsClosed DEF SaveFirst
  <2>3. ASSUME NEW t \in Tab, NEW s \in Ids, SaveNext(t, s) PROVE ClosedIsFrozenStep
    <3>. DEFINE rows == [n \in {nextId, s} |-> IF n = s THEN Closed(tab[t].view[s])
                                               ELSE tab[t].form]
    <3>1. nextId \notin Stored(path)
      BY <2>3 DEF SaveNext, IdsAhead, Stored, Ids
    <3>2. Commit(t, rows, Idle) /\ tab[t].pc = "saving"
      BY <2>3 DEF SaveNext
    <3>3. tab[t].view[s] = path[s]
      BY <3>2, FreshRows DEF Commit, InTransaction
    <3>4. s \in Open(path)
      BY <2>3, <3>3 DEF SaveNext, Ends, Stored, Open
    <3>5. DOMAIN rows = {nextId, s}
      OBVIOUS
    <3>. HIDE DEF rows
    <3>. QED BY <3>1, <3>2, <3>4, <3>5, KeepsClosed
  <2>4. ASSUME NEW t \in Tab, NEW rows, NEW next, Reconstructs(t),
               Commit(t, rows, next), DOMAIN rows = {tab[t].id}
        PROVE  ClosedIsFrozenStep
    <3>1. tab[t].id \in Open(path)
      BY <2>4 DEF Reconstructs, Shape, Open, Stored
    <3>. QED BY <2>4, <3>1, KeepsClosed
  <2>5. ASSUME NEW t \in Tab, NEW d \in Point, SendEdit(t, d)
        PROVE  ClosedIsFrozenStep
    BY <2>5, <2>4 DEF SendEdit
  <2>6. ASSUME NEW t \in Tab, NEW d \in Point, NEW carriesParade \in BOOLEAN,
               SendDelete(t, d, carriesParade)
        PROVE  ClosedIsFrozenStep
    <3>. PICK rows, next : Commit(t, rows, next) /\ DOMAIN rows = {tab[t].id}
      <4>. DEFINE rows == [s \in {tab[t].id} |-> Edited(tab[t].id, d)]
      <4>1. PICK next : Commit(t, rows, next)
        BY <2>6, Zenon DEF SendDelete
      <4>2. DOMAIN rows = {tab[t].id}
        OBVIOUS
      <4>. HIDE DEF rows
      <4>. QED BY <4>1, <4>2
    <3>. QED BY <2>6, <2>4 DEF SendDelete
  <2>7. ASSUME NEW t \in Tab, tab[t].pc = "deleting2", tab[t].id \notin tab[t].missed
        PROVE  tab[t].id \notin Stored(path) \ Open(path)
    BY <2>7 DEF Shape, Agrees, Stored, Open, InTransaction
  <2>8. ASSUME NEW t \in Tab, DeleteOnly(t) PROVE ClosedIsFrozenStep
    <3>1. tab[t].id \notin Stored(path) \ Open(path)
      BY <2>8, <2>7 DEF DeleteOnly, Commit, Fresh
    <3>. QED BY <2>8, <3>1, KeepsClosed DEF DeleteOnly
  <2>9. ASSUME NEW t \in Tab, NEW s \in Ids, DeleteLast(t, s)
        PROVE  ClosedIsFrozenStep
    <3>. DEFINE me == tab[t].id
                dirty == {me} \cup {p \in {s} : ~tab[t].view[p].editable}
                rows == [p \in dirty |-> IF p = me THEN NoSegment
                                         ELSE Reopened(tab[t].view[p])]
    <3>1. Commit(t, rows, Idle) /\ tab[t].pc = "deleting2"
      BY <2>9 DEF DeleteLast
    <3>2. me \notin Stored(path) \ Open(path)
      BY <3>1, <2>7 DEF Commit, Fresh
    <3>3. s \in dirty => tab[t].view[s] = path[s]
      BY <3>1, FreshRows DEF Commit, InTransaction
    <3>4. \A p \in DOMAIN rows \cap (Stored(path) \ Open(path)) :
             rows[p] = Reopened(path[p])
      BY <3>2, <3>3
    <3>. HIDE DEF rows
    <3>. QED BY <3>1, <3>4, KeepsClosed
  <2>10. ASSUME NEW t \in Tab, DeleteNothing(t) PROVE ClosedIsFrozenStep
    BY <2>10, KeepsClosed DEF DeleteNothing, Unwritten
  <2>. QED
    BY <2>1, <2>2, <2>3, <2>5, <2>6, <2>8, <2>9, <2>10
       DEF Next, OpenCreate, OpenEdit, Leave, SendNew, ReadForDelete, Rollback
<1>. QED BY <1>1, SessionsAgree, PTL DEF Spec, ClosedIsFrozen

\* A commit that stores no new row and closes none is no handover.
LEMMA NoHandover ==
    ASSUME TypeOK, NEW t \in Tab, NEW rows, NEW next, Commit(t, rows, next),
           \A s \in DOMAIN rows \cap Ids :
              \/ rows[s] = NoSegment
              \/ /\ path[s] # NoSegment
                 /\ rows[s] # NoSegment
                 /\ path[s].editable => rows[s].editable
    PROVE  HandoverStep
<1>1. Stored(path') \ Stored(path) = {}
  BY DEF Commit, Written, Stored
<1>2. {s \in Open(path) : s \in Stored(path') \ Open(path')} = {}
  BY DEF Commit, Written, Stored, Open
<1>. QED BY <1>1, <1>2 DEF HandoverStep

\* Closing a segment and inserting the one that continues it are one step, and
\* each inserted segment closes exactly one, whatever requests run at once. Only
\* a request that read an empty path inserts without closing.
THEOREM OneHandover == Spec => Handover
<1>1. Inv /\ [Next]_vars => [HandoverStep]_vars
  <2>. SUFFICES ASSUME TypeOK, \A r \in Tab : Shape(r) /\ Agrees(r), IdsAhead, Next
                PROVE  HandoverStep
    BY DEF Inv
  <2>1. CASE UNCHANGED path
    BY <2>1 DEF HandoverStep, Stored, Open
  <2>2. ASSUME NEW t \in Tab, SaveFirst(t) PROVE HandoverStep
    <3>. DEFINE rows == [s \in {nextId} |-> tab[t].form]
    <3>1. /\ Commit(t, rows, Idle) /\ nextId \in Ids
          /\ tab[t].pc = "saving" /\ Stored(tab[t].view) = {}
      BY <2>2 DEF SaveFirst
    <3>2. nextId \notin Stored(path)
      BY <3>1 DEF IdsAhead, Stored, Ids
    <3>3. {s \in Open(path) : s \in Stored(path') \ Open(path')} = {}
      BY <3>1, <3>2 DEF Commit, Written, Stored, Open
    <3>. QED BY <3>1, <3>3 DEF HandoverStep
  <2>3. ASSUME NEW t \in Tab, NEW s \in Ids, SaveNext(t, s) PROVE HandoverStep
    <3>. DEFINE rows == [n \in {nextId, s} |-> IF n = s THEN Closed(tab[t].view[s])
                                               ELSE tab[t].form]
                closing == {c \in Open(path) : c \in Stored(path') \ Open(path')}
    <3>1. Commit(t, rows, Idle) /\ tab[t].pc = "saving" /\ nextId \in Ids
      BY <2>3 DEF SaveNext
    <3>2. nextId \notin Stored(path)
      BY <3>1 DEF IdsAhead, Stored, Ids
    <3>3. tab[t].view[s] = path[s]
      BY <3>1, FreshRows DEF Commit, InTransaction
    <3>4. s \in Open(path) /\ path[s].dest = tab[t].form.origin /\ path[s] \in Segment
      BY <2>3, <3>3 DEF SaveNext, Ends, Stored, Open, TypeOK, Rows
    <3>5. /\ Closed(path[s]).dest = path[s].dest /\ ~Closed(path[s]).editable
          /\ Closed(path[s]) \in Segment
      BY <3>4 DEF Closed, Segment
    <3>6. tab[t].form \in Segment /\ tab[t].form.editable
      BY <3>1 DEF Shape
    <3>7. path' = [n \in Ids |-> IF n = s THEN Closed(path[s])
                                ELSE IF n = nextId THEN tab[t].form ELSE path[n]]
      BY <3>1, <3>3 DEF Commit, Written
    <3>8. s \in Ids /\ s # nextId
      BY <3>2, <3>4 DEF Open
    <3>9. path'[s] = Closed(path[s]) /\ path'[nextId] = tab[t].form
      BY <3>1, <3>7, <3>8
    <3>10. nextId \in Stored(path') \ Stored(path)
      BY <3>1, <3>2, <3>6, <3>9, NoSegmentAssumption DEF Stored
    <3>11. closing = {s}
      <4>1. \A c \in Open(path) \ {s} : path'[c] = path[c]
        BY <3>2, <3>7 DEF Open, Stored
      <4>2. s \in Stored(path') \ Open(path')
        BY <3>5, <3>8, <3>9, NoSegmentAssumption DEF Stored, Open
      <4>. QED BY <3>4, <4>1, <4>2 DEF Open, Stored
    <3>12. Cardinality(closing) = 1
      BY <3>11, FS_Singleton
    <3>13. path'[nextId].origin = path'[s].dest /\ path'[s].dest = path[s].dest
      BY <3>4, <3>5, <3>9
    <3>. HIDE DEF closing
    <3>14. \A c \in closing : \E n \in Stored(path') \ Stored(path) :
              path'[n].origin = path'[c].dest /\ path'[c].dest = path[c].dest
      BY <3>10, <3>11, <3>13
    <3>. USE DEF closing
    <3>. QED BY <3>12, <3>14 DEF HandoverStep
  <2>4. ASSUME NEW t \in Tab, NEW rows, NEW next, NEW d \in Point, Reconstructs(t),
               Commit(t, rows, next), rows = [s \in {tab[t].id} |-> Edited(s, d)]
        PROVE  HandoverStep
    <3>. DEFINE me == tab[t].id
    <3>1. path[me] \in Segment /\ path[me] # NoSegment
      BY <2>4 DEF Reconstructs, Shape, TypeOK, Rows
    <3>2. Edited(me, d) \in Segment /\ Edited(me, d).editable = path[me].editable
      BY <3>1 DEF Edited, Segment
    <3>3. Edited(me, d) # NoSegment
      BY <3>2, NoSegmentAssumption
    <3>. QED BY <2>4, <3>1, <3>2, <3>3, NoHandover
  <2>5. ASSUME NEW t \in Tab, NEW d \in Point, SendEdit(t, d) PROVE HandoverStep
    BY <2>5, <2>4 DEF SendEdit
  <2>6. ASSUME NEW t \in Tab, NEW d \in Point, NEW carriesParade \in BOOLEAN,
               SendDelete(t, d, carriesParade)
        PROVE  HandoverStep
    <3>1. PICK next : Commit(t, [s \in {tab[t].id} |-> Edited(s, d)], next)
      BY <2>6, Zenon DEF SendDelete
    <3>2. Reconstructs(t)
      BY <2>6 DEF SendDelete
    <3>. QED BY <3>1, <3>2, <2>4
  <2>7. ASSUME NEW t \in Tab, DeleteOnly(t) PROVE HandoverStep
    BY <2>7, NoHandover DEF DeleteOnly
  <2>8. ASSUME NEW t \in Tab, NEW s \in Ids, DeleteLast(t, s) PROVE HandoverStep
    <3>. DEFINE me == tab[t].id
                dirty == {me} \cup {p \in {s} : ~tab[t].view[p].editable}
                rows == [p \in dirty |-> IF p = me THEN NoSegment
                                         ELSE Reopened(tab[t].view[p])]
    <3>1. Commit(t, rows, Idle) /\ tab[t].pc = "deleting2"
      BY <2>8 DEF DeleteLast
    <3>2. s \in dirty => tab[t].view[s] = path[s]
      BY <3>1, FreshRows DEF Commit, InTransaction
    <3>3. tab[t].view[s] \in Segment
      <4>1. s \in Stored(tab[t].view)
        BY <2>8 DEF DeleteLast, Before
      <4>. QED BY <4>1 DEF Stored, TypeOK, TabState, Rows
    <3>4. /\ Reopened(tab[t].view[s]) \in Segment
          /\ Reopened(tab[t].view[s]).editable
      BY <3>3 DEF Reopened, Segment
    <3>5. \A p \in DOMAIN rows \cap Ids :
              \/ rows[p] = NoSegment
              \/ /\ path[p] # NoSegment
                 /\ rows[p] # NoSegment
                 /\ path[p].editable => rows[p].editable
      BY <3>2, <3>3, <3>4, NoSegmentAssumption
    <3>. HIDE DEF rows
    <3>. QED BY <3>1, <3>5, NoHandover
  <2>9. ASSUME NEW t \in Tab, DeleteNothing(t) PROVE HandoverStep
    BY <2>9, NoHandover DEF DeleteNothing, Unwritten
  <2>. QED
    BY <2>1, <2>2, <2>3, <2>5, <2>6, <2>7, <2>8, <2>9
       DEF Next, OpenCreate, OpenEdit, Leave, SendNew, ReadForDelete, Rollback
<1>. QED BY <1>1, SessionsAgree, PTL DEF Spec, Handover

-----------------------------------------------------------------------------
(* No dead end *)

\* Whoever is about to delete segment n, and has not missed what became of it, knows
\* that it continues the closed segment s.
Known(s, n) ==
    \A t \in Tab :
        tab[t].pc = "deleting2" /\ tab[t].id = n /\ n \notin tab[t].missed
            => s \in Before(t) /\ ~tab[t].view[s].editable

\* NoDeadEnd is not inductive: the segment after a closed one may be deleted by a request
\* that read the path before that one was closed. But then another continues it, which
\* nobody deletes without knowing.
Continued ==
    \A s \in Stored(path) \ Open(path) :
        \E n \in Ids : Continues(n, s) /\ Known(s, n)

\* A commit keeps Continued if each segment that is closed after it has got a new
\* segment to go on, or was closed before and lost none of which it is Known.
LEMMA CommitContinued ==
    ASSUME TypeOK, Continued,
           NEW t \in Tab, NEW rows, NEW next, Commit(t, rows, next), next.pc # "deleting2",
           \A s \in Stored(path') \ Open(path') :
              \/ \E n \in Ids : path[n] = NoSegment /\ Continues(n, s)'
              \/ /\ s \notin DOMAIN rows
                 /\ \A n \in Ids \cap DOMAIN rows : Continues(n, s) /\ Known(s, n) =>
                        rows[n] # NoSegment /\ rows[n].origin = path[n].origin
    PROVE  Continued'
<1>. SUFFICES ASSUME NEW s \in Stored(path') \ Open(path')
              PROVE  \E n \in Ids : Continues(n, s)' /\ Known(s, n)'
  BY DEF Continued
<1>1. ASSUME NEW r \in Tab, tab'[r].pc = "deleting2"
      PROVE  /\ tab[r].pc = "deleting2" /\ tab'[r].id = tab[r].id
             /\ tab'[r].form = tab[r].form /\ tab'[r].view = tab[r].view
             /\ tab'[r].missed =
                  tab[r].missed \cup {n \in Ids : Written(rows)[n] # path[n]}
  <2>1. r # t
    BY <1>1 DEF Commit
  <2>2. CASE tab[r].pc \notin InTransaction
    BY <1>1, <2>1, <2>2 DEF Commit, InTransaction
  <2>3. CASE tab[r].pc \in InTransaction
    <3>1. tab'[r] = [tab[r] EXCEPT !.missed =
                       @ \cup {n \in Ids : Written(rows)[n] # path[n]}]
      BY <2>1, <2>3 DEF Commit
    <3>. QED BY <1>1, <3>1 DEF TypeOK, TabState
  <2>. QED BY <2>2, <2>3
<1>2. path' = Written(rows)
  BY DEF Commit
<1>3. CASE \E n \in Ids : path[n] = NoSegment /\ Continues(n, s)'
  <2>1. PICK n \in Ids : path[n] = NoSegment /\ Continues(n, s)'
    BY <1>3
  <2>2. path'[n] # path[n]
    BY <2>1 DEF Continues, Stored
  <2>3. Known(s, n)'
    BY <1>1, <1>2, <2>2 DEF Known
  <2>. QED BY <2>1, <2>3
<1>4. CASE /\ s \notin DOMAIN rows
           /\ \A n \in Ids \cap DOMAIN rows : Continues(n, s) /\ Known(s, n) =>
                  rows[n] # NoSegment /\ rows[n].origin = path[n].origin
  <2>1. s \in Ids /\ path'[s] = path[s]
    BY <1>2, <1>4 DEF Stored, Written
  <2>2. s \in Stored(path) \ Open(path)
    BY <2>1 DEF Stored, Open
  <2>3. PICK n \in Ids : Continues(n, s) /\ Known(s, n)
    BY <2>2 DEF Continued
  <2>4. path'[n] # NoSegment /\ path'[n].origin = path[n].origin
    BY <1>2, <1>4, <2>3 DEF Continues, Stored, Written
  <2>5. Continues(n, s)'
    BY <2>1, <2>3, <2>4 DEF Continues, Stored
  <2>6. Known(s, n)'
    BY <1>1, <2>3 DEF Known, Before, Stored
  <2>. QED BY <2>5, <2>6
<1>. QED BY <1>3, <1>4

\* A request that writes nothing keeps Continued, if it is not about to delete.
LEMMA PageContinued ==
    ASSUME Continued, NEW t \in Tab, UNCHANGED path,
           \A r \in Tab \ {t} : tab'[r] = tab[r], tab'[t].pc # "deleting2"
    PROVE  Continued'
BY DEF Continued, Continues, Known, Stored, Open, Before

\* The request that reads the path to delete segment n learns which one it continues.
LEMMA ReadContinued ==
    ASSUME Inv, Continued, NEW t \in Tab, ReadForDelete(t)
    PROVE  Continued'
<1>. DEFINE me == tab[t].id
            view == [path EXCEPT ![me] =
                       IF path[me] = NoSegment THEN NoSegment ELSE tab[t].form]
<1>1. UNCHANGED path /\ \A r \in Tab \ {t} : tab'[r] = tab[r]
  BY DEF ReadForDelete, Inv, TypeOK
<1>2. /\ tab'[t].view = view /\ tab'[t].id = me /\ tab'[t].form = tab[t].form
      /\ tab'[t].missed = tab[t].missed \cap {me}
  BY DEF ReadForDelete, Inv, TypeOK
<1>3. me \in Ids /\ (me \notin tab[t].missed => path[me] = tab[t].form)
  BY DEF ReadForDelete, Inv, Agrees, Shape, InTransaction
<1>4. \A s \in Ids \ {me} : view[s] = path[s]
  BY DEF Inv, TypeOK, Rows
<1>. HIDE DEF me, view
<1>. SUFFICES ASSUME NEW s \in Stored(path) \ Open(path)
              PROVE  \E n \in Ids : Continues(n, s)' /\ Known(s, n)'
  BY <1>1 DEF Continued, Stored, Open
<1>5. PICK n \in Ids : Continues(n, s) /\ Known(s, n)
  BY DEF Continued
<1>6. Continues(n, s)'
  BY <1>1, <1>5 DEF Continues, Stored
<1>7. ASSUME n = me, me \notin tab'[t].missed
      PROVE  s \in Before(t)' /\ ~tab'[t].view[s].editable
  <2>1. s \in Ids \ {me} /\ path[s].dest = path[me].origin
    BY <1>5, <1>7 DEF Continues, Stored
  <2>2. view[s] = path[s] /\ path[s] # NoSegment /\ ~path[s].editable
    BY <1>4, <2>1 DEF Stored, Open
  <2>3. path[me] = tab[t].form
    BY <1>2, <1>3, <1>7
  <2>. QED BY <1>2, <2>1, <2>2, <2>3 DEF Before, Stored
<1>8. Known(s, n)'
  BY <1>1, <1>2, <1>5, <1>7 DEF Known, Before, Stored
<1>. QED BY <1>6, <1>8

\* A commit that edits one open segment closes none and moves no origin.
LEMMA EditContinued ==
    ASSUME FreshForms, Inv, Continued, NEW t \in Tab, NEW d \in Point, NEW rows, NEW next,
           Reconstructs(t), Commit(t, rows, next), next.pc # "deleting2",
           rows = [s \in {tab[t].id} |-> Edited(s, d)]
    PROVE  Continued'
<1>. DEFINE me == tab[t].id
<1>1. path[me] \in Segment /\ path[me].editable /\ me \in Ids
  BY DEF Reconstructs, Inv, Shape, TypeOK, Rows
<1>2. Edited(me, d) \in Segment
  BY <1>1 DEF Edited, Segment
<1>3. Edited(me, d).editable /\ Edited(me, d).origin = path[me].origin
  BY <1>1 DEF Edited, Segment
<1>4. Edited(me, d) # NoSegment
  BY <1>2, NoSegmentAssumption
<1>5. DOMAIN rows = {me} /\ rows[me] = Edited(me, d)
  OBVIOUS
<1>. HIDE DEF me
<1>6. \A s \in Stored(path') \ Open(path') : s # me
  BY <1>1, <1>3, <1>5 DEF Commit, Written, Stored, Open
<1>. QED BY <1>3, <1>4, <1>5, <1>6, CommitContinued DEF Inv

\* Every step keeps the segments continued.
LEMMA NextContinued ==
    ASSUME FreshForms, Inv, Continued, [Next]_vars
    PROVE  Continued'
<1>0. TypeOK /\ IdsAhead /\ \A r \in Tab : Shape(r) /\ Agrees(r)
  BY DEF Inv
<1>i. Idle.pc # "deleting2"
  BY DEF Idle
<1>1. CASE UNCHANGED vars
  BY <1>1 DEF vars, Continued, Continues, Known, Stored, Open, Before
<1>2. ASSUME NEW t \in Tab,
             \/ OpenCreate(t) \/ \E s \in Ids : OpenEdit(t, s)
             \/ \E o, d \in Point, timely \in Timely : SendNew(t, o, d, timely)
             \/ Leave(t) \/ Rollback(t)
      PROVE  Continued'
  <2>1. UNCHANGED path /\ \A r \in Tab \ {t} : tab'[r] = tab[r]
    BY <1>0, <1>2 DEF OpenCreate, OpenEdit, SendNew, Leave, Rollback, TypeOK
  <2>2. tab \in [Tab -> TabState]
    BY <1>0 DEF TypeOK
  <2>3. OpenCreate(t) => tab'[t].pc = "creating"
    BY <2>2 DEF OpenCreate, TabState
  <2>4. (\E s \in Ids : OpenEdit(t, s)) => tab'[t].pc = "editing"
    BY <2>2 DEF OpenEdit, TabState
  <2>5. (\E o, d \in Point, timely \in Timely : SendNew(t, o, d, timely))
            => tab'[t].pc = "saving"
    BY <2>2 DEF SendNew
  <2>6. Leave(t) \/ Rollback(t) => tab'[t] = Idle
    BY <2>2 DEF Leave, Rollback
  <2>7. tab'[t].pc # "deleting2"
    BY <1>2, <1>i, <2>3, <2>4, <2>5, <2>6
  <2>. QED BY <2>1, <2>7, PageContinued
<1>3. ASSUME NEW t \in Tab, SaveFirst(t) PROVE Continued'
  <2>. DEFINE rows == [s \in {nextId} |-> tab[t].form]
  <2>1. Commit(t, rows, Idle) /\ nextId \in Ids /\ tab[t].form.editable
    BY <1>0, <1>3 DEF SaveFirst, Shape
  <2>2. path[nextId] = NoSegment
    BY <1>0, <2>1 DEF IdsAhead, Ids
  <2>3. DOMAIN rows = {nextId} /\ rows[nextId] = tab[t].form
    OBVIOUS
  <2>. HIDE DEF rows
  <2>4. \A s \in Stored(path') \ Open(path') : s \in Ids /\ s # nextId
    BY <2>1, <2>3 DEF Commit, Written, Stored, Open
  <2>5. \A s, n \in Ids : Continues(n, s) => n # nextId
    BY <2>2 DEF Continues, Stored
  <2>. QED BY <1>0, <1>i, <2>1, <2>3, <2>4, <2>5, CommitContinued
<1>4. ASSUME NEW t \in Tab, NEW s \in Ids, SaveNext(t, s) PROVE Continued'
  <2>. DEFINE rows == [n \in {nextId, s} |-> IF n = s THEN Closed(tab[t].view[s])
                                             ELSE tab[t].form]
  <2>1. Commit(t, rows, Idle) /\ nextId \in Ids /\ tab[t].pc = "saving"
    BY <1>4 DEF SaveNext
  <2>2. path[nextId] = NoSegment
    BY <1>0, <2>1 DEF IdsAhead, Ids
  <2>3. tab[t].view[s] = path[s]
    BY <1>0, <2>1, FreshRows DEF Commit, InTransaction
  <2>4. path[s] # NoSegment /\ path[s] \in Segment /\ path[s].dest = tab[t].form.origin
    BY <1>0, <1>4, <2>3 DEF SaveNext, Ends, Stored, TypeOK, Rows
  <2>5. /\ Closed(path[s]) \in Segment
        /\ Closed(path[s]).origin = path[s].origin /\ Closed(path[s]).dest = path[s].dest
    BY <2>4 DEF Closed, Segment
  <2>6. tab[t].form \in Segment /\ tab[t].form.editable
    BY <1>0, <2>1 DEF Shape
  <2>7. /\ DOMAIN rows = {nextId, s} /\ s # nextId
        /\ rows[s] = Closed(path[s]) /\ rows[nextId] = tab[t].form
    BY <2>2, <2>3, <2>4
  <2>. HIDE DEF rows
  <2>8. path'[s] = Closed(path[s]) /\ path'[nextId] = tab[t].form
    BY <2>1, <2>7 DEF Commit, Written
  <2>. PICK new \in Ids : new = nextId
    BY <2>1
  <2>9. Continues(new, s)'
    <3>1. path'[new] # NoSegment /\ path'[new].origin = path'[s].dest
      BY <2>4, <2>5, <2>6, <2>8, NoSegmentAssumption
    <3>. QED BY <2>7, <3>1 DEF Continues, Stored
  <2>10. \A x \in Stored(path') \ Open(path') : x # nextId
    BY <2>6, <2>8 DEF Stored, Open
  <2>11. \A x, n \in Ids : Continues(n, x) => n # nextId
    BY <2>2 DEF Continues, Stored
  <2>12. rows[s] # NoSegment /\ rows[s].origin = path[s].origin
    BY <2>5, <2>7, NoSegmentAssumption
  <2>13. ASSUME NEW x \in Stored(path') \ Open(path')
         PROVE  \/ \E n \in Ids : path[n] = NoSegment /\ Continues(n, x)'
                \/ /\ x \notin DOMAIN rows
                   /\ \A n \in Ids \cap DOMAIN rows : Continues(n, x) /\ Known(x, n) =>
                          rows[n] # NoSegment /\ rows[n].origin = path[n].origin
    <3>1. CASE x = s
      BY <2>1, <2>2, <2>9, <3>1
    <3>2. CASE x # s
      <4>1. x \in Ids
        BY DEF Stored
      <4>. QED BY <2>7, <2>10, <2>11, <2>12, <3>2, <4>1
    <3>. QED BY <3>1, <3>2
  <2>. QED BY <1>0, <1>i, <2>1, <2>13, CommitContinued
<1>5. ASSUME NEW t \in Tab, NEW d \in Point, SendEdit(t, d) PROVE Continued'
  BY <1>5, <1>i, EditContinued DEF SendEdit
<1>6. ASSUME NEW t \in Tab, NEW d \in Point, NEW carriesParade \in BOOLEAN,
             SendDelete(t, d, carriesParade)
      PROVE  Continued'
  <2>. DEFINE me == tab[t].id
              begun == [pc |-> "deleting1", id |-> me, form |-> Edited(me, d),
                        view |-> [NoRows EXCEPT ![me] = Edited(me, d)],
                        missed |-> Ids \ {me}]
              next == IF carriesParade THEN begun ELSE Idle
  <2>1. Reconstructs(t) /\ Commit(t, [s \in {me} |-> Edited(s, d)], next)
    BY <1>6 DEF SendDelete
  <2>2. next.pc # "deleting2"
    BY <1>i
  <2>. HIDE DEF next
  <2>. QED BY <2>1, <2>2, EditContinued
<1>7. ASSUME NEW t \in Tab, ReadForDelete(t) PROVE Continued'
  BY <1>7, ReadContinued
\* A request about to delete the segment after a closed one knows it.
<1>8. ASSUME NEW t \in Tab, NEW x \in Ids, tab[t].pc = "deleting2",
             tab[t].id \notin tab[t].missed, Continues(tab[t].id, x), Known(x, tab[t].id)
      PROVE  /\ x \in Before(t) /\ ~tab[t].view[x].editable /\ x # tab[t].id
             /\ tab[t].id \in Stored(tab[t].view)
  <2>1. x \in Before(t) /\ ~tab[t].view[x].editable
    BY <1>8 DEF Known
  <2>2. path[tab[t].id] # NoSegment /\ x # tab[t].id
    BY <1>8 DEF Continues, Stored
  <2>3. tab[t].id \in Ids /\ tab[t].view[tab[t].id] = path[tab[t].id]
    BY <1>0, <1>8 DEF Shape, Agrees, InTransaction
  <2>. QED BY <2>1, <2>2, <2>3 DEF Stored
<1>9. ASSUME NEW t \in Tab, DeleteOnly(t) PROVE Continued'
  <2>. DEFINE rows == [s \in {tab[t].id} |-> NoSegment]
  <2>1. /\ Commit(t, rows, Idle) /\ tab[t].pc = "deleting2"
        /\ \E s \in Ids : Stored(tab[t].view) = {s}
    BY <1>9 DEF DeleteOnly
  <2>2. tab[t].id \notin tab[t].missed /\ DOMAIN rows = {tab[t].id}
    BY <2>1 DEF Commit, Fresh
  <2>3. rows[tab[t].id] = NoSegment
    OBVIOUS
  <2>. HIDE DEF rows
  <2>4. \A s \in Stored(path') \ Open(path') : s \in Ids /\ s # tab[t].id
    BY <2>1, <2>2, <2>3 DEF Commit, Written, Stored
  <2>5. \A s \in Ids : ~(Continues(tab[t].id, s) /\ Known(s, tab[t].id))
    BY <1>8, <2>1, <2>2 DEF Before
  <2>. QED BY <1>0, <1>i, <2>1, <2>2, <2>4, <2>5, CommitContinued
<1>10. ASSUME NEW t \in Tab, NEW s \in Ids, DeleteLast(t, s) PROVE Continued'
  <2>. DEFINE me == tab[t].id
              dirty == {me} \cup {p \in {s} : ~tab[t].view[p].editable}
              rows == [p \in dirty |-> IF p = me THEN NoSegment
                                       ELSE Reopened(tab[t].view[p])]
  <2>1. Commit(t, rows, Idle) /\ tab[t].pc = "deleting2" /\ Before(t) = {s}
    BY <1>10 DEF DeleteLast
  <2>2. me \notin tab[t].missed
    BY <2>1 DEF Commit, Fresh
  <2>3. s \in dirty => tab[t].view[s] = path[s]
    BY <1>0, <2>1, FreshRows DEF Commit, InTransaction
  <2>4. tab[t].view[s] \in Segment
    <3>1. s \in Stored(tab[t].view)
      BY <2>1 DEF Before
    <3>. QED BY <1>0, <3>1 DEF Stored, TypeOK, TabState, Rows
  <2>5. /\ Reopened(tab[t].view[s]) \in Segment /\ Reopened(tab[t].view[s]).editable
        /\ Reopened(tab[t].view[s]).origin = tab[t].view[s].origin
    BY <2>4 DEF Reopened, Segment
  <2>6. /\ DOMAIN rows = dirty /\ rows[me] = NoSegment
        /\ s \in dirty /\ s # me => rows[s] = Reopened(tab[t].view[s])
    OBVIOUS
  <2>7. \A p \in dirty : p = me \/ p = s
    OBVIOUS
  <2>8. s \notin dirty => tab[t].view[s].editable
    OBVIOUS
  <2>. HIDE DEF me, dirty, rows
  <2>9. \A x \in Stored(path') \ Open(path') : x \in Ids /\ x \notin dirty
    BY <2>1, <2>5, <2>6, <2>7 DEF Commit, Written, Stored, Open
  <2>10. ASSUME NEW x \in Stored(path') \ Open(path'), NEW n \in Ids \cap dirty,
                Continues(n, x), Known(x, n)
         PROVE  rows[n] # NoSegment /\ rows[n].origin = path[n].origin
    <3>1. n # me
      <4>. SUFFICES ASSUME n = me PROVE FALSE
        OBVIOUS
      <4>1. x \in Before(t) /\ ~tab[t].view[x].editable
        BY <1>8, <2>1, <2>2, <2>9, <2>10 DEF me
      <4>2. x = s
        BY <2>1, <4>1
      <4>. QED BY <2>8, <2>9, <4>1, <4>2
    <3>. QED BY <2>3, <2>5, <2>6, <2>7, <2>10, <3>1, NoSegmentAssumption
  <2>. QED BY <1>0, <1>i, <2>1, <2>6, <2>9, <2>10, CommitContinued
<1>11. ASSUME NEW t \in Tab, DeleteNothing(t) PROVE Continued'
  <2>1. Commit(t, Unwritten, Idle) /\ DOMAIN Unwritten = {}
    BY <1>11 DEF DeleteNothing, Unwritten
  <2>. QED BY <1>0, <1>i, <2>1, CommitContinued
<1>. QED
  BY <1>1, <1>2, <1>3, <1>4, <1>5, <1>6, <1>7, <1>9, <1>10, <1>11 DEF Next

\* No closed segment is left at a dead end, whatever saves and deletions interleave, when
\* forms are sent while they still show their row.
THEOREM NoneAtADeadEnd == ASSUME FreshForms PROVE Spec => []NoDeadEnd
<1>1. Init => Continued
  BY DEF Init, Continued, Stored, NoRows
<1>2. Inv /\ Continued /\ [Next]_vars => Continued'
  BY NextContinued
<1>3. Continued => NoDeadEnd
  BY DEF Continued, NoDeadEnd
<1>. QED BY <1>1, <1>2, <1>3, SessionsAgree, PTL DEF Spec

-----------------------------------------------------------------------------
(* One request at a time *)

\* A request that has the server for itself misses nothing.
Alone ==
    \A t \in Tab : tab[t].pc \in InTransaction =>
        /\ \A r \in Tab \ {t} : tab[r].pc \notin InTransaction
        /\ tab[t].pc = "saving" => tab[t].missed = {}

\* Requests begin when no other is served, and a commit ends one.
LEMMA NextAlone ==
    ASSUME ~Overlap, TypeOK, Alone, [Next]_vars
    PROVE  Alone'
<1>i. Idle.pc \notin InTransaction
  BY DEF Idle, InTransaction
<1>1. CASE UNCHANGED vars
  BY <1>1 DEF vars, Alone
<1>2. ASSUME NEW t \in Tab, \A r \in Tab \ {t} : tab'[r] = tab[r],
             tab'[t].pc \notin InTransaction
      PROVE  Alone'
  BY <1>2 DEF Alone
<1>3. ASSUME NEW t \in Tab, NEW rows, NEW next, Commit(t, rows, next),
             next.pc \notin {"saving"},
             \A r \in Tab \ {t} : tab[r].pc \notin InTransaction
      PROVE  Alone'
  <2>1. tab'[t] = next /\ \A r \in Tab \ {t} : tab'[r] = tab[r]
    BY <1>3 DEF Commit
  <2>. QED BY <1>3, <2>1 DEF Alone
<1>4. ASSUME NEW t \in Tab, NEW rows, Commit(t, rows, Idle), tab[t].pc \in InTransaction
      PROVE  Alone'
  <2>1. \A r \in Tab \ {t} : tab[r].pc \notin InTransaction
    BY <1>4 DEF Alone
  <2>2. Idle.pc \notin {"saving"}
    BY DEF Idle
  <2>. QED BY <1>3, <1>4, <2>1, <2>2
<1>5. ASSUME NEW t \in Tab,
             \/ OpenCreate(t) \/ \E s \in Ids : OpenEdit(t, s)
             \/ Leave(t) \/ Rollback(t)
      PROVE  Alone'
  <2>1. tab \in [Tab -> TabState]
    BY DEF TypeOK
  <2>2. \A r \in Tab \ {t} : tab'[r] = tab[r]
    BY <1>5, <2>1 DEF OpenCreate, OpenEdit, Leave, Rollback
  <2>3. OpenCreate(t) => tab'[t].pc = "creating"
    BY <2>1 DEF OpenCreate, TabState
  <2>4. (\E s \in Ids : OpenEdit(t, s)) => tab'[t].pc = "editing"
    BY <2>1 DEF OpenEdit, TabState
  <2>5. Leave(t) \/ Rollback(t) => tab'[t] = Idle
    BY <2>1 DEF Leave, Rollback
  <2>6. tab'[t].pc \notin InTransaction
    BY <1>5, <1>i, <2>3, <2>4, <2>5 DEF InTransaction
  <2>. QED BY <1>2, <2>2, <2>6
<1>6. ASSUME NEW t \in Tab, NEW o \in Point, NEW d \in Point, NEW timely \in Timely,
             SendNew(t, o, d, timely)
      PROVE  Alone'
  <2>1. /\ tab'[t].missed = {}
        /\ \A r \in Tab \ {t} : tab'[r] = tab[r]
    BY <1>6 DEF SendNew, TypeOK
  <2>2. \A r \in Tab : tab[r].pc \notin InTransaction
    BY <1>6 DEF SendNew, MayStart
  <2>. QED BY <2>1, <2>2 DEF Alone
<1>7. ASSUME NEW t \in Tab,
             \/ SaveFirst(t) \/ \E s \in Ids : SaveNext(t, s)
             \/ DeleteOnly(t) \/ \E s \in Ids : DeleteLast(t, s)
             \/ DeleteNothing(t)
      PROVE  Alone'
  <2>1. tab[t].pc \in InTransaction /\ \E rows : Commit(t, rows, Idle)
    BY <1>7 DEF SaveFirst, SaveNext, DeleteOnly, DeleteLast, DeleteNothing, InTransaction
  <2>. QED BY <1>4, <2>1
<1>8. ASSUME NEW t \in Tab, NEW d \in Point, SendEdit(t, d) PROVE Alone'
  <2>1. \A r \in Tab : tab[r].pc \notin InTransaction
    BY <1>8 DEF SendEdit, Reconstructs, MayStart
  <2>2. Idle.pc \notin {"saving"}
    BY DEF Idle
  <2>. QED BY <1>3, <1>8, <2>1, <2>2 DEF SendEdit
<1>9. ASSUME NEW t \in Tab, NEW d \in Point, NEW carriesParade \in BOOLEAN,
             SendDelete(t, d, carriesParade)
      PROVE  Alone'
  <2>. DEFINE me == tab[t].id
              begun == [pc |-> "deleting1", id |-> me, form |-> Edited(me, d),
                        view |-> [NoRows EXCEPT ![me] = Edited(me, d)],
                        missed |-> Ids \ {me}]
              next == IF carriesParade THEN begun ELSE Idle
  <2>1. \A r \in Tab : tab[r].pc \notin InTransaction
    BY <1>9 DEF SendDelete, Reconstructs, MayStart
  <2>2. Commit(t, [s \in {me} |-> Edited(s, d)], next)
    BY <1>9 DEF SendDelete
  <2>3. next.pc \notin {"saving"}
    BY DEF Idle
  <2>. HIDE DEF next
  <2>. QED BY <1>3, <2>1, <2>2, <2>3
<1>10. ASSUME NEW t \in Tab, ReadForDelete(t) PROVE Alone'
  <2>1. /\ tab[t].pc \in InTransaction /\ tab'[t].pc = "deleting2"
        /\ \A r \in Tab \ {t} : tab'[r] = tab[r]
    BY <1>10 DEF ReadForDelete, TypeOK, InTransaction
  <2>. QED BY <2>1 DEF Alone
<1>. QED BY <1>1, <1>5, <1>6, <1>7, <1>8, <1>9, <1>10 DEF Next

\* Served one request at a time, every segment but the first starts where an open one
\* ended, even if it is sent from an old page.
THEOREM EachStartsAtAnEnd == ASSUME ~Overlap PROVE Spec => StartsAtAnEnd
<1>1. Init => Alone
  BY DEF Init, Alone, Idle, InTransaction
<1>2. Inv /\ Alone /\ [Next]_vars => Alone'
  BY NextAlone DEF Inv
<1>3. Inv /\ Alone /\ [Next]_vars => [StartsAtAnEndStep]_vars
  <2>. SUFFICES ASSUME TypeOK, \A r \in Tab : Shape(r) /\ Agrees(r), IdsAhead, Alone, Next,
                       NEW n \in Stored(path') \ Stored(path), Stored(path) # {}
                PROVE  \E s \in Open(path) : path[s].dest = path'[n].origin
    BY DEF Inv, StartsAtAnEndStep
  <2>1. ASSUME NEW t \in Tab, NEW rows, NEW next, Commit(t, rows, next),
               \A s \in DOMAIN rows \cap Ids : rows[s] # NoSegment => path[s] # NoSegment
        PROVE  FALSE
    BY <2>1 DEF Commit, Written, Stored
  <2>2. ASSUME NEW t \in Tab, SaveFirst(t) PROVE FALSE
    <3>1. tab[t].pc = "saving" /\ Stored(tab[t].view) = {}
      BY <2>2 DEF SaveFirst
    <3>2. \A s \in Ids : tab[t].view[s] = path[s]
      BY <3>1 DEF Alone, Agrees, InTransaction
    <3>. QED BY <3>1, <3>2 DEF Stored
  <2>3. ASSUME NEW t \in Tab, NEW s \in Ids, SaveNext(t, s)
        PROVE  \E x \in Open(path) : path[x].dest = path'[n].origin
    <3>. DEFINE rows == [m \in {nextId, s} |-> IF m = s THEN Closed(tab[t].view[s])
                                               ELSE tab[t].form]
    <3>1. Commit(t, rows, Idle) /\ tab[t].pc = "saving"
      BY <2>3 DEF SaveNext
    <3>2. tab[t].view[s] = path[s]
      BY <3>1, FreshRows DEF Commit, InTransaction
    <3>3. s \in Open(path) /\ path[s].dest = tab[t].form.origin
      BY <2>3, <3>2 DEF SaveNext, Ends, Stored, Open
    <3>4. n # s /\ n \in Ids
      BY <3>3 DEF Open, Stored
    <3>5. path'[n] = tab[t].form
      <4>1. path'[n] # path[n]
        BY DEF Stored
      <4>. QED BY <3>1, <3>4, <4>1 DEF Commit, Written
    <3>. QED BY <3>3, <3>5
  <2>4. ASSUME NEW t \in Tab, NEW rows, NEW next, Reconstructs(t), Commit(t, rows, next),
               DOMAIN rows = {tab[t].id}
        PROVE  FALSE
    BY <2>1, <2>4 DEF Reconstructs
  <2>5. ASSUME NEW t \in Tab, NEW d \in Point, SendEdit(t, d) PROVE FALSE
    BY <2>4, <2>5 DEF SendEdit
  <2>6. ASSUME NEW t \in Tab, NEW d \in Point, NEW carriesParade \in BOOLEAN,
               SendDelete(t, d, carriesParade)
        PROVE  FALSE
    <3>. DEFINE rows == [s \in {tab[t].id} |-> Edited(tab[t].id, d)]
    <3>1. PICK next : Commit(t, rows, next)
      BY <2>6, Zenon DEF SendDelete
    <3>2. DOMAIN rows = {tab[t].id} /\ Reconstructs(t)
      BY <2>6 DEF SendDelete
    <3>. HIDE DEF rows
    <3>. QED BY <2>4, <3>1, <3>2
  <2>7. ASSUME NEW t \in Tab, DeleteOnly(t) PROVE FALSE
    BY <2>1, <2>7 DEF DeleteOnly
  <2>8. ASSUME NEW t \in Tab, NEW s \in Ids, DeleteLast(t, s) PROVE FALSE
    <3>. DEFINE me == tab[t].id
                dirty == {me} \cup {p \in {s} : ~tab[t].view[p].editable}
                rows == [p \in dirty |-> IF p = me THEN NoSegment
                                         ELSE Reopened(tab[t].view[p])]
    <3>1. Commit(t, rows, Idle) /\ tab[t].pc = "deleting2" /\ Before(t) = {s}
      BY <2>8 DEF DeleteLast
    <3>2. s \in dirty => tab[t].view[s] = path[s]
      BY <3>1, FreshRows DEF Commit, InTransaction
    <3>3. tab[t].view[s] # NoSegment
      BY <3>1 DEF Before, Stored
    <3>4. \A p \in DOMAIN rows \cap Ids : rows[p] # NoSegment => path[p] # NoSegment
      BY <3>2, <3>3
    <3>. HIDE DEF rows
    <3>. QED BY <2>1, <3>1, <3>4
  <2>9. ASSUME NEW t \in Tab, DeleteNothing(t) PROVE FALSE
    BY <2>1, <2>9 DEF DeleteNothing, Unwritten
  <2>10. path' # path
    OBVIOUS
  <2>. QED
    BY <2>2, <2>3, <2>5, <2>6, <2>7, <2>8, <2>9, <2>10
       DEF Next, OpenCreate, OpenEdit, Leave, SendNew, ReadForDelete, Rollback
<1>. QED BY <1>1, <1>2, <1>3, SessionsAgree, PTL DEF Spec, StartsAtAnEnd

-----------------------------------------------------------------------------
(* The chain *)

\* Chained, without the sets of later segments: exactly the last segment is open, and the
\* first one after another starts where that one ends.
Linked ==
    \A s \in Stored(path) :
        /\ path[s].editable <=> \A n \in Stored(path) : n <= s
        /\ \A n \in Stored(path) :
              n > s /\ (\A m \in Stored(path) : m > s => n <= m) =>
                  path[n].origin = path[s].dest

\* Every segment but the first comes after one, with none between the two.
Preceded ==
    \A n \in Stored(path) :
        \/ \A m \in Stored(path) : n <= m
        \/ \E p \in Stored(path) : p < n /\ \A m \in Stored(path) : m < n => m <= p

\* A request that has the server for itself works on the path as it is.
Serial(t) ==
    /\ tab[t].pc \in {"deleting1", "deleting2"} => path[tab[t].id] = tab[t].form
    /\ tab[t].pc \in {"saving", "deleting2"} => tab[t].view = path

\* What holds of the path between two steps, when requests do not overlap and forms are
\* fresh.
Chain == Linked /\ Preceded

\* It says what Chained says.
LEMMA LinkedIsChained == Linked => Chained
<1>. SUFFICES ASSUME Linked, NEW s \in Stored(path)
              PROVE  LET later == {n \in Stored(path) : n > s}
                     IN  /\ path[s].editable <=> later = {}
                         /\ \A n \in later :
                               (\A m \in later : n <= m) => path[n].origin = path[s].dest
  BY DEF Chained
<1>. DEFINE later == {n \in Stored(path) : n > s}
<1>1. \A n \in Stored(path) : n \in Int
  BY DEF Stored, Ids
<1>2. later = {} <=> \A n \in Stored(path) : n <= s
  BY <1>1
<1>3. \A n \in later : (\A m \in later : n <= m) => path[n].origin = path[s].dest
  BY DEF Linked
<1>. QED BY <1>2, <1>3 DEF Linked

\* The segments of a chain are rows with ids in order.
LEMMA StoredIds == \A s \in Stored(path) : s \in Ids /\ s \in Int /\ path[s] # NoSegment
BY DEF Stored, Ids

\* A first segment is a chain.
LEMMA ChainFirst ==
    ASSUME Stored(path) = {}, NEW n \in Ids, NEW row \in Segment, row.editable,
           \A s \in Ids : path'[s] = IF s = n THEN row ELSE path[s]
    PROVE  Chain'
<1>1. Stored(path') = {n} /\ path'[n] = row
  BY NoSegmentAssumption DEF Stored
<1>2. n \in Int
  BY DEF Ids
<1>. QED BY <1>1, <1>2 DEF Chain, Linked, Preceded

\* A segment that continues the last one, which closes, makes the chain longer.
LEMMA ChainAppend ==
    ASSUME Chain, NEW s \in Open(path), NEW n \in Ids, \A m \in Stored(path) : m < n,
           NEW row \in Segment, row.editable, row.origin = path[s].dest,
           NEW closed \in Segment, ~closed.editable,
           closed.origin = path[s].origin, closed.dest = path[s].dest,
           \A m \in Ids : path'[m] = IF m = n THEN row ELSE IF m = s THEN closed ELSE path[m]
    PROVE  Chain'
<1>1. s \in Stored(path) /\ path[s].editable /\ n \in Int /\ s < n
  BY DEF Open, Ids
<1>2. \A m \in Stored(path) : m <= s
  BY <1>1 DEF Chain, Linked
<1>3. Stored(path') = Stored(path) \cup {n}
  BY <1>1, NoSegmentAssumption DEF Stored
<1>4. /\ path'[n] = row /\ path'[s] = closed
      /\ \A m \in Stored(path) \ {s} : path'[m] = path[m]
  BY <1>1, StoredIds
<1>5. Preceded'
  <2>1. \A m \in Stored(path') : m < n => m <= s
    BY <1>1, <1>2, <1>3, StoredIds
  <2>2. ASSUME NEW m \in Stored(path), NEW p \in Stored(path), p < m,
               \A q \in Stored(path) : q < m => q <= p
        PROVE  p \in Stored(path') /\ \A q \in Stored(path') : q < m => q <= p
    BY <1>1, <1>3, <2>2, StoredIds
  <2>3. ASSUME NEW m \in Stored(path), \A q \in Stored(path) : m <= q
        PROVE  \A q \in Stored(path') : m <= q
    BY <1>1, <1>3, <2>3, StoredIds
  <2>4. ASSUME NEW m \in Stored(path')
        PROVE  \/ \A q \in Stored(path') : m <= q
               \/ \E p \in Stored(path') :
                     p < m /\ \A q \in Stored(path') : q < m => q <= p
    <3>1. CASE m = n
      BY <1>1, <1>3, <2>1, <3>1
    <3>2. CASE m \in Stored(path)
      BY <2>2, <2>3, <3>2 DEF Chain, Preceded
    <3>. QED BY <1>3, <3>1, <3>2
  <2>. QED BY <2>4 DEF Preceded
<1>6. Linked'
  <2>1. ASSUME NEW x \in Stored(path')
        PROVE  /\ path'[x].editable <=> \A m \in Stored(path') : m <= x
               /\ \A m \in Stored(path') :
                     m > x /\ (\A q \in Stored(path') : q > x => m <= q) =>
                         path'[m].origin = path'[x].dest
    <3>1. CASE x = n
      <4>1. \A m \in Stored(path') : m <= n
        BY <1>1, <1>3, StoredIds
      <4>2. \A m \in Stored(path') : ~(m > n)
        BY <1>1, <1>3, <4>1, StoredIds
      <4>. QED BY <1>4, <3>1, <4>1, <4>2
    <3>2. CASE x = s
      <4>1. \A m \in Stored(path') : m > s => m = n
        BY <1>1, <1>2, <1>3, StoredIds
      <4>. QED BY <1>1, <1>3, <1>4, <3>2, <4>1, StoredIds
    <3>3. CASE x \in Stored(path) \ {s}
      <4>1. x < s
        BY <1>1, <1>2, <3>3, StoredIds
      <4>2. ~path[x].editable /\ path'[x] = path[x]
        BY <1>1, <1>4, <3>3, <4>1, StoredIds DEF Chain, Linked
      <4>3. ASSUME NEW m \in Stored(path'), m > x, \A q \in Stored(path') : q > x => m <= q
            PROVE  path'[m].origin = path'[x].dest
        <5>1. m \in Stored(path)
          BY <1>1, <1>3, <4>1, <4>3, StoredIds
        <5>2. path[m].origin = path[x].dest
          BY <1>3, <3>3, <4>3, <5>1 DEF Chain, Linked
        <5>3. path'[m].origin = path[m].origin
          BY <1>4, <5>1
        <5>. QED BY <4>2, <5>2, <5>3
      <4>. QED BY <1>1, <1>3, <4>1, <4>2, <4>3, StoredIds
    <3>. QED BY <1>3, <3>1, <3>2, <3>3
  <2>. QED BY <2>1 DEF Linked
<1>. QED BY <1>5, <1>6 DEF Chain

\* Only the last segment is edited, and nothing starts where it ends.
LEMMA ChainEdit ==
    ASSUME Chain, NEW s \in Open(path), NEW row \in Segment, row.editable,
           row.origin = path[s].origin,
           \A m \in Ids : path'[m] = IF m = s THEN row ELSE path[m]
    PROVE  Chain'
<1>1. s \in Stored(path) /\ path[s].editable /\ s \in Int
  BY StoredIds DEF Open
<1>2. Stored(path') = Stored(path)
  BY <1>1, NoSegmentAssumption DEF Stored
<1>3. path'[s] = row /\ \A m \in Stored(path) \ {s} : path'[m] = path[m]
  BY <1>1, StoredIds
<1>4. \A m \in Stored(path) : m <= s
  BY <1>1 DEF Chain, Linked
<1>5. Preceded'
  BY <1>2 DEF Chain, Preceded
<1>6. Linked'
  <2>1. \A m \in Stored(path) :
           /\ path'[m].editable = path[m].editable \/ m = s
           /\ path'[m].origin = path[m].origin
           /\ path'[m].dest = path[m].dest \/ m = s
    BY <1>3
  <2>2. ASSUME NEW x \in Stored(path)
        PROVE  /\ path'[x].editable <=> \A m \in Stored(path) : m <= x
               /\ \A m \in Stored(path) :
                     m > x /\ (\A q \in Stored(path) : q > x => m <= q) =>
                         path'[m].origin = path'[x].dest
    <3>1. CASE x = s
      <4>1. ASSUME NEW m \in Stored(path) PROVE ~(m > s)
        <5>1. m \in Int /\ m <= s
          BY <1>4, StoredIds
        <5>. QED BY <1>1, <5>1
      <4>. QED BY <1>3, <1>4, <3>1, <4>1
    <3>2. CASE x # s
      <4>1. path'[x].editable = path[x].editable /\ path'[x].dest = path[x].dest
        BY <2>1, <3>2
      <4>. QED BY <2>1, <4>1 DEF Chain, Linked
    <3>. QED BY <3>1, <3>2
  <2>. QED BY <1>2, <2>2 DEF Linked
<1>. QED BY <1>5, <1>6 DEF Chain

\* The last segment of a longer chain starts where a closed one ends.
LEMMA LastContinues ==
    ASSUME Chain, NEW me \in Open(path), Stored(path) # {me}
    PROVE  \E p \in Stored(path) :
              /\ p < me /\ ~path[p].editable /\ path[p].dest = path[me].origin
              /\ \A m \in Stored(path) \ {me} : m <= p
<1>1. me \in Stored(path) /\ path[me].editable /\ me \in Int
  BY StoredIds DEF Open
<1>2. \A m \in Stored(path) : m <= me
  BY <1>1 DEF Chain, Linked
<1>3. PICK x \in Stored(path) : x # me
  BY <1>1
<1>4. ~\A m \in Stored(path) : me <= m
  BY <1>1, <1>2, <1>3, StoredIds
<1>5. PICK p \in Stored(path) : p < me /\ \A m \in Stored(path) : m < me => m <= p
  BY <1>1, <1>4 DEF Chain, Preceded
<1>6. \A m \in Stored(path) \ {me} : m <= p
  BY <1>1, <1>2, <1>5, StoredIds
<1>7. \A m \in Stored(path) : m > p => me <= m
  BY <1>1, <1>5, <1>6, StoredIds
<1>8. path[me].origin = path[p].dest
  BY <1>1, <1>5, <1>7, StoredIds DEF Chain, Linked
<1>9. ~path[p].editable
  BY <1>1, <1>5, StoredIds DEF Chain, Linked
<1>. QED BY <1>5, <1>6, <1>8, <1>9

\* Without its last segment, and with the one before it open, a chain is a chain.
LEMMA ChainRemove ==
    ASSUME Chain, NEW me \in Open(path), NEW p \in Stored(path), p < me,
           \A m \in Stored(path) \ {me} : m <= p,
           NEW row \in Segment, row.editable, row.origin = path[p].origin,
           \A m \in Ids : path'[m] = IF m = me THEN NoSegment
                                     ELSE IF m = p THEN row ELSE path[m]
    PROVE  Chain'
<1>1. me \in Stored(path) /\ me \in Int /\ p \in Int /\ p # me
  BY StoredIds DEF Open
<1>2. Stored(path') = Stored(path) \ {me}
  BY <1>1, NoSegmentAssumption, StoredIds DEF Stored
<1>3. path'[p] = row /\ \A m \in Stored(path) \ {me, p} : path'[m] = path[m]
  BY <1>1, StoredIds
<1>4. Preceded'
  <2>1. ASSUME NEW n \in Stored(path')
        PROVE  \/ \A m \in Stored(path') : n <= m
               \/ \E q \in Stored(path') : q < n /\ \A m \in Stored(path') : m < n => m <= q
    <3>1. n \in Stored(path) /\ n < me
      BY <1>1, <1>2, StoredIds
    <3>2. CASE \A m \in Stored(path) : n <= m
      BY <1>2, <3>2
    <3>3. CASE \E q \in Stored(path) : q < n /\ \A m \in Stored(path) : m < n => m <= q
      <4>1. PICK q \in Stored(path) : q < n /\ \A m \in Stored(path) : m < n => m <= q
        BY <3>3
      <4>2. q \in Stored(path')
        BY <1>1, <1>2, <3>1, <4>1, StoredIds
      <4>. QED BY <1>2, <4>1, <4>2
    <3>. QED BY <3>1, <3>2, <3>3 DEF Chain, Preceded
  <2>. QED BY <2>1 DEF Preceded
<1>5. Linked'
  <2>1. ASSUME NEW x \in Stored(path')
        PROVE  /\ path'[x].editable <=> \A m \in Stored(path') : m <= x
               /\ \A m \in Stored(path') :
                     m > x /\ (\A q \in Stored(path') : q > x => m <= q) =>
                         path'[m].origin = path'[x].dest
    <3>1. CASE x = p
      <4>1. \A m \in Stored(path') : m <= p /\ ~(m > p)
        BY <1>1, <1>2, StoredIds
      <4>. QED BY <1>3, <3>1, <4>1
    <3>2. CASE x # p
      <4>1. x \in Stored(path) /\ x < p /\ x < me /\ p \in Stored(path')
        BY <1>1, <1>2, <3>2, StoredIds
      <4>2. path'[x] = path[x] /\ ~path[x].editable
        <5>1. x \in Stored(path) \ {me, p} /\ ~(p <= x)
          BY <1>1, <3>2, <4>1, StoredIds
        <5>2. ~path[x].editable
          BY <5>1 DEF Chain, Linked
        <5>. QED BY <1>3, <5>1, <5>2
      <4>3. ASSUME NEW m \in Stored(path'), m > x, \A q \in Stored(path') : q > x => m <= q
            PROVE  path'[m].origin = path'[x].dest
        <5>1. m \in Stored(path) /\ m <= p /\ m <= me
          BY <1>1, <1>2, <4>1, <4>3, StoredIds
        <5>2. \A q \in Stored(path) : q > x => m <= q
          BY <1>2, <4>3, <5>1
        <5>3. path[m].origin = path[x].dest
          BY <4>1, <4>3, <5>1, <5>2 DEF Chain, Linked
        <5>4. path'[m].origin = path[m].origin
          BY <1>2, <1>3, <5>1
        <5>. QED BY <4>2, <5>3, <5>4
      <4>4. ~(p <= x)
        BY <1>1, <4>1, StoredIds
      <4>. QED BY <4>1, <4>2, <4>3, <4>4
    <3>. QED BY <3>1, <3>2
  <2>. QED BY <2>1 DEF Linked
<1>. QED BY <1>4, <1>5 DEF Chain

\* A request that has the server for itself is not overtaken: its view stays the path.
LEMMA NextSerial ==
    ASSUME ~Overlap, TypeOK, Alone, \A t \in Tab : Shape(t) /\ Agrees(t) /\ Serial(t),
           [Next]_vars
    PROVE  \A t \in Tab : Serial(t)'
<1>i. Idle.pc \notin {"saving", "deleting1", "deleting2"}
  BY DEF Idle
<1>1. CASE UNCHANGED vars
  BY <1>1 DEF vars, Serial
<1>2. ASSUME NEW t \in Tab, UNCHANGED path, \A r \in Tab \ {t} : tab'[r] = tab[r], Serial(t)'
      PROVE  \A r \in Tab : Serial(r)'
  BY <1>2 DEF Serial
<1>3. ASSUME NEW t \in Tab, NEW rows, NEW next, Commit(t, rows, next),
             \A r \in Tab \ {t} : tab[r].pc \notin InTransaction, Serial(t)'
      PROVE  \A r \in Tab : Serial(r)'
  <2>1. \A r \in Tab \ {t} : tab'[r] = tab[r]
    BY <1>3 DEF Commit
  <2>. QED BY <1>3, <2>1 DEF Serial, InTransaction
<1>4. ASSUME NEW t \in Tab, NEW rows, Commit(t, rows, Idle), tab[t].pc \in InTransaction
      PROVE  \A r \in Tab : Serial(r)'
  <2>1. \A r \in Tab \ {t} : tab[r].pc \notin InTransaction
    BY <1>4 DEF Alone
  <2>2. Serial(t)'
    BY <1>4, <1>i DEF Commit, Serial
  <2>. QED BY <1>3, <1>4, <2>1, <2>2
<1>5. ASSUME NEW t \in Tab,
             \/ OpenCreate(t) \/ \E s \in Ids : OpenEdit(t, s)
             \/ Leave(t) \/ Rollback(t)
      PROVE  \A r \in Tab : Serial(r)'
  <2>1. tab \in [Tab -> TabState]
    BY DEF TypeOK
  <2>2. UNCHANGED path /\ \A r \in Tab \ {t} : tab'[r] = tab[r]
    BY <1>5, <2>1 DEF OpenCreate, OpenEdit, Leave, Rollback
  <2>3. OpenCreate(t) => tab'[t].pc = "creating"
    BY <2>1 DEF OpenCreate, TabState
  <2>4. (\E s \in Ids : OpenEdit(t, s)) => tab'[t].pc = "editing"
    BY <2>1 DEF OpenEdit, TabState
  <2>5. Leave(t) \/ Rollback(t) => tab'[t] = Idle
    BY <2>1 DEF Leave, Rollback
  <2>6. tab'[t].pc \notin {"saving", "deleting1", "deleting2"}
    BY <1>5, <1>i, <2>3, <2>4, <2>5
  <2>. QED BY <1>2, <2>2, <2>6 DEF Serial
<1>6. ASSUME NEW t \in Tab, NEW o \in Point, NEW d \in Point, NEW timely \in Timely,
             SendNew(t, o, d, timely)
      PROVE  \A r \in Tab : Serial(r)'
  <2>1. /\ tab'[t].pc = "saving" /\ tab'[t].view = path /\ UNCHANGED path
        /\ \A r \in Tab \ {t} : tab'[r] = tab[r]
    BY <1>6 DEF SendNew, TypeOK
  <2>. QED BY <1>2, <2>1 DEF Serial
<1>7. ASSUME NEW t \in Tab,
             \/ SaveFirst(t) \/ \E s \in Ids : SaveNext(t, s)
             \/ DeleteOnly(t) \/ \E s \in Ids : DeleteLast(t, s)
             \/ DeleteNothing(t)
      PROVE  \A r \in Tab : Serial(r)'
  <2>1. tab[t].pc \in InTransaction /\ \E rows : Commit(t, rows, Idle)
    BY <1>7 DEF SaveFirst, SaveNext, DeleteOnly, DeleteLast, DeleteNothing, InTransaction
  <2>. QED BY <1>4, <2>1
<1>8. ASSUME NEW t \in Tab, NEW d \in Point, SendEdit(t, d) PROVE \A r \in Tab : Serial(r)'
  <2>1. \A r \in Tab : tab[r].pc \notin InTransaction
    BY <1>8 DEF SendEdit, Reconstructs, MayStart
  <2>2. Commit(t, [s \in {tab[t].id} |-> Edited(s, d)], Idle)
    BY <1>8 DEF SendEdit
  <2>3. Serial(t)'
    BY <1>i, <2>2 DEF Commit, Serial
  <2>. QED BY <1>3, <2>1, <2>2, <2>3
<1>9. ASSUME NEW t \in Tab, NEW d \in Point, NEW carriesParade \in BOOLEAN,
             SendDelete(t, d, carriesParade)
      PROVE  \A r \in Tab : Serial(r)'
  <2>. DEFINE me == tab[t].id
              begun == [pc |-> "deleting1", id |-> me, form |-> Edited(me, d),
                        view |-> [NoRows EXCEPT ![me] = Edited(me, d)],
                        missed |-> Ids \ {me}]
              next == IF carriesParade THEN begun ELSE Idle
              rows == [s \in {me} |-> Edited(s, d)]
  <2>1. (\A r \in Tab : tab[r].pc \notin InTransaction) /\ tab[t].pc = "editing"
    BY <1>9 DEF SendDelete, Reconstructs, MayStart
  <2>2. Commit(t, rows, next)
    BY <1>9 DEF SendDelete
  <2>3. me \in Ids
    BY <2>1 DEF Shape
  <2>4. tab'[t] = next /\ path'[me] = Edited(me, d)
    BY <2>2, <2>3 DEF Commit, Written
  <2>5. Serial(t)'
    BY <1>i, <2>4 DEF Serial
  <2>. HIDE DEF next, rows
  <2>. QED BY <1>3, <2>1, <2>2, <2>5
<1>10. ASSUME NEW t \in Tab, ReadForDelete(t) PROVE \A r \in Tab : Serial(r)'
  <2>. DEFINE me == tab[t].id
              view == [path EXCEPT ![me] =
                         IF path[me] = NoSegment THEN NoSegment ELSE tab[t].form]
  <2>1. /\ tab'[t].id = me /\ tab'[t].form = tab[t].form /\ tab'[t].view = view
        /\ UNCHANGED path /\ tab[t].pc = "deleting1"
        /\ \A r \in Tab \ {t} : tab'[r] = tab[r]
    BY <1>10 DEF ReadForDelete, TypeOK
  <2>2. path[me] = tab[t].form
    BY <2>1 DEF Serial
  <2>3. view = path
    BY <2>2 DEF TypeOK, Rows
  <2>. QED BY <1>2, <2>1, <2>2, <2>3 DEF Serial
<1>. QED BY <1>1, <1>5, <1>6, <1>7, <1>8, <1>9, <1>10 DEF Next

\* What a request that has the server for itself, from a fresh form, can do to a path:
\* begin it, continue its last segment, change that one, or remove it.
Begins ==
    \E n \in Ids, row \in Segment :
        /\ Stored(path) = {}
        /\ row.editable
        /\ \A m \in Ids : path'[m] = IF m = n THEN row ELSE path[m]

Appends ==
    \E s \in Open(path), n \in Ids, row \in Segment :
        /\ \A m \in Stored(path) : m < n
        /\ row.editable
        /\ row.origin = path[s].dest
        /\ \A m \in Ids : path'[m] = IF m = n THEN row
                                     ELSE IF m = s THEN Closed(path[s]) ELSE path[m]

Edits ==
    \E s \in Open(path), d \in Point :
        \A m \in Ids : path'[m] = IF m = s THEN Edited(s, d) ELSE path[m]

Empties ==
    \E s \in Open(path) : Stored(path) = {s} /\ Stored(path') = {}

Removes ==
    \E s \in Open(path), p \in Stored(path) :
        /\ p < s
        /\ \A m \in Stored(path) \ {s} : m <= p
        /\ \A m \in Ids : path'[m] = IF m = s THEN NoSegment
                                     ELSE IF m = p THEN Reopened(path[p]) ELSE path[m]

PathStep == path' = path \/ Begins \/ Appends \/ Edits \/ Empties \/ Removes

\* It does nothing else.
LEMMA NextPath ==
    ASSUME FreshForms, Inv, Alone, \A t \in Tab : Serial(t), Chain, [Next]_vars
    PROVE  PathStep
<1>0. TypeOK /\ (\A t \in Tab : Shape(t) /\ Agrees(t)) /\ IdsAhead
  BY DEF Inv
<1>1. ASSUME NEW t \in Tab, SaveFirst(t) PROVE PathStep
  <2>1. /\ nextId \in Ids /\ Commit(t, [s \in {nextId} |-> tab[t].form], Idle)
        /\ tab[t].pc = "saving" /\ Stored(tab[t].view) = {}
    BY <1>1 DEF SaveFirst
  <2>2. Stored(path) = {} /\ tab[t].form \in Segment /\ tab[t].form.editable
    BY <1>0, <2>1 DEF Serial, Shape
  <2>3. \A s \in Ids : path'[s] = IF s = nextId THEN tab[t].form ELSE path[s]
    BY <2>1 DEF Commit, Written
  <2>. QED BY <2>1, <2>2, <2>3 DEF PathStep, Begins
<1>2. ASSUME NEW t \in Tab, NEW s \in Ids, SaveNext(t, s) PROVE PathStep
  <2>. DEFINE rows == [m \in {nextId, s} |-> IF m = s THEN Closed(tab[t].view[s])
                                             ELSE tab[t].form]
  <2>1. /\ nextId \in Ids /\ Commit(t, rows, Idle)
        /\ tab[t].pc = "saving" /\ s \in Ends(t)
    BY <1>2 DEF SaveNext
  <2>2. tab[t].view = path /\ tab[t].form \in Segment /\ tab[t].form.editable
    BY <1>0, <2>1 DEF Serial, Shape
  <2>3. s \in Open(path) /\ path[s].dest = tab[t].form.origin
    BY <2>1, <2>2 DEF Ends, Open, Stored
  <2>4. \A m \in Stored(path) : m < nextId
    BY <1>0, <2>1, StoredIds DEF IdsAhead, Ids
  <2>5. s # nextId
    BY <2>3, <2>4, StoredIds DEF Open
  <2>6. \A m \in Ids : path'[m] = IF m = nextId THEN tab[t].form
                                  ELSE IF m = s THEN Closed(path[s]) ELSE path[m]
    BY <2>1, <2>2, <2>5 DEF Commit, Written
  <2>7. tab[t].form.origin = path[s].dest
    BY <2>3
  <2>. HIDE DEF rows
  <2>. QED BY <2>1, <2>2, <2>3, <2>4, <2>6, <2>7 DEF PathStep, Appends
\* The row of a fresh form is the last of the path.
<1>3. ASSUME NEW t \in Tab, NEW d \in Point, NEW next, Reconstructs(t),
             Commit(t, [s \in {tab[t].id} |-> Edited(s, d)], next)
      PROVE  PathStep
  <2>. DEFINE me == tab[t].id
  <2>1. me \in Ids /\ path[me] = tab[t].form /\ tab[t].form \in Segment /\ tab[t].form.editable
    BY <1>0, <1>3 DEF Reconstructs, Shape
  <2>2. me \in Open(path)
    BY <2>1, NoSegmentAssumption DEF Open, Stored
  <2>3. \A m \in Ids : path'[m] = IF m = me THEN Edited(me, d) ELSE path[m]
    BY <1>3 DEF Commit, Written
  <2>. HIDE DEF me
  <2>. QED BY <2>2, <2>3 DEF PathStep, Edits
<1>4. ASSUME NEW t \in Tab, NEW d \in Point, SendEdit(t, d) PROVE PathStep
  BY <1>3, <1>4 DEF SendEdit
<1>5. ASSUME NEW t \in Tab, NEW d \in Point, NEW carriesParade \in BOOLEAN,
             SendDelete(t, d, carriesParade)
      PROVE  PathStep
  <2>. DEFINE me == tab[t].id
              begun == [pc |-> "deleting1", id |-> me, form |-> Edited(me, d),
                        view |-> [NoRows EXCEPT ![me] = Edited(me, d)],
                        missed |-> Ids \ {me}]
              next == IF carriesParade THEN begun ELSE Idle
  <2>1. Reconstructs(t) /\ Commit(t, [s \in {me} |-> Edited(s, d)], next)
    BY <1>5 DEF SendDelete
  <2>. HIDE DEF next
  <2>. QED BY <1>3, <2>1
\* A deletion is of the last segment.
<1>6. ASSUME NEW t \in Tab, tab[t].pc = "deleting2"
      PROVE  tab[t].id \in Open(path) /\ tab[t].view = path /\ path[tab[t].id] = tab[t].form
  BY <1>0, <1>6, NoSegmentAssumption DEF Shape, Serial, Open, Stored
<1>7. ASSUME NEW t \in Tab, DeleteOnly(t) PROVE PathStep
  <2>1. /\ tab[t].pc = "deleting2" /\ Commit(t, [s \in {tab[t].id} |-> NoSegment], Idle)
        /\ \E s \in Ids : Stored(tab[t].view) = {s}
    BY <1>7 DEF DeleteOnly
  <2>2. Stored(path) = {tab[t].id}
    BY <1>6, <2>1 DEF Commit, Open
  <2>3. Stored(path') = {}
    BY <2>1, <2>2 DEF Commit, Written, Stored
  <2>. QED BY <1>6, <2>1, <2>2, <2>3 DEF PathStep, Empties
<1>8. ASSUME NEW t \in Tab, NEW s \in Ids, DeleteLast(t, s) PROVE PathStep
  <2>. DEFINE me == tab[t].id
              dirty == {me} \cup {p \in {s} : ~tab[t].view[p].editable}
              rows == [p \in dirty |-> IF p = me THEN NoSegment
                                       ELSE Reopened(tab[t].view[p])]
  <2>1. /\ tab[t].pc = "deleting2" /\ Commit(t, rows, Idle) /\ Before(t) = {s}
        /\ ~\E p \in Ids : Stored(tab[t].view) = {p}
    BY <1>8 DEF DeleteLast
  <2>2. me \in Open(path) /\ tab[t].view = path /\ path[me] = tab[t].form
    BY <1>6, <2>1
  <2>3. Stored(path) # {me} /\ me \in Ids
    BY <2>1, <2>2 DEF Open, Stored
  <2>4. PICK p \in Stored(path) :
              /\ p < me /\ ~path[p].editable /\ path[p].dest = path[me].origin
              /\ \A m \in Stored(path) \ {me} : m <= p
    BY <2>2, <2>3, LastContinues
  <2>5. p = s
    BY <2>1, <2>2, <2>4 DEF Before
  <2>6. dirty = {me, s} /\ me # s
    BY <2>2, <2>3, <2>4, <2>5, StoredIds DEF Ids
  <2>7. /\ DOMAIN rows = dirty /\ rows[me] = NoSegment
        /\ s \in dirty /\ s # me => rows[s] = Reopened(path[s])
    BY <2>2
  <2>. HIDE DEF me, dirty, rows
  <2>8. \A m \in Ids : path'[m] = IF m = me THEN NoSegment
                                  ELSE IF m = s THEN Reopened(path[s]) ELSE path[m]
    BY <2>1, <2>6, <2>7 DEF Commit, Written
  <2>. QED BY <2>2, <2>4, <2>5, <2>8 DEF PathStep, Removes
<1>9. ASSUME NEW t \in Tab, DeleteNothing(t) PROVE PathStep
  <2>1. Commit(t, Unwritten, Idle) /\ DOMAIN Unwritten = {}
    BY <1>9 DEF DeleteNothing, Unwritten
  <2>2. path' = path
    BY <1>0, <2>1 DEF Commit, Written, TypeOK, Rows
  <2>. QED BY <2>2 DEF PathStep
\* The other steps leave the path alone.
<1>10. ASSUME NEW t \in Tab, OpenCreate(t) \/ Leave(t) \/ ReadForDelete(t) \/ Rollback(t)
       PROVE  PathStep
  BY <1>10 DEF PathStep, OpenCreate, Leave, ReadForDelete, Rollback
<1>11. ASSUME NEW t \in Tab, NEW s \in Ids, OpenEdit(t, s) PROVE PathStep
  BY <1>11 DEF PathStep, OpenEdit
<1>12. ASSUME NEW t \in Tab, NEW o \in Point, NEW d \in Point, NEW timely \in Timely,
              SendNew(t, o, d, timely)
       PROVE  PathStep
  BY <1>12 DEF PathStep, SendNew
<1>13. CASE UNCHANGED vars
  BY <1>13 DEF PathStep, vars
<1>. QED
  BY <1>1, <1>2, <1>4, <1>5, <1>7, <1>8, <1>9, <1>10, <1>11, <1>12, <1>13 DEF Next

\* A stored row is a segment.
LEMMA StoredRow ==
    ASSUME TypeOK, NEW s \in Stored(path)
    PROVE  path[s] \in Segment
BY DEF Stored, TypeOK, Rows

\* Closing a segment changes nothing that the path shows of it.
LEMMA ClosedRow ==
    ASSUME NEW row \in Segment
    PROVE  /\ Closed(row) \in Segment /\ ~Closed(row).editable
           /\ Closed(row).origin = row.origin /\ Closed(row).dest = row.dest
           /\ Leg(Closed(row)) = Leg(row)
BY DEF Closed, Segment, Leg

\* Neither does reopening it.
LEMMA ReopenedRow ==
    ASSUME NEW row \in Segment
    PROVE  /\ Reopened(row) \in Segment /\ Reopened(row).editable
           /\ Reopened(row).origin = row.origin
           /\ Leg(Reopened(row)) = Leg(row)
BY DEF Reopened, Segment, Leg

\* An edition changes the destination and the times of a leg.
LEMMA EditedRow ==
    ASSUME NEW s, path[s] \in Segment, NEW d \in Point
    PROVE  /\ Edited(s, d) \in Segment
           /\ Edited(s, d).editable = path[s].editable
           /\ Edited(s, d).origin = path[s].origin
           /\ Leg(Edited(s, d)) = [origin |-> path[s].origin, dest |-> d, timely |-> TRUE]
<1>1. /\ Edited(s, d) \in Segment
      /\ Edited(s, d).editable = path[s].editable
      /\ Edited(s, d).origin = path[s].origin
      /\ Edited(s, d).dest = d /\ Edited(s, d).timely = TRUE
  BY DEF Edited, Segment
<1>. QED BY <1>1 DEF Leg

\* Every such step keeps the chain.
LEMMA NextChain ==
    ASSUME TypeOK, Chain, PathStep
    PROVE  Chain'
<1>0. Open(path) \subseteq Stored(path) /\ \A s \in Open(path) : path[s].editable
  BY DEF Open
<1>1. CASE path' = path
  BY <1>1 DEF Chain, Linked, Preceded
<1>2. CASE Begins
  BY <1>2, ChainFirst DEF Begins
<1>3. CASE Appends
  <2>1. PICK s \in Open(path), n \in Ids, row \in Segment :
          /\ \A m \in Stored(path) : m < n
          /\ row.editable /\ row.origin = path[s].dest
          /\ \A m \in Ids : path'[m] = IF m = n THEN row
                                       ELSE IF m = s THEN Closed(path[s]) ELSE path[m]
    BY <1>3 DEF Appends
  <2>2. path[s] \in Segment
    BY <1>0, StoredRow
  <2>3. /\ Closed(path[s]) \in Segment /\ ~Closed(path[s]).editable
        /\ Closed(path[s]).origin = path[s].origin /\ Closed(path[s]).dest = path[s].dest
    BY <2>2, ClosedRow
  <2>. QED BY <2>1, <2>3, ChainAppend
<1>4. CASE Edits
  <2>1. PICK s \in Open(path), d \in Point :
          \A m \in Ids : path'[m] = IF m = s THEN Edited(s, d) ELSE path[m]
    BY <1>4 DEF Edits
  <2>2. path[s] \in Segment /\ path[s].editable
    BY <1>0, StoredRow
  <2>3. /\ Edited(s, d) \in Segment /\ Edited(s, d).editable
        /\ Edited(s, d).origin = path[s].origin
    BY <2>2, EditedRow
  <2>. QED BY <2>1, <2>3, ChainEdit
<1>5. CASE Empties
  BY <1>5 DEF Empties, Chain, Linked, Preceded
<1>6. CASE Removes
  <2>1. PICK s \in Open(path), p \in Stored(path) :
          /\ p < s
          /\ \A m \in Stored(path) \ {s} : m <= p
          /\ \A m \in Ids : path'[m] = IF m = s THEN NoSegment
                                       ELSE IF m = p THEN Reopened(path[p]) ELSE path[m]
    BY <1>6 DEF Removes
  <2>2. /\ Reopened(path[p]) \in Segment /\ Reopened(path[p]).editable
        /\ Reopened(path[p]).origin = path[p].origin
    BY StoredRow, ReopenedRow
  <2>. QED BY <2>1, <2>2, ChainRemove
<1>. QED BY <1>1, <1>2, <1>3, <1>4, <1>5, <1>6 DEF PathStep

\* Served one at a time, from fresh forms, saves and deletions keep the segments of a path
\* one chain in the order they were saved, open at its last segment only.
THEOREM OneChain == ASSUME ~Overlap, FreshForms PROVE Spec => []Chained
<1>1. Init => Alone /\ Chain /\ \A t \in Tab : Serial(t)
  BY DEF Init, Alone, Chain, Linked, Preceded, Serial, Stored, NoRows, Idle, InTransaction
<1>2. Inv /\ Alone /\ Chain /\ (\A t \in Tab : Serial(t)) /\ [Next]_vars =>
          Alone' /\ Chain' /\ \A t \in Tab : Serial(t)'
  BY NextAlone, NextSerial, NextPath, NextChain DEF Inv
<1>3. Chain => Chained
  BY LinkedIsChained DEF Chain
<1>. DEFINE Sound == Alone /\ Chain /\ \A t \in Tab : Serial(t)
<1>4. Init => Sound
  BY <1>1
<1>5. Inv /\ Sound /\ [Next]_vars => Sound'
  BY <1>2
<1>6. Sound => Chained
  BY <1>3
<1>. HIDE DEF Sound
<1>. QED BY <1>4, <1>5, <1>6, SessionsAgree, PTL DEF Spec

-----------------------------------------------------------------------------
(* The requests implement PathStack. *)

\* In a chain the open segment is the last one, if there is any.
LEMMA OpenIsLast ==
    Chain => Open(path) = {s \in Stored(path) : \A m \in Stored(path) : m <= s}
BY DEF Chain, Linked, Open

\* Where the path can be changed is one place.
LEMMA OneEnd ==
    ASSUME Chain, NEW s \in Open(path)
    PROVE  Open(path) = {s} /\ s \in Stored(path) /\ \A m \in Stored(path) : m <= s
<1>1. Open(path) = {p \in Stored(path) : \A m \in Stored(path) : m <= p}
  BY OpenIsLast
<1>. QED BY <1>1, StoredIds

\* A segment as the path shows it is a leg.
LEMMA RowLeg ==
    ASSUME NEW row \in Segment
    PROVE  Leg(row) \in P!Leg /\ Leg(row).origin = row.origin /\ Leg(row).dest = row.dest
BY DEF Leg, Segment, P!Leg

\* Each step on a path is one of the stack of its legs.
LEMMA PathStacks ==
    ASSUME TypeOK, Chain, PathStep
    PROVE  [P!Next]_(P!vars)
<1>. DEFINE legs == [s \in Stored(path) |-> Leg(path[s])]
            later == [s \in Stored(path') |-> Leg(path'[s])]
<1>0. /\ legs' = later /\ Open(path)' = Open(path')
      /\ DOMAIN legs = Stored(path) /\ DOMAIN later = Stored(path')
      /\ \A m \in Stored(path) : m \in Ids /\ m \in Int /\ path[m] # NoSegment
  BY StoredIds DEF Stored, Open, Leg
<1>1. Open(path') = {s \in Stored(path') : \A m \in Stored(path') : m <= s}
  <2>1. Chain'
    BY NextChain
  <2>2. (Chain => Open(path) = {s \in Stored(path) : \A m \in Stored(path) : m <= s})'
    BY OpenIsLast, PTL
  <2>. QED BY <2>1, <2>2 DEF Stored, Open
<1>2. CASE path' = path
  BY <1>0, <1>2 DEF P!vars
<1>3. CASE Begins
  <2>1. PICK n \in Ids, row \in Segment :
          /\ Stored(path) = {} /\ row.editable
          /\ \A m \in Ids : path'[m] = IF m = n THEN row ELSE path[m]
    BY <1>3 DEF Begins
  <2>2. Stored(path') = {n} /\ path'[n] = row
    BY <2>1, NoSegmentAssumption DEF Stored
  <2>3. Open(path') = {n}
    BY <2>1, <2>2 DEF Open
  <2>4. later = [m \in DOMAIN legs \cup {n} |-> IF m = n THEN Leg(row) ELSE legs[m]]
    BY <1>0, <2>1, <2>2
  <2>5. P!Begin(n, Leg(row))
    BY <1>0, <2>1, <2>3, <2>4 DEF P!Begin, P!Put
  <2>. QED BY <2>5, RowLeg DEF P!Next
<1>4. CASE Appends
  <2>1. PICK s \in Open(path), n \in Ids, row \in Segment :
          /\ \A m \in Stored(path) : m < n
          /\ row.editable /\ row.origin = path[s].dest
          /\ \A m \in Ids : path'[m] = IF m = n THEN row
                                       ELSE IF m = s THEN Closed(path[s]) ELSE path[m]
    BY <1>4 DEF Appends
  <2>2. Open(path) = {s} /\ s \in Stored(path) /\ s \in Ids /\ path[s] \in Segment
    BY <1>0, OneEnd, StoredRow
  <2>9. Closed(path[s]) \in Segment /\ Leg(Closed(path[s])) = Leg(path[s])
    BY <2>2, ClosedRow
  <2>3. Stored(path') = Stored(path) \cup {n} /\ n \in Int /\ n \notin Stored(path)
    BY <1>0, <2>1, <2>2, <2>9, NoSegmentAssumption DEF Stored, Ids
  <2>4. Open(path') = {n}
    BY <1>0, <1>1, <2>1, <2>3
  <2>5. \A m \in Stored(path) : Leg(path'[m]) = Leg(path[m])
    BY <1>0, <2>1, <2>3, <2>9
  <2>6. later = [m \in DOMAIN legs \cup {n} |-> IF m = n THEN Leg(row) ELSE legs[m]]
    BY <1>0, <2>1, <2>3, <2>5
  <2>7. Leg(row).origin = legs[s].dest
    BY <2>1, <2>2, RowLeg
  <2>8. P!Extend(s, n, Leg(row))
    BY <1>0, <2>1, <2>2, <2>4, <2>6, <2>7 DEF P!Extend, P!Put
  <2>. QED BY <2>2, <2>8, RowLeg DEF P!Next
<1>5. CASE Edits
  <2>1. PICK s \in Open(path), d \in Point :
          \A m \in Ids : path'[m] = IF m = s THEN Edited(s, d) ELSE path[m]
    BY <1>5 DEF Edits
  <2>2. Open(path) = {s} /\ s \in Stored(path) /\ s \in Ids /\ path[s] \in Segment
    BY <1>0, OneEnd, StoredRow
  <2>8. /\ Edited(s, d) \in Segment
        /\ Leg(Edited(s, d)) = [origin |-> path[s].origin, dest |-> d, timely |-> TRUE]
    BY <2>2, EditedRow
  <2>3. Stored(path') = Stored(path)
    BY <2>1, <2>2, <2>8, NoSegmentAssumption DEF Stored
  <2>4. Open(path') = Open(path)
    BY <1>1, <2>3, OpenIsLast
  <2>5. \A m \in Stored(path) : Leg(path'[m]) = IF m = s THEN Leg(Edited(s, d)) ELSE Leg(path[m])
    BY <1>0, <2>1
  <2>6. later = [m \in DOMAIN legs \cup {s} |->
                   IF m = s THEN [origin |-> legs[s].origin, dest |-> d, timely |-> TRUE]
                   ELSE legs[m]]
    BY <1>0, <2>2, <2>3, <2>5, <2>8, RowLeg
  <2>7. P!Amend(s, d)
    BY <1>0, <2>2, <2>4, <2>6 DEF P!Amend, P!Put
  <2>. QED BY <2>2, <2>7 DEF P!Next
\* A removal leaves the others as they are.
<1>6. ASSUME NEW s \in Open(path), Stored(path') = Stored(path) \ {s},
             \A m \in Stored(path') : Leg(path'[m]) = Leg(path[m])
      PROVE  P!Next
  <2>1. Open(path) = {s} /\ s \in Stored(path) /\ s \in Ids
    BY <1>0, OneEnd
  <2>2. later = [m \in DOMAIN legs \ {s} |-> legs[m]]
    BY <1>0, <1>6
  <2>3. P!Remove(s)
    BY <1>0, <1>1, <2>1, <2>2 DEF P!Remove
  <2>. QED BY <2>1, <2>3 DEF P!Next
<1>7. CASE Empties
  BY <1>6, <1>7 DEF Empties
<1>8. CASE Removes
  <2>1. PICK s \in Open(path), p \in Stored(path) :
          \A m \in Ids : path'[m] = IF m = s THEN NoSegment
                                   ELSE IF m = p THEN Reopened(path[p]) ELSE path[m]
    BY <1>8 DEF Removes
  <2>2. /\ s \in Stored(path) /\ Reopened(path[p]) \in Segment
        /\ Leg(Reopened(path[p])) = Leg(path[p])
    BY OneEnd, StoredRow, ReopenedRow
  <2>3. Stored(path') = Stored(path) \ {s}
    BY <1>0, <2>1, <2>2, NoSegmentAssumption DEF Stored
  <2>4. \A m \in Stored(path') : Leg(path'[m]) = Leg(path[m])
    BY <1>0, <2>1, <2>2, <2>3
  <2>. QED BY <1>6, <2>3, <2>4
<1>. QED BY <1>2, <1>3, <1>4, <1>5, <1>7, <1>8 DEF PathStep

\* Served one at a time, from fresh forms, the requests implement PathStack: a path goes on
\* from its last segment, only that one is changed or removed, and then the one before
\* it is the last again.
THEOREM Implements == ASSUME ~Overlap, FreshForms PROVE Spec => IsStack
<1>. DEFINE Sound == Alone /\ Chain /\ \A t \in Tab : Serial(t)
<1>1. Init => Sound /\ P!Init
  BY DEF Init, Alone, Chain, Linked, Preceded, Serial, Stored, NoRows, Idle, InTransaction,
         P!Init, Open
<1>2. Inv /\ Sound /\ [Next]_vars => Sound' /\ [P!Next]_(P!vars)
  BY NextAlone, NextSerial, NextPath, NextChain, PathStacks DEF Inv
<1>. HIDE DEF Sound
<1>. QED BY <1>1, <1>2, SessionsAgree, PTL DEF Spec, IsStack, P!Spec

=============================================================================
