----------------------- MODULE HistoryRecords_proofs -----------------------
(***************************************************************************)
(* Theorems about HistoryRecords, for any number of windows and records.   *)
(***************************************************************************)
EXTENDS HistoryRecords, TLAPS

\* What the constants are: a bound, some text, and a value that is no row and no id.
ConstantsFit ==
    /\ MaxId \in Nat
    /\ Text # {}
    /\ NoRecord \notin Ids \cup Record

\* No id is given twice.
IdsAhead == \A i \in Ids : i >= nextId => record[i] = NoRecord

\* What a request knows while nobody has written what it will write.
Knows(t) ==
    ~t.stale =>
        /\ t.pc \in {"add", "delete"} => t.list = list
        /\ t.pc = "add" /\ t.kind = "inception" => inception = NoRecord
        /\ t.pc \in {"edit", "delete"} =>
              t.id \in Stored /\ record[t.id].kind = t.kind

\* The inductive invariant.
Inv ==
    /\ TypeOK
    /\ OneInception
    /\ EachListedOnce
    /\ IdsAhead
    /\ \A w \in Window : Knows(tab[w])

\* The empty window is a window that knows nothing.
LEMMA IdleKnows ==
    ASSUME ConstantsFit
    PROVE  AnyText \in Text /\ Idle \in TabState /\ Knows(Idle) /\ Knows(Idle)'
<1>1. AnyText \in Text
  BY DEF ConstantsFit, AnyText
<1>2. Nothing \in [Ids -> 0..2]
  BY DEF Nothing
<1>. QED BY <1>1, <1>2 DEF Idle, TabState, Knows

\* A commit leaves windows that are windows, and those who wait for what it wrote stale.
LEMMA EndsShows ==
    ASSUME ConstantsFit, TypeOK, NEW w \in Window, NEW i, NEW h \in BOOLEAN,
           Ends(w, i, h)
    PROVE  /\ tab' \in [Window -> TabState]
           /\ tab'[w] = Idle
           /\ \A v \in Window \ {w} :
                /\ tab'[v].pc = tab[v].pc
                /\ tab'[v].id = tab[v].id
                /\ tab'[v].kind = tab[v].kind
                /\ tab'[v].list = tab[v].list
                /\ ~tab'[v].stale => ~tab[v].stale /\ ~Writes(tab[v], i, h)
<1>1. \A v \in Window :
        [tab[v] EXCEPT !.stale = @ \/ Writes(tab[v], i, h)] \in TabState
  BY DEF TypeOK, TabState, Writes
<1>2. tab' \in [Window -> TabState] /\ tab'[w] = Idle
  BY <1>1, IdleKnows DEF Ends
<1>3. ASSUME NEW v \in Window \ {w}
      PROVE  /\ tab'[v].pc = tab[v].pc
             /\ tab'[v].id = tab[v].id
             /\ tab'[v].kind = tab[v].kind
             /\ tab'[v].list = tab[v].list
             /\ tab'[v].stale = (tab[v].stale \/ Writes(tab[v], i, h))
  BY DEF Ends, TypeOK, TabState
<1>. QED BY <1>2, <1>3

\* A window shows something else, and nothing is written.
LEMMA ShowStep ==
    ASSUME ConstantsFit, Inv, NEW w \in Window, NEW next \in TabState,
           Knows(next), Show(w, next), UNCHANGED <<record, inception, list, nextId>>
    PROVE  Inv'
<1>1. /\ tab' \in [Window -> TabState]
      /\ \A v \in Window : tab'[v] = IF v = w THEN next ELSE tab[v]
  BY DEF Inv, TypeOK, Show
<1>2. Stored' = Stored
  BY DEF Stored
<1>3. TypeOK' /\ OneInception' /\ EachListedOnce' /\ IdsAhead'
  BY <1>1, <1>2 DEF Inv, TypeOK, OneInception, EachListedOnce, IdsAhead
<1>4. \A v \in Window : Knows(tab'[v]) => Knows(tab[v])'
  BY <1>2 DEF Knows
<1>5. \A v \in Window : Knows(tab'[v])
  BY <1>1 DEF Inv
<1>. QED BY <1>3, <1>4, <1>5 DEF Inv

\* A request is taken: what it read is what is stored.
LEMMA AsksStep ==
    ASSUME ConstantsFit, Inv, NEW w \in Window, NEW pc \in {"add", "edit", "delete"},
           NEW i \in Ids \cup {0}, NEW k \in {"inception", "listed"}, NEW x \in Text,
           Asks(w, pc, i, k, x),
           pc = "add" /\ k = "inception" => inception = NoRecord,
           pc # "add" => i \in Stored /\ record[i].kind = k
    PROVE  Inv'
<1>. DEFINE next == [pc |-> pc, id |-> i, kind |-> k, text |-> x,
                     list |-> list, stale |-> FALSE]
<1>1. list \in [Ids -> 0..2]
  BY DEF Inv, TypeOK
<1>2. next \in TabState /\ Knows(next)
  BY <1>1 DEF TabState, Knows
<1>. QED BY <1>2, ShowStep DEF Asks

\* A stored record has a kind and a text, and is not NoRecord.
LEMMA StoredAreRecords ==
    ASSUME ConstantsFit, TypeOK
    PROVE  /\ \A i \in Stored : i \in Ids /\ record[i] \in Record
           /\ \A r \in Record : r # NoRecord
BY DEF ConstantsFit, TypeOK, Stored

\* Those who are not stale after a commit know what they knew: it wrote no other
\* record than theirs, and not the history if they will.
LEMMA AllKnow ==
    ASSUME ConstantsFit, Inv, NEW w \in Window, NEW i, NEW h \in BOOLEAN, Ends(w, i, h),
           \A j \in Stored \ {i} : j \in Stored' /\ record'[j] = record[j],
           h \/ UNCHANGED <<inception, list>>
    PROVE  \A v \in Window : Knows(tab[v])'
<1>. SUFFICES ASSUME NEW v \in Window PROVE Knows(tab[v])'
  OBVIOUS
<1>. TypeOK /\ Knows(tab[v])
  BY DEF Inv
<1>1. CASE v = w
  <2>1. tab'[v] = Idle
    BY <1>1, EndsShows
  <2>. QED BY <2>1 DEF Idle, Knows
<1>2. CASE v # w
  <2>1. /\ tab'[v].pc = tab[v].pc
        /\ tab'[v].id = tab[v].id
        /\ tab'[v].kind = tab[v].kind
        /\ tab'[v].list = tab[v].list
        /\ ~tab'[v].stale => ~tab[v].stale /\ ~Writes(tab[v], i, h)
    BY <1>2, EndsShows
  <2>. QED BY <2>1 DEF Knows, Writes
<1>. QED BY <1>1, <1>2

\* Every step keeps the invariant.
LEMMA StepKeeps ==
    ASSUME ConstantsFit, Inv, [Next]_vars
    PROVE  Inv'
<1>. USE DEF Inv
<1>1. ASSUME NEW w \in Window, NEW k \in {"inception", "listed"}, NEW x \in Text,
             AskAdd(w, k, x)
      PROVE  Inv'
  BY <1>1, AsksStep DEF AskAdd, MayAdd
<1>2. ASSUME NEW w \in Window, NEW i \in Ids, NEW x \in Text, AskEdit(w, i, x)
      PROVE  Inv'
  <2>1. record[i].kind \in {"inception", "listed"} /\ i \in Stored
    BY <1>2, StoredAreRecords DEF AskEdit, Record
  <2>. QED BY <1>2, <2>1, AsksStep DEF AskEdit
<1>3. ASSUME NEW w \in Window, NEW i \in Ids, AskDelete(w, i)
      PROVE  Inv'
  <2>1. record[i].kind \in {"inception", "listed"} /\ i \in Stored
    BY <1>3, StoredAreRecords DEF AskDelete, Record
  <2>. QED BY <1>3, <2>1, AsksStep, IdleKnows DEF AskDelete
<1>4. ASSUME NEW w \in Window, Rollback(w)
      PROVE  Inv'
  BY <1>4, ShowStep, IdleKnows DEF Rollback
<1>5. ASSUME NEW w \in Window, Add(w)
      PROVE  Inv'
  <2>. DEFINE t == tab[w]
              r == [kind |-> t.kind, text |-> t.text]
  <2>1. /\ nextId \in Ids /\ ~t.stale /\ t.pc = "add"
        /\ record' = [record EXCEPT ![nextId] = r]
        /\ nextId' = nextId + 1
        /\ Ends(w, nextId, TRUE)
    BY <1>5 DEF Add
  <2>2. /\ t.list = list
        /\ t.kind = "inception" => inception = NoRecord
        /\ r \in Record /\ t.kind \in {"inception", "listed"}
    BY <2>1 DEF Knows, TypeOK, TabState, Record
  <2>3. \/ t.kind = "inception" /\ inception' = nextId /\ UNCHANGED list
        \/ t.kind = "listed" /\ list' = [list EXCEPT ![nextId] = @ + 1] /\ UNCHANGED inception
    BY <1>5, <2>2 DEF Add
  <2>4. record[nextId] = NoRecord /\ list[nextId] = 0 /\ nextId \notin Stored
    BY <2>1 DEF IdsAhead, EachListedOnce, Stored, Ids, ConstantsFit
  <2>5. /\ record' \in [Ids -> Record \cup {NoRecord}]
        /\ record'[nextId] = r
        /\ \A i \in Ids \ {nextId} : record'[i] = record[i]
    BY <2>1, <2>2 DEF TypeOK
  <2>6. Stored' = Stored \cup {nextId}
    BY <2>1, <2>2, <2>5, StoredAreRecords DEF Stored
  <2>7. /\ list' \in [Ids -> 0..1]
        /\ list'[nextId] = IF t.kind = "listed" THEN 1 ELSE 0
        /\ \A i \in Ids \ {nextId} : list'[i] = list[i]
    BY <2>1, <2>3, <2>4 DEF TypeOK
  <2>8. EachListedOnce'
    BY <2>1, <2>5, <2>6, <2>7 DEF EachListedOnce
  <2>9. OneInception'
    <3>1. CASE t.kind = "inception"
      BY <3>1, <2>1, <2>2, <2>3, <2>5, <2>6, StoredAreRecords
         DEF OneInception, ConstantsFit
    <3>2. CASE t.kind = "listed"
      <4>1. inception' = inception /\ record'[nextId].kind # "inception"
        BY <3>2, <2>3, <2>5
      <4>2. {i \in Stored' : record'[i].kind = "inception"}
              = {i \in Stored : record[i].kind = "inception"}
        BY <4>1, <2>4, <2>5, <2>6, StoredAreRecords
      <4>. QED BY <4>1, <4>2 DEF OneInception
    <3>. QED BY <2>2, <3>1, <3>2
  <2>10. IdsAhead'
    BY <2>1, <2>5 DEF IdsAhead, Ids, ConstantsFit
  <2>11. TypeOK'
    <3>1. inception' \in Ids \cup {NoRecord} /\ nextId' \in 1..(MaxId + 1)
      BY <2>1, <2>3 DEF TypeOK, Ids, ConstantsFit
    <3>2. tab' \in [Window -> TabState]
      BY <2>1, EndsShows
    <3>. QED BY <3>1, <3>2, <2>5, <2>7 DEF TypeOK
  <2>12. \A v \in Window : Knows(tab[v])'
    BY <2>1, <2>4, <2>5, <2>6, StoredAreRecords, AllKnow
  <2>. QED BY <2>8, <2>9, <2>10, <2>11, <2>12
<1>6. ASSUME NEW w \in Window, Edit(w)
      PROVE  Inv'
  <2>. DEFINE t == tab[w]
  <2>1. /\ ~t.stale /\ t.pc = "edit"
        /\ record' = [record EXCEPT ![t.id].text = t.text]
        /\ Ends(w, t.id, FALSE)
        /\ UNCHANGED <<inception, list, nextId>>
    BY <1>6 DEF Edit
  <2>2. t.id \in Stored /\ t.text \in Text
    BY <2>1 DEF Knows, TypeOK, TabState
  <2>3. /\ record' \in [Ids -> Record \cup {NoRecord}]
        /\ record'[t.id] \in Record
        /\ record'[t.id].kind = record[t.id].kind
        /\ \A i \in Ids \ {t.id} : record'[i] = record[i]
    BY <2>1, <2>2, StoredAreRecords DEF TypeOK, Record
  <2>4. Stored' = Stored
    BY <2>2, <2>3, StoredAreRecords DEF Stored
  <2>5. OneInception' /\ EachListedOnce'
    BY <2>1, <2>3, <2>4, StoredAreRecords DEF OneInception, EachListedOnce
  <2>6. IdsAhead'
    BY <2>1, <2>2, <2>3 DEF IdsAhead, Stored
  <2>7. TypeOK'
    BY <2>1, <2>3, EndsShows DEF TypeOK
  <2>8. \A v \in Window : Knows(tab[v])'
    BY <2>1, <2>3, <2>4, StoredAreRecords, AllKnow
  <2>. QED BY <2>5, <2>6, <2>7, <2>8
<1>7. ASSUME NEW w \in Window, Delete(w)
      PROVE  Inv'
  <2>. DEFINE t == tab[w]
  <2>1. /\ ~t.stale /\ t.pc = "delete"
        /\ record' = [record EXCEPT ![t.id] = NoRecord]
        /\ Ends(w, t.id, TRUE)
        /\ UNCHANGED nextId
    BY <1>7 DEF Delete
  <2>2. /\ t.id \in Stored /\ record[t.id].kind = t.kind /\ t.list = list
        /\ t.id \in Ids /\ t.kind \in {"inception", "listed"}
    BY <2>1, StoredAreRecords DEF Knows, TypeOK, TabState
  <2>3. \/ t.kind = "inception" /\ inception' = NoRecord /\ UNCHANGED list
        \/ t.kind = "listed" /\ list' = [list EXCEPT ![t.id] = @ - 1] /\ UNCHANGED inception
    BY <1>7, <2>2 DEF Delete, Delisted
  <2>4. /\ record' \in [Ids -> Record \cup {NoRecord}]
        /\ record'[t.id] = NoRecord
        /\ \A i \in Ids \ {t.id} : record'[i] = record[i]
    BY <2>1, <2>2 DEF TypeOK
  <2>5. Stored' = Stored \ {t.id}
    BY <2>2, <2>4 DEF Stored
  <2>6. list[t.id] = IF t.kind = "listed" THEN 1 ELSE 0
    BY <2>2 DEF EachListedOnce
  <2>7. /\ list' \in [Ids -> 0..1]
        /\ list'[t.id] = 0
        /\ \A i \in Ids \ {t.id} : list'[i] = list[i]
    BY <2>2, <2>3, <2>6 DEF TypeOK
  <2>8. EachListedOnce'
    BY <2>2, <2>4, <2>5, <2>7 DEF EachListedOnce
  <2>9. OneInception'
    <3>1. CASE t.kind = "inception"
      <4>1. {i \in Stored : record[i].kind = "inception"} = {t.id}
        BY <3>1, <2>2 DEF OneInception
      <4>. QED BY <4>1, <3>1, <2>2, <2>3, <2>4, <2>5, StoredAreRecords DEF OneInception
    <3>2. CASE t.kind = "listed"
      BY <3>2, <2>2, <2>3, <2>4, <2>5, StoredAreRecords DEF OneInception
    <3>. QED BY <2>2, <3>1, <3>2
  <2>10. IdsAhead'
    BY <2>1, <2>4 DEF IdsAhead
  <2>11. TypeOK'
    BY <2>1, <2>3, <2>4, <2>7, EndsShows DEF TypeOK
  <2>12. \A v \in Window : Knows(tab[v])'
    BY <2>1, <2>4, <2>5, StoredAreRecords, AllKnow
  <2>. QED BY <2>8, <2>9, <2>10, <2>11, <2>12
<1>8. ASSUME UNCHANGED vars
      PROVE  Inv'
  <2>1. Stored' = Stored /\ UNCHANGED <<record, inception, list, nextId, tab>>
    BY <1>8 DEF vars, Stored
  <2>2. TypeOK' /\ OneInception' /\ EachListedOnce' /\ IdsAhead'
    BY <2>1 DEF TypeOK, OneInception, EachListedOnce, IdsAhead
  <2>3. \A w \in Window : Knows(tab[w])'
    BY <2>1 DEF Knows
  <2>. QED BY <2>2, <2>3
<1>. QED
  BY <1>1, <1>2, <1>3, <1>4, <1>5, <1>6, <1>7, <1>8 DEF Next

-----------------------------------------------------------------------------

\* A request whose rows nobody wrote since it was taken still knows them, in every
\* reachable state.
THEOREM RequestsKnow ==
    ASSUME ConstantsFit
    PROVE  Spec => []Inv
<1>1. Init => Inv
  <2>. SUFFICES ASSUME Init PROVE Inv
    OBVIOUS
  <2>1. Stored = {} /\ list = Nothing /\ inception = NoRecord
    BY DEF Init, Stored
  <2>2. TypeOK
    BY <2>1, IdleKnows DEF Init, TypeOK, Nothing, ConstantsFit
  <2>3. OneInception /\ EachListedOnce /\ IdsAhead
    BY <2>1 DEF Init, OneInception, EachListedOnce, IdsAhead, Nothing
  <2>4. \A w \in Window : Knows(tab[w])
    BY IdleKnows DEF Init
  <2>. QED BY <2>2, <2>3, <2>4 DEF Inv
<1>2. Inv /\ [Next]_vars => Inv'
  BY StepKeeps
<1>. QED BY <1>1, <1>2, PTL DEF Spec

\* One inception record at most, the one the history names, for any windows.
THEOREM OneInceptionEver ==
    ASSUME ConstantsFit
    PROVE  Spec => []OneInception
<1>1. Inv => OneInception
  BY DEF Inv
<1>. QED BY <1>1, RequestsKnow, PTL

\* Every other record is listed once, and nothing that is not there.
THEOREM ListedOnceEver ==
    ASSUME ConstantsFit
    PROVE  Spec => []EachListedOnce
<1>1. Inv => EachListedOnce
  BY DEF Inv
<1>. QED BY <1>1, RequestsKnow, PTL
=============================================================================
