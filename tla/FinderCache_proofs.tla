-------------------------- MODULE FinderCache_proofs --------------------------
(***************************************************************************)
(* Theorems about FinderCache, for any parades, windows and settings.      *)
(***************************************************************************)
EXTENDS FinderCache, TLAPS

\* What the constants are: hours, a shortest cache time among those an administrator
\* may set, and a value that is no moment.
ConstantsFit ==
    /\ CacheTimes \subseteq Nat
    /\ \E c \in CacheTimes : \A d \in CacheTimes : c <= d
    /\ MaxTime \in Nat
    /\ NoMoment \notin Moments

\* What a window knows of the finder while nobody has written it, and of the row it is
\* about to write. A row to drop stays old, for the clock goes on.
Knows(t) ==
    /\ ~t.stale /\ t.pc \in {"open", "page", "expire", "drop"} => t.row = finder
    /\ t.pc = "search" => t.row.moment \in Moments
    /\ t.pc = "drop" => t.row.moment \in Moments /\ t.row.moment + Shortest < now

\* The inductive invariant.
Inv == TypeOK /\ \A w \in Window : Knows(tab[w])

\* The shortest cache time is one of the cache times, and none is shorter.
LEMMA ShortestIs ==
    ASSUME ConstantsFit
    PROVE  Shortest \in Nat /\ \A c \in CacheTimes : c \in Nat /\ Shortest <= c
BY DEF ConstantsFit, Shortest

\* A moment is a number of hours, and never null.
LEMMA MomentsAre ==
    ASSUME ConstantsFit
    PROVE  \A m \in Moments : m \in Nat /\ m # NoMoment
BY DEF ConstantsFit, Moments

\* A new finder has no results and no moment, and a window that shows nothing is fresh.
LEMMA EmptyIs ==
    /\ Empty \in Finder /\ Empty.moment = NoMoment /\ Empty.results = {}
    /\ Idle \in TabState /\ Idle.pc = "idle" /\ Idle.row = Empty /\ ~Idle.stale
BY DEF Empty, Finder, Idle, TabState

\* A row that is expired under any settings is older than the shortest cache time.
LEMMA ExpiredIsOld ==
    ASSUME ConstantsFit, TypeOK, NEW row \in Finder, Expired(row)
    PROVE  row.moment \in Moments /\ row.moment + Shortest < now
<1>1. row.moment \in Moments
  BY DEF Expired, Finder
<1>2. row.moment \in Nat /\ now \in Nat
  BY <1>1, MomentsAre DEF TypeOK
<1>3. settings.cached \in Nat /\ Shortest \in Nat /\ Shortest <= settings.cached
  BY ShortestIs DEF TypeOK
<1>4. row.moment + settings.cached < now
  BY DEF Expired
<1>. QED BY <1>1, <1>2, <1>3, <1>4

-----------------------------------------------------------------------------
(* Steps *)

\* A window goes on, and nothing is written.
LEMMA ShowStep ==
    ASSUME Inv, NEW w \in Window, NEW next \in TabState, Show(w, next), Knows(next),
           UNCHANGED <<stage, settings, finder, now>>
    PROVE  Inv'
<1>1. /\ tab' \in [Window -> TabState]
      /\ \A v \in Window : tab'[v] = IF v = w THEN next ELSE tab[v]
  BY DEF Inv, TypeOK, Show
<1>2. TypeOK'
  BY <1>1 DEF Inv, TypeOK, Refers
<1>3. ASSUME NEW v \in Window PROVE Knows(tab[v])'
  <2>1. Knows(tab'[v])
    BY <1>1 DEF Inv
  <2>. QED BY <2>1 DEF Knows
<1>. QED BY <1>2, <1>3 DEF Inv

\* A commit of the finder: what others read of another row is stale.
LEMMA CommitStep ==
    ASSUME Inv, NEW w \in Window, NEW row \in Finder, NEW next \in TabState,
           Commits(w, row, next), Refers(row), UNCHANGED <<stage, settings, now>>,
           next = Idle \/ (next.pc = "page" /\ next.row = row)
    PROVE  Inv'
<1>1. finder' = row
  BY DEF Commits, Store
<1>2. \A v \in Window :
        tab'[v] = IF v = w THEN next
                  ELSE [tab[v] EXCEPT !.stale =
                          tab[v].stale \/ (tab[v].pc # "idle" /\ row # finder)]
  BY DEF Commits, Store
<1>3. ASSUME NEW v \in Window, v # w
      PROVE  /\ tab'[v] \in TabState
             /\ tab'[v].pc = tab[v].pc /\ tab'[v].row = tab[v].row
             /\ ~tab'[v].stale => ~tab[v].stale /\ (tab[v].pc = "idle" \/ row = finder)
  <2>. DEFINE old == tab[v].stale \/ (tab[v].pc # "idle" /\ row # finder)
  <2>1. tab'[v] = [tab[v] EXCEPT !.stale = old]
    BY <1>2, <1>3
  <2>2. tab[v] \in TabState
    BY DEF Inv, TypeOK
  <2>3. ~old => ~tab[v].stale /\ (tab[v].pc = "idle" \/ row = finder)
    OBVIOUS
  <2>4. old \in BOOLEAN
    OBVIOUS
  <2>. HIDE DEF old
  <2>5. tab'[v].stale = old /\ tab'[v].pc = tab[v].pc /\ tab'[v].row = tab[v].row
    BY <2>1, <2>2 DEF TabState
  <2>6. tab'[v] \in TabState
    BY <2>1, <2>2, <2>4 DEF TabState
  <2>. QED BY <2>3, <2>5, <2>6
<1>8. tab' \in [Window -> TabState]
  <2>1. \A v \in Window : tab'[v] \in TabState
    BY <1>2, <1>3
  <2>. QED BY <2>1 DEF Commits, Store
<1>4. TypeOK'
  BY <1>1, <1>8 DEF Inv, TypeOK, Refers
<1>5. ASSUME NEW v \in Window PROVE Knows(tab[v])'
  <2>1. CASE v = w
    BY <2>1, <1>1, <1>2, EmptyIs DEF Knows
  <2>2. CASE v # w
    <3>1. /\ tab'[v].pc = tab[v].pc /\ tab'[v].row = tab[v].row
          /\ ~tab'[v].stale => ~tab[v].stale /\ (tab[v].pc = "idle" \/ row = finder)
      BY <2>2, <1>3
    <3>2. Knows(tab[v])
      BY DEF Inv
    <3>. QED BY <3>1, <3>2, <1>1 DEF Knows
  <2>. QED BY <2>1, <2>2
<1>. QED BY <1>4, <1>5 DEF Inv

\* The same page or another one of the same row.
LEMMA GoesStep ==
    ASSUME Inv, NEW w \in Window,
           NEW pc \in {"page", "expire", "drop"}, Goes(w, pc),
           tab[w].pc \in {"open", "expire"},
           pc = "drop" => tab[w].row.moment \in Moments /\ tab[w].row.moment + Shortest < now,
           UNCHANGED <<stage, settings, finder, now>>
    PROVE  Inv'
<1>. DEFINE next == [tab[w] EXCEPT !.pc = pc]
<1>1. tab[w] \in TabState /\ Knows(tab[w])
  BY DEF Inv, TypeOK
<1>2. /\ next \in TabState /\ next.pc = pc
      /\ next.row = tab[w].row /\ next.stale = tab[w].stale
  BY <1>1 DEF TabState, InTransaction
<1>3. Show(w, next)
  BY DEF Goes
<1>. HIDE DEF next
<1>4. Knows(next)
  BY <1>1, <1>2 DEF Knows
<1>. QED BY <1>2, <1>3, <1>4, ShowStep

\* A window that opens the search page reads the finder as it is stored.
LEMMA OpenSearchStep ==
    ASSUME Inv, NEW w \in Window, OpenSearch(w)
    PROVE  Inv'
<1>. DEFINE next == [pc |-> "open", row |-> finder, stale |-> FALSE]
<1>1. next \in TabState
  BY DEF TabState, InTransaction, Inv, TypeOK
<1>2. Knows(next)
  BY DEF Knows
<1>3. Show(w, next) /\ UNCHANGED <<stage, settings, finder, now>>
  BY DEF OpenSearch
<1>. HIDE DEF next
<1>. QED BY <1>1, <1>2, <1>3, ShowStep

\* A window that searches is about to write results of this moment.
LEMMA SendSearchStep ==
    ASSUME ConstantsFit, Inv, NEW w \in Window, SendSearch(w)
    PROVE  Inv'
<1>1. PICK S \in Found :
        Show(w, [pc |-> "search", row |-> [results |-> S, moment |-> now], stale |-> FALSE])
  BY DEF SendSearch
<1>. DEFINE next == [pc |-> "search", row |-> [results |-> S, moment |-> now], stale |-> FALSE]
<1>2. S \in SUBSET Parade /\ now \in Moments
  BY DEF Found, Final, Inv, TypeOK
<1>3. next \in TabState
  BY <1>2 DEF TabState, InTransaction, Finder
<1>4. Knows(next)
  BY <1>2 DEF Knows
<1>5. UNCHANGED <<stage, settings, finder, now>>
  BY DEF SendSearch
<1>. HIDE DEF next
<1>. QED BY <1>1, <1>3, <1>4, <1>5, ShowStep DEF next

\* Parades, settings and the clock leave finder and windows alone: results a finder
\* refers to are not deleted, and what is old grows older.
LEMMA OtherStep ==
    ASSUME ConstantsFit, Inv,
           \/ \E p \in Parade : SaveParade(p)
           \/ \E c \in CacheTimes, n \in ResultLimits : Configure(c, n)
           \/ Tick
    PROVE  Inv'
<1>1. UNCHANGED <<finder, tab>>
  BY DEF SaveParade, Configure, Tick
<1>2. now \in Nat /\ now' \in Moments /\ now' \in Nat /\ now <= now'
  <2>1. now \in Moments /\ (now' = now \/ (now < MaxTime /\ now' = now + 1))
    BY DEF SaveParade, Configure, Tick, Inv, TypeOK
  <2>. QED BY <2>1 DEF ConstantsFit, Moments
<1>3. settings' \in [cached : CacheTimes, max : ResultLimits]
  BY DEF SaveParade, Configure, Tick, Inv, TypeOK
<1>4. stage' \in [Parade -> {"draft", "saving", "final", "deleted"}]
  BY DEF SaveParade, Configure, Tick, Inv, TypeOK
<1>5. Refers(finder)'
  <2>1. finder.results \subseteq Parade /\ \A q \in finder.results : stage[q] # "deleted"
    BY DEF Inv, TypeOK, Refers, Finder
  <2>2. \A q \in finder.results : stage'[q] # "deleted"
    BY <2>1 DEF SaveParade, Configure, Tick, Inv, TypeOK
  <2>. QED BY <2>2, <1>1 DEF Refers
<1>6. TypeOK'
  BY <1>1, <1>2, <1>3, <1>4, <1>5 DEF Inv, TypeOK
<1>7. ASSUME NEW w \in Window PROVE Knows(tab[w])'
  <2>1. Knows(tab[w])
    BY DEF Inv
  <2>2. \A m \in Moments : m + Shortest < now => m + Shortest < now'
    BY <1>2, MomentsAre, ShortestIs
  <2>. QED BY <2>1, <2>2, <1>1 DEF Knows
<1>. QED BY <1>6, <1>7 DEF Inv

-----------------------------------------------------------------------------

\* The invariant holds of an empty finder and windows that show nothing.
LEMMA InitInv == ConstantsFit /\ Init => Inv
<1>. SUFFICES ASSUME ConstantsFit, Init PROVE Inv
  OBVIOUS
<1>1. now \in Moments
  BY DEF ConstantsFit, Init, Moments
<1>2. TypeOK
  BY <1>1, EmptyIs DEF Init, TypeOK, Refers
<1>3. \A w \in Window : Knows(tab[w])
  BY EmptyIs DEF Init, Knows
<1>. QED BY <1>2, <1>3 DEF Inv

\* Every step keeps the invariant.
LEMMA StepKeeps == ConstantsFit /\ Inv /\ [Next]_vars => Inv'
<1>. SUFFICES ASSUME ConstantsFit, Inv, [Next]_vars PROVE Inv'
  OBVIOUS
<1>1. CASE UNCHANGED vars
  BY <1>1 DEF vars, Inv, TypeOK, Refers, Knows
<1>2. ASSUME NEW w \in Window, OpenSearch(w) PROVE Inv'
  BY <1>2, OpenSearchStep
<1>3. ASSUME NEW w \in Window, CheckExpiry(w) PROVE Inv'
  <2>1. Goes(w, "expire") \/ Goes(w, "page")
    BY <1>3 DEF CheckExpiry
  <2>. QED BY <1>3, <2>1, GoesStep DEF CheckExpiry
<1>4. ASSUME NEW w \in Window, CheckAgain(w) PROVE Inv'
  <2>1. tab[w].pc = "expire" /\ UNCHANGED <<stage, settings, finder, now>>
    BY <1>4 DEF CheckAgain
  <2>2. CASE Expired(tab[w].row)
    <3>1. Goes(w, "drop")
      BY <1>4, <2>2 DEF CheckAgain, ToDrop
    <3>2. tab[w].row.moment \in Moments /\ tab[w].row.moment + Shortest < now
      BY <2>2, ExpiredIsOld DEF Inv, TypeOK, TabState
    <3>. QED BY <2>1, <3>1, <3>2, GoesStep
  <2>3. CASE ~Expired(tab[w].row)
    <3>1. Goes(w, "page")
      BY <1>4, <2>3 DEF CheckAgain, ToDrop
    <3>. QED BY <2>1, <3>1, GoesStep
  <2>. QED BY <2>2, <2>3
<1>5. ASSUME NEW w \in Window, Drop(w) PROVE Inv'
  <2>. DEFINE next == [pc |-> "page", row |-> Empty, stale |-> FALSE]
  <2>1. next \in TabState
    BY EmptyIs DEF TabState
  <2>2. Refers(Empty)
    BY EmptyIs DEF Refers
  <2>3. Commits(w, Empty, next) /\ UNCHANGED <<stage, settings, now>>
    BY <1>5 DEF Drop
  <2>4. next.pc = "page" /\ next.row = Empty
    OBVIOUS
  <2>. HIDE DEF next
  <2>. QED BY <2>1, <2>2, <2>3, <2>4, EmptyIs, CommitStep
<1>6. ASSUME NEW w \in Window, SendSearch(w) PROVE Inv'
  BY <1>6, SendSearchStep
<1>7. ASSUME NEW w \in Window, Search(w) PROVE Inv'
  <2>1. tab[w].row \in Finder
    BY DEF Inv, TypeOK, TabState
  <2>2. /\ Refers(tab[w].row) /\ Commits(w, tab[w].row, Idle)
        /\ UNCHANGED <<stage, settings, now>>
    BY <1>7 DEF Search
  <2>. QED BY <2>1, <2>2, EmptyIs, CommitStep
<1>8. ASSUME NEW w \in Window, Clear(w) PROVE Inv'
  <2>1. Refers(Empty)
    BY EmptyIs DEF Refers
  <2>2. Commits(w, Empty, Idle) /\ UNCHANGED <<stage, settings, now>>
    BY <1>8 DEF Clear
  <2>. QED BY <2>1, <2>2, EmptyIs, CommitStep
<1>9. ASSUME NEW w \in Window, Leave(w) \/ Rollback(w) PROVE Inv'
  <2>1. Show(w, Idle) /\ UNCHANGED <<stage, settings, finder, now>>
    BY <1>9 DEF Leave, Rollback
  <2>2. Knows(Idle)
    BY EmptyIs DEF Knows
  <2>. QED BY <2>1, <2>2, EmptyIs, ShowStep
<1>10. CASE \/ \E p \in Parade : SaveParade(p)
            \/ \E c \in CacheTimes, n \in ResultLimits : Configure(c, n)
            \/ Tick
  BY <1>10, OtherStep
<1>. QED
  BY <1>1, <1>2, <1>3, <1>4, <1>5, <1>6, <1>7, <1>8, <1>9, <1>10 DEF Next

\* A page that is not stale shows the finder as it is, and a finder about to be dropped
\* is older than the shortest cache time.
THEOREM PagesKnow ==
    ASSUME ConstantsFit
    PROVE  Spec => []Inv
<1>1. Init => Inv
  BY InitInv
<1>2. Inv /\ [Next]_vars => Inv'
  BY StepKeeps
<1>. QED BY <1>1, <1>2, PTL DEF Spec

\* Whatever the administrator sets meanwhile, results younger than the shortest cache
\* time are dropped only at the request of a window that shows them.
THEOREM YoungStand ==
    ASSUME ConstantsFit
    PROVE  Spec => YoungResultsStand
<1>1. Inv /\ [Next]_vars => [YoungResultsStandStep]_vars
  <2>. SUFFICES ASSUME Inv, Next,
                       finder.moment # NoMoment, finder'.moment = NoMoment
                PROVE  \/ finder.moment + Shortest < now
                       \/ \E w \in Window :
                            tab[w].pc = "page" /\ tab[w].row = finder /\ tab'[w].pc = "idle"
    BY DEF YoungResultsStandStep
  <2>1. finder' # finder
    OBVIOUS
  <2>2. PICK w \in Window : Drop(w) \/ Search(w) \/ Clear(w)
    BY <2>1 DEF Next, OpenSearch, CheckExpiry, CheckAgain, SendSearch, Leave, Rollback,
                SaveParade, Configure, Tick
  <2>3. Knows(tab[w])
    BY DEF Inv
  <2>4. CASE Drop(w)
    BY <2>3, <2>4 DEF Drop, Commits, Knows
  <2>5. CASE Search(w)
    <3>1. finder' = tab[w].row /\ tab[w].pc = "search"
      BY <2>5 DEF Search, Commits, Store
    <3>. QED BY <2>3, <3>1, MomentsAre DEF Knows
  <2>6. CASE Clear(w)
    <3>1. tab[w].pc = "page" /\ ~tab[w].stale /\ tab'[w] = Idle
      BY <2>6 DEF Clear, Commits, Store
    <3>. QED BY <2>3, <3>1, EmptyIs DEF Knows
  <2>. QED BY <2>2, <2>4, <2>5, <2>6
<1>. QED BY <1>1, PagesKnow, PTL DEF Spec, YoungResultsStand
=============================================================================
