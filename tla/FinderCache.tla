---------------------------- MODULE FinderCache ----------------------------
(***************************************************************************)
(* The finder of one member: FinderService, FinderController, the settings *)
(* that govern it and the parades it finds. The results of a search are    *)
(* stored with the finder and dropped when the search page is opened after *)
(* the cache time has passed.                                              *)
(*                                                                         *)
(* The form carries the version of the row (search.jsp): save() merges it, *)
(* which fails if the finder was written since the page was shown.         *)
(***************************************************************************)
EXTENDS Naturals, FiniteSets

CONSTANTS
    Parade,
    Window,       \* browser windows of the member
    CacheTimes,   \* the values the administrator gives timeResultsCached
    ResultLimits, \* and maxResults
    MaxTime,      \* bound: the last moment, in hours
    NoMoment      \* the moment is null

Moments == 0..MaxTime

VARIABLES
    stage,     \* of each parade, what its row says
    settings,  \* the row of the system configuration
    finder,    \* the row of the finder
    now,       \* the clock
    tab        \* what each window shows or has asked for

vars == <<stage, settings, finder, now, tab>>

Finder == [results : SUBSET Parade, moment : Moments \cup {NoMoment}]

\* FinderService.create
Empty == [results |-> {}, moment |-> NoMoment]

InTransaction == {"open", "expire", "drop", "search"}

(* pc     the page the window shows, or the request it waits for           *)
(* row    the finder as the session read it or is about to write it        *)
(* stale  the finder was written since: its version is another             *)
TabState == [pc : {"idle", "page"} \cup InTransaction, row : Finder, stale : BOOLEAN]

Idle == [pc |-> "idle", row |-> Empty, stale |-> FALSE]

Init ==
    /\ stage = [p \in Parade |-> "draft"]
    /\ settings \in [cached : CacheTimes, max : ResultLimits]
    /\ finder = Empty
    /\ now = 0
    /\ tab = [w \in Window |-> Idle]

Show(w, next) == tab' = [tab EXCEPT ![w] = next]

Goes(w, pc) == Show(w, [tab[w] EXCEPT !.pc = pc])

\* A commit of the finder by window w.
Store(w, row, next) ==
    /\ finder' = row
    /\ tab' = [v \in Window |->
                 IF v = w THEN next
                 ELSE [tab[v] EXCEPT !.stale =
                         @ \/ (tab[v].pc # "idle" /\ row # finder)]]

\* Mutant: the entity has no @Version.
CommitsUnversioned(w, row, next) == Store(w, row, next)

Commits(w, row, next) == ~tab[w].stale /\ Store(w, row, next)

-----------------------------------------------------------------------------
(* GET finder/member/search.do                                             *)

Expired(row) == row.moment # NoMoment /\ row.moment + settings.cached < now

OpenSearch(w) ==
    /\ tab[w].pc = "idle"
    /\ Show(w, [pc |-> "open", row |-> finder, stale |-> FALSE])
    /\ UNCHANGED <<stage, settings, finder, now>>

CheckExpiry(w) ==
    /\ tab[w].pc = "open"
    /\ Goes(w, IF Expired(tab[w].row) THEN "expire" ELSE "page")
    /\ UNCHANGED <<stage, settings, finder, now>>

\* Mutant: before() the wrong way round.
ToDropYoung(row) == ~Expired(row)

ToDrop(row) == Expired(row)

\* deleteExpiredFinder() asks again, under the settings of its own transaction.
CheckAgain(w) ==
    /\ tab[w].pc = "expire"
    /\ Goes(w, IF ToDrop(tab[w].row) THEN "drop" ELSE "page")
    /\ UNCHANGED <<stage, settings, finder, now>>

Drop(w) ==
    /\ tab[w].pc = "drop"
    /\ Commits(w, Empty, [pc |-> "page", row |-> Empty, stale |-> FALSE])
    /\ UNCHANGED <<stage, settings, now>>

-----------------------------------------------------------------------------
(* POST finder/member/search.do                                            *)

\* isDraft = '0'
Final == {p \in Parade : stage[p] \in {"saving", "final"}}

\* The loop counts a parade before it compares: it takes one when none is allowed.
Taken(n) == IF n = 0 THEN 1 ELSE n

\* What a filter matches, cut at the limit. Without a filter all final parades match.
Found == {S \in SUBSET Final : Cardinality(S) <= Taken(settings.max)}

SendSearch(w) ==
    /\ tab[w].pc = "page"
    /\ ~tab[w].stale
    /\ \E S \in Found :
         Show(w, [pc |-> "search", row |-> [results |-> S, moment |-> now], stale |-> FALSE])
    /\ UNCHANGED <<stage, settings, finder, now>>

\* The foreign key of the results.
Refers(row) == \A p \in row.results : stage[p] # "deleted"

Search(w) ==
    /\ tab[w].pc = "search"
    /\ Refers(tab[w].row)
    /\ Commits(w, tab[w].row, Idle)
    /\ UNCHANGED <<stage, settings, now>>

\* delete() merges a form that has no moment.
Clear(w) ==
    /\ tab[w].pc = "page"
    /\ Commits(w, Empty, Idle)
    /\ UNCHANGED <<stage, settings, now>>

Leave(w) ==
    /\ tab[w].pc = "page"
    /\ Show(w, Idle)
    /\ UNCHANGED <<stage, settings, finder, now>>

\* What makes the last transaction of a request fail.
Rollback(w) ==
    /\ tab[w].pc \in {"drop", "search"}
    /\ tab[w].stale \/ ~Refers(tab[w].row)
    /\ Show(w, Idle)
    /\ UNCHANGED <<stage, settings, finder, now>>

-----------------------------------------------------------------------------
(* The others                                                              *)

\* reconstruct() of a form of the brotherhood makes a draft final for a moment, save()
\* makes it a draft again or leaves it, delete() deletes it unless a finder refers to it.
SaveParade(p) ==
    /\ \/ stage[p] = "draft" /\ stage' = [stage EXCEPT ![p] = "saving"]
       \/ stage[p] = "saving" /\ \E s \in {"draft", "final"} : stage' = [stage EXCEPT ![p] = s]
       \/ /\ stage[p] = "saving" /\ p \notin finder.results
          /\ stage' = [stage EXCEPT ![p] = "deleted"]
    /\ UNCHANGED <<settings, finder, now, tab>>

\* SystemConfigurationService.reconstruct
Configure(c, n) ==
    /\ settings' = [cached |-> c, max |-> n]
    /\ UNCHANGED <<stage, finder, now, tab>>

Tick ==
    /\ now < MaxTime
    /\ now' = now + 1
    /\ UNCHANGED <<stage, settings, finder, tab>>

Next ==
    \/ \E w \in Window :
        \/ OpenSearch(w) \/ CheckExpiry(w) \/ CheckAgain(w) \/ Drop(w)
        \/ SendSearch(w) \/ Search(w) \/ Clear(w)
        \/ Leave(w) \/ Rollback(w)
    \/ \E p \in Parade : SaveParade(p)
    \/ \E c \in CacheTimes, n \in ResultLimits : Configure(c, n)
    \/ Tick

Spec == Init /\ [][Next]_vars

\* The server goes on with a request it has begun.
Fairness ==
    \A w \in Window : WF_vars(CheckAgain(w)) /\ WF_vars(Drop(w)) /\ WF_vars(Rollback(w))

-----------------------------------------------------------------------------
(* Properties *)

\* The variables hold what the code can put there, and the results are parades that
\* are there.
TypeOK ==
    /\ stage \in [Parade -> {"draft", "saving", "final", "deleted"}]
    /\ settings \in [cached : CacheTimes, max : ResultLimits]
    /\ finder \in Finder
    /\ Refers(finder)
    /\ now \in Moments
    /\ tab \in [Window -> TabState]

Shortest == CHOOSE c \in CacheTimes : \A d \in CacheTimes : c <= d

\* Results are dropped before the shortest cache time is over only by a window that
\* shows these results and asks for it: not by a page that was opened on older
\* results while another window searched again, whatever the administrator sets.
YoungResultsStandStep ==
    finder.moment # NoMoment /\ finder'.moment = NoMoment =>
        \/ finder.moment + Shortest < now
        \/ \E w \in Window : tab[w].pc = "page" /\ tab[w].row = finder /\ tab'[w].pc = "idle"

YoungResultsStand == [][YoungResultsStandStep]_vars

\* Results a window found to be too old are dropped in the end, unless another window
\* replaces them first or the administrator makes the cache time longer.
ExpiredGo ==
    \A w \in Window, m \in Moments :
        tab[w].pc = "expire" /\ tab[w].row.moment = m
            ~> tab[w].stale \/ finder.moment # m \/ m + settings.cached >= now

=============================================================================
