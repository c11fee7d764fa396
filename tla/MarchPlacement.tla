-------------------------- MODULE MarchPlacement --------------------------
(***************************************************************************)
(* The marches of one final parade: MarchService, MarchController and the  *)
(* recommended place of ParadeService. Members ask to march, the           *)
(* brotherhood gives each a place (a row and a column) or rejects it.      *)
(*                                                                         *)
(* Requests are split where the code commits. reconstruct() stores a       *)
(* decision, whatever the march's status is by then; the member is told of *)
(* it by a later transaction of the same request.                          *)
(***************************************************************************)
EXTENDS Naturals

CONSTANTS
    Member,      \* members of the brotherhood, each with one window
    Window,      \* windows of the brotherhood
    MaxId,       \* bound: how many marches are ever requested
    MaxCols,     \* Parade.maxCols
    MaxRow,      \* bound: rows searched for a free place, 19999 in the code
    Cached,      \* the last number two Integers of which are one object: 127
    Advised,     \* TRUE: the brotherhood types the recommended place
    FreshForms,  \* TRUE: a form is sent only while its row is as it was shown
    Faults,      \* TRUE: a transaction may fail for no reason of its own
    NoMarch,     \* no such row
    NoPlace      \* row and column are null

ASSUME BoundsAssumption == MaxId \in Nat \ {0} /\ MaxCols \in Nat \ {0}
                             /\ MaxRow \in Nat \ {0} /\ Cached \in Nat
ASSUME ModeAssumption ==
    Advised \in BOOLEAN /\ FreshForms \in BOOLEAN /\ Faults \in BOOLEAN
ASSUME ActorsAssumption == Member \cap Window = {}

Ids == 1..MaxId
Places == (1..MaxRow) \X (1..MaxCols)

\* A row of the table: domain/March.java.
March == [member : Member,
          status : {"PENDING", "APPROVED", "REJECTED"},
          place : Places \cup {NoPlace}]

ASSUME NoRowsAssumption == NoMarch \notin March /\ NoPlace \notin Places

VARIABLES
    march,   \* the rows, by id
    nextId,  \* the id generator
    told,    \* by march, the status its member was last notified of
    tab      \* what each window shows or has asked for

vars == <<march, nextId, told, tab>>

Tab == Window \cup Member

InTransaction == {"notify", "delete"}

(* pc     where the window is, or the request it waits for                 *)
(* id     the march it is about                                            *)
(* row    that march as the page shows it, then as the session holds it    *)
(* advice the place the accept page recommends                             *)
(* stale  other requests wrote the row since: the session's @Version is old *)
TabState == [pc : {"idle", "requesting", "accepting", "rejecting"} \cup InTransaction,
             id : Ids \cup {0},
             row : March \cup {NoMarch},
             advice : Places \cup {NoPlace},
             stale : BOOLEAN]

Idle == [pc |-> "idle", id |-> 0, row |-> NoMarch, advice |-> NoPlace,
         stale |-> FALSE]

Init ==
    /\ march = [i \in Ids |-> NoMarch]
    /\ nextId = 1
    /\ told = [i \in Ids |-> "PENDING"]
    /\ tab = [w \in Tab |-> Idle]

Stored == {i \in Ids : march[i] # NoMarch}

\* A commit of march i; other sessions that hold the row hold an old one.
Store(w, i, row, next) ==
    /\ march' = [march EXCEPT ![i] = row]
    /\ tab' = [v \in Tab |->
                 IF v = w THEN next
                 ELSE [tab[v] EXCEPT !.stale =
                         @ \/ (tab[v].pc \in InTransaction /\ tab[v].id = i
                                 /\ row # march[i])]]

-----------------------------------------------------------------------------
(* ParadeService.checkPos and recommendedPos: the first place, row by row, *)
(* that no march of the parade holds.                                      *)

\* checkPos compares Integer objects with ==: true of equal numbers only while
\* both come from the cache of boxed values.
SameInteger(a, b) == a = b /\ a <= Cached

\* Mutant: checkPos says yes.
IsFreeAlways(place) == TRUE

IsFree(place) ==
    \A i \in Stored :
        march[i].place # NoPlace =>
            ~ (/\ SameInteger(place[1], march[i].place[1])
               /\ SameInteger(place[2], march[i].place[2]))

RowMajor(p, q) == p[1] < q[1] \/ (p[1] = q[1] /\ p[2] <= q[2])

IsRecommended(place) ==
    /\ IsFree(place)
    /\ \A p \in Places : IsFree(p) => RowMajor(place, p)

-----------------------------------------------------------------------------
(* A member asks to march: GET march/create.do offers the final parades    *)
(* the member has no march in, POST march/edit.do inserts the march.       *)

\* Mutant: the page offers every parade.
AppliedNever(m) == FALSE

\* findParadesAlreadyApplied
Applied(m) == \E i \in Stored : march[i].member = m

OpenRequest(m) ==
    /\ tab[m].pc = "idle"
    /\ ~Applied(m)
    /\ tab' = [tab EXCEPT ![m].pc = "requesting"]
    /\ UNCHANGED <<march, nextId, told>>

\* Mutant: setStatus("PENDING") is dropped.
RequestedStatusless(m) == [member |-> m, status |-> NoMarch, place |-> NoPlace]

Requested(m) == [member |-> m, status |-> "PENDING", place |-> NoPlace]

SendRequest(m) ==
    /\ tab[m].pc = "requesting"
    /\ nextId \in Ids
    /\ Store(m, nextId, Requested(m), Idle)
    /\ nextId' = nextId + 1
    /\ UNCHANGED told

\* GET march/delete.do, a link of the list for a pending march only: one
\* transaction reads the march, the next deletes what was read.
AskDelete(m, i) ==
    /\ tab[m].pc = "idle"
    /\ i \in Stored
    /\ march[i].member = m
    /\ FreshForms => march[i].status = "PENDING"
    /\ tab' = [tab EXCEPT ![m] = [Idle EXCEPT !.pc = "delete", !.id = i,
                                              !.row = march[i]]]
    /\ UNCHANGED <<march, nextId, told>>

\* Mutant: the entity has no @Version.
UpToDateAlways(w) == TRUE

UpToDate(w) == ~tab[w].stale

FinishDelete(m) ==
    /\ tab[m].pc = "delete"
    /\ UpToDate(m)
    /\ Store(m, tab[m].id, NoMarch, Idle)
    /\ UNCHANGED <<nextId, told>>

-----------------------------------------------------------------------------
(* The brotherhood decides. GET march/accept.do and march/rejectv.do show  *)
(* their form for a pending march only (march/accept.jsp, reject.jsp).     *)

OpenAccept(b, i, place) ==
    /\ tab[b].pc = "idle"
    /\ i \in Stored
    /\ march[i].status = "PENDING"
    /\ IsRecommended(place)
    /\ tab' = [tab EXCEPT ![b] = [Idle EXCEPT !.pc = "accepting", !.id = i,
                                       !.row = march[i], !.advice = place]]
    /\ UNCHANGED <<march, nextId, told>>

OpenReject(b, i) ==
    /\ tab[b].pc = "idle"
    /\ i \in Stored
    /\ march[i].status = "PENDING"
    /\ tab' = [tab EXCEPT ![b] = [Idle EXCEPT !.pc = "rejecting", !.id = i,
                                              !.row = march[i]]]
    /\ UNCHANGED <<march, nextId, told>>

\* Mutant: the row and column are not stored.
DecidedPlaceless(row, status, place) == [row EXCEPT !.status = status]

Decided(row, status, place) == [row EXCEPT !.status = status, !.place = place]

\* Mutant: the member is not told.
AfterDecisionIdle(i, row) == Idle

AfterDecision(i, row) == [Idle EXCEPT !.pc = "notify", !.id = i, !.row = row]

\* reconstruct(): the status, row and column of the request. The save() after it
\* has nothing to write.
Decides(b, status, place) ==
    LET i == tab[b].id
        row == Decided(march[i], status, place)
    IN  /\ i \in Stored
        /\ FreshForms => march[i] = tab[b].row
        /\ Store(b, i, row, AfterDecision(i, row))
        /\ UNCHANGED <<nextId, told>>

\* POST march/accept.do: any row and column, or none.
SendAccept(b, place) ==
    /\ tab[b].pc = "accepting"
    /\ Advised => place = tab[b].advice
    /\ Decides(b, "APPROVED", place)

\* POST march/rejectb.do: the form has no row and column.
SendReject(b) ==
    /\ tab[b].pc = "rejecting"
    /\ Decides(b, "REJECTED", NoPlace)

\* changeStatusNotfication(), with the status the session holds.
Notify(b) ==
    /\ tab[b].pc = "notify"
    /\ told' = [told EXCEPT ![tab[b].id] = tab[b].row.status]
    /\ tab' = [tab EXCEPT ![b] = Idle]
    /\ UNCHANGED <<march, nextId>>

-----------------------------------------------------------------------------

\* A page is left, or its request finds no march any more.
Leave(w) ==
    /\ tab[w].pc \in {"requesting", "accepting", "rejecting"}
    /\ tab' = [tab EXCEPT ![w] = Idle]
    /\ UNCHANGED <<march, nextId, told>>

\* A transaction after the first fails; what was committed stays.
Rollback(w) ==
    /\ tab[w].pc \in InTransaction
    /\ Faults \/ (tab[w].pc = "delete" /\ ~UpToDate(w))
    /\ tab' = [tab EXCEPT ![w] = Idle]
    /\ UNCHANGED <<march, nextId, told>>

Next ==
    \/ \E m \in Member :
        \/ OpenRequest(m) \/ SendRequest(m)
        \/ \E i \in Ids : AskDelete(m, i)
        \/ FinishDelete(m)
    \/ \E b \in Window :
        \/ \E i \in Ids : OpenReject(b, i) \/ \E p \in Places : OpenAccept(b, i, p)
        \/ \E p \in Places \cup {NoPlace} : SendAccept(b, p)
        \/ SendReject(b)
        \/ Notify(b)
    \/ \E w \in Tab : Leave(w) \/ Rollback(w)

Spec == Init /\ [][Next]_vars

\* The server goes on with a request it has begun.
Fairness == \A b \in Window : WF_vars(Notify(b))

FairSpec == Spec /\ Fairness

-----------------------------------------------------------------------------
(* Properties *)

\* The variables hold what the code can put there.
TypeOK ==
    /\ march \in [Ids -> March \cup {NoMarch}]
    /\ nextId \in 1..(MaxId + 1)
    /\ told \in [Ids -> {"PENDING", "APPROVED", "REJECTED"}]
    /\ tab \in [Tab -> TabState]

Approved == {i \in Stored : march[i].status = "APPROVED"}

\* Two members never march on one place: what the recommended position is for
\* (march/accept.jsp:39). It needs that nobody else accepts between the page and
\* its form.
DistinctPlaces ==
    \A i, j \in Approved :
        i # j => march[i].place # march[j].place \/ march[i].place = NoPlace

\* Every member who marches has a place, and nobody else holds one.
PlacedIffApproved ==
    \A i \in Stored : march[i].place # NoPlace <=> i \in Approved

\* A member marches in a parade once: the page of a new march does not offer the
\* parades of the marches there are.
MarchesOnce ==
    \A i, j \in Stored : march[i].member = march[j].member => i = j

\* A decision stands: the forms that take one are for pending marches
\* (march/accept.jsp:13, reject.jsp:13, and march/messages.properties:12 for the
\* others), and a member's deletion of a march loses against a decision taken
\* between its two transactions.
DecisionStandsStep ==
    \A i \in Stored : march[i].status # "PENDING" => march'[i] = march[i]

DecisionStands == [][DecisionStandsStep]_vars

\* The member of a decided march is in the end told of the decision that stands.
EventuallyTold ==
    \A i \in Ids :
        i \in Stored /\ march[i].status # "PENDING"
            ~> i \notin Stored \/ told[i] = march[i].status

=============================================================================
