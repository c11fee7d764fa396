---------------------------- MODULE Enrolments ----------------------------
(***************************************************************************)
(* The members of one brotherhood: EnrolmentService, EnrollmentController  *)
(* and the list of brotherhoods a member asks from. A member asks, the     *)
(* brotherhood enrols him and gives him a position, either ends it. The    *)
(* administrator keeps the catalogue of positions (PositionController).    *)
(*                                                                         *)
(* Every request but the first is a link or a form that may be old: it     *)
(* acts on the enrolment it finds. The session reads the row in one        *)
(* transaction, the controller changes it, and save() commits the change.  *)
(***************************************************************************)
EXTENDS Naturals

CONSTANTS
    Member,      \* who may enrol
    Screen,      \* windows each member has
    Window,      \* windows of the brotherhood
    Position,    \* the rows the administrator's catalogue ever has
    MaxId,       \* bound: how many enrolments are ever asked for
    MaxExits,    \* bound: how often an enrolment is ended
    Faults,      \* TRUE: a transaction may fail for no reason of its own
    NoEnrolment, \* no such row
    NoPosition   \* the position is null

ASSUME BoundsAssumption == MaxId \in Nat \ {0} /\ MaxExits \in Nat
ASSUME FaultsAssumption == Faults \in BOOLEAN
ASSUME ActorsAssumption == (Member \X Screen) \cap Window = {}

Ids == 1..MaxId

(* A row of the table: domain/Enrolment.java.                              *)
(* isOut  "null" until somebody decides                                    *)
(* exits  the length of dropOutMoment                                      *)
Enrolment == [member : Member,
              isOut : {"null", "false", "true"},
              position : Position \cup {NoPosition},
              exits : 0..MaxExits]

ASSUME NoRowsAssumption == NoEnrolment \notin Enrolment /\ NoPosition \notin Position

VARIABLES
    enrolment,  \* the rows, by id
    nextId,     \* the id generator
    catalogue,  \* of each position: "none" before it is created, "deleted" after
    removing,   \* the position the administrator's request to delete is about
    told,       \* by enrolment, of how many exits the brotherhood was notified
    tab         \* what each window shows or has asked for

vars == <<enrolment, nextId, catalogue, removing, told, tab>>

positions == <<catalogue, removing>>

\* A window of a member is the pair of the two.
MemberTab == Member \X Screen

Tab == Window \cup MemberTab

InTransaction == {"accept", "reject", "notifyOut", "notifyIn"}

(* pc     where the window is, or the request it waits for                 *)
(* id     the enrolment it is about                                        *)
(* row    that enrolment as the session holds it                           *)
(* stale  other requests wrote the row since: the session's @Version is old *)
TabState == [pc : {"idle", "list", "position"} \cup InTransaction,
             id : Ids \cup {0},
             row : Enrolment \cup {NoEnrolment},
             stale : BOOLEAN]

Idle == [pc |-> "idle", id |-> 0, row |-> NoEnrolment, stale |-> FALSE]

Init ==
    /\ enrolment = [i \in Ids |-> NoEnrolment]
    /\ nextId = 1
    /\ catalogue = [p \in Position |-> "none"]
    /\ removing = NoPosition
    /\ told = [i \in Ids |-> 0]
    /\ tab = [w \in Tab |-> Idle]

Stored == {i \in Ids : enrolment[i] # NoEnrolment}
Listed == {p \in Position : catalogue[p] = "listed"}

About(pc, i, row) == [pc |-> pc, id |-> i, row |-> row, stale |-> FALSE]

Show(w, next) == tab' = [tab EXCEPT ![w] = next]

\* A commit of enrolment i. A row that is as it was is not dirty and not written.
Store(w, i, row, next) ==
    /\ enrolment' = [enrolment EXCEPT ![i] = row]
    /\ tab' = [v \in Tab |->
                 IF v = w THEN next
                 ELSE [tab[v] EXCEPT !.stale =
                         @ \/ (tab[v].pc \in InTransaction /\ tab[v].id = i
                                 /\ row # enrolment[i])]]

\* Mutant: the entity has no @Version.
SavesUnversioned(w, row, next) == Store(w, tab[w].id, row, next)

\* save() of what the controller made of the session's row.
Saves(w, row, next) ==
    IF row = tab[w].row
    THEN Show(w, next) /\ UNCHANGED enrolment
    ELSE ~tab[w].stale /\ Store(w, tab[w].id, row, next)

-----------------------------------------------------------------------------
(* A member asks: GET brotherhood/list.do links to the brotherhoods the    *)
(* member has no enrolment in, GET enrolment/member/request.do inserts it  *)
(* and asks nothing again: each of two lists that were opened before       *)
(* inserts one, and so does a list the browser goes back to.               *)

HasNone(m) == \A i \in Stored : enrolment[i].member # m

ListPage == [Idle EXCEPT !.pc = "list"]

OpenList(w) ==
    /\ tab[w].pc = "idle"
    /\ HasNone(w[1])
    /\ Show(w, ListPage)
    /\ UNCHANGED <<enrolment, nextId, told, positions>>

\* Mutant: create() makes no list of moments, it is null.
AskedWithoutList(m) ==
    [member |-> m, isOut |-> "null", position |-> NoPosition, exits |-> NoPosition]

Asked(m) ==
    [member |-> m, isOut |-> "null", position |-> NoPosition, exits |-> 0]

Request(w) ==
    /\ tab[w].pc = "list"
    /\ nextId \in Ids
    /\ \E page \in {Idle, ListPage} : Store(w, nextId, Asked(w[1]), page)
    /\ nextId' = nextId + 1
    /\ UNCHANGED <<told, positions>>

-----------------------------------------------------------------------------
(* GET enrolment/brotherhood/action.do: accept by the brotherhood, reject  *)
(* by it or by the member.                                                 *)

Reads(w, i, pc) ==
    /\ tab[w].pc = "idle"
    /\ i \in Stored
    /\ Show(w, About(pc, i, enrolment[i]))
    /\ UNCHANGED <<enrolment, nextId, told, positions>>

AskAccept(b, i) == Reads(b, i, "accept")

AskReject(w, i) ==
    /\ Reads(w, i, "reject")
    /\ w \in MemberTab => w[1] = enrolment[i].member
    /\ enrolment[i].isOut = "false" => enrolment[i].exits < MaxExits

\* The page to choose a position follows.
Accept(b) ==
    LET row == [tab[b].row EXCEPT !.isOut = "false"]
    IN  /\ tab[b].pc = "accept"
        /\ Saves(b, row, About("position", tab[b].id, row))
        /\ UNCHANGED <<nextId, told, positions>>

\* Mutant: the position stays.
OutKeepingPosition(row) ==
    [row EXCEPT !.isOut = "true",
                !.exits = IF row.isOut = "false" THEN @ + 1 ELSE @]

Out(row) ==
    [row EXCEPT !.isOut = "true", !.position = NoPosition,
                !.exits = IF row.isOut = "false" THEN @ + 1 ELSE @]

\* Mutant: nobody is notified.
AfterRejectIdle(w, row) == Idle

AfterReject(w, row) == About("notifyOut", tab[w].id, row)

\* Of an enrolment nobody decided on, isOut is unboxed from null: an exception.
Reject(w) ==
    LET row == Out(tab[w].row)
    IN  /\ tab[w].pc = "reject"
        /\ tab[w].row.isOut # "null"
        /\ Saves(w, row, AfterReject(w, row))
        /\ UNCHANGED <<nextId, told, positions>>

\* notificationOutMember(), a transaction of its own.
NotifyOut(w) ==
    /\ tab[w].pc = "notifyOut"
    /\ told' = [told EXCEPT ![tab[w].id] =
                  IF tab[w].row.exits > @ THEN tab[w].row.exits ELSE @]
    /\ Show(w, Idle)
    /\ UNCHANGED <<enrolment, nextId, positions>>

-----------------------------------------------------------------------------
(* POST enrolment/brotherhood/edit.do. reconstruct() finds the enrolment   *)
(* as it is now, gives it the position of the name in the form and lets    *)
(* the member in, whatever he was. No position has the name any more when  *)
(* the administrator changed it since the page was shown.                  *)

SetPosition(b, p) ==
    LET i == tab[b].id
        row == [enrolment[i] EXCEPT !.position = p, !.isOut = "false"]
    IN  /\ tab[b].pc = "position"
        /\ i \in Stored
        /\ p \in Listed \cup {NoPosition}
        /\ Store(b, i, row, About("notifyIn", i, row))
        /\ UNCHANGED <<nextId, told, positions>>

\* notificationMessageEnrolAMember()
NotifyIn(b) ==
    /\ tab[b].pc = "notifyIn"
    /\ Show(b, Idle)
    /\ UNCHANGED <<enrolment, nextId, told, positions>>

-----------------------------------------------------------------------------
(* The catalogue: POST position/administrator/edit.do. Renaming a position *)
(* changes no reference to it.                                             *)

CreatePosition(p) ==
    /\ catalogue[p] = "none"
    /\ catalogue' = [catalogue EXCEPT ![p] = "listed"]
    /\ UNCHANGED <<enrolment, nextId, removing, told, tab>>

isAssigned(p) == \E i \in Stored : enrolment[i].position = p

\* The check is a transaction before the deletion.
AskDeletePosition(p) ==
    /\ removing = NoPosition
    /\ p \in Listed
    /\ ~isAssigned(p)
    /\ removing' = p
    /\ UNCHANGED <<enrolment, nextId, catalogue, told, tab>>

\* Mutant: enrolments have no foreign key.
Unreferred(p) == TRUE

\* The foreign key of the enrolments lets the row go.
Free(p) == ~isAssigned(p)

DeletePosition ==
    /\ removing # NoPosition
    /\ \/ /\ Free(removing)
          /\ catalogue' = [catalogue EXCEPT ![removing] = "deleted"]
       \/ ~Free(removing) /\ UNCHANGED catalogue
    /\ removing' = NoPosition
    /\ UNCHANGED <<enrolment, nextId, told, tab>>

-----------------------------------------------------------------------------

Leave(w) ==
    /\ tab[w].pc \in {"list", "position"}
    /\ Show(w, Idle)
    /\ UNCHANGED <<enrolment, nextId, told, positions>>

\* A transaction after the first fails; what was committed stays.
Rollback(w) ==
    /\ tab[w].pc \in InTransaction
    /\ \/ Faults
       \/ tab[w].pc \in {"accept", "reject"} /\ tab[w].stale
       \/ tab[w].pc = "reject" /\ tab[w].row.isOut = "null"
    /\ Show(w, Idle)
    /\ UNCHANGED <<enrolment, nextId, told, positions>>

Next ==
    \/ \E w \in MemberTab : OpenList(w) \/ Request(w)
    \/ \E b \in Window :
        \/ \E i \in Ids : AskAccept(b, i)
        \/ Accept(b)
        \/ \E p \in Position \cup {NoPosition} : SetPosition(b, p)
        \/ NotifyIn(b)
    \/ \E w \in Tab :
        \/ \E i \in Ids : AskReject(w, i)
        \/ Reject(w)
        \/ NotifyOut(w)
        \/ Leave(w)
        \/ Rollback(w)
    \/ \E p \in Position : CreatePosition(p) \/ AskDeletePosition(p)
    \/ DeletePosition

Spec == Init /\ [][Next]_vars

\* The server goes on with a request it has begun.
FairSpec == Spec /\ \A w \in Tab : WF_vars(NotifyOut(w))

-----------------------------------------------------------------------------
(* Properties *)

\* The variables hold what the code can put there.
TypeOK ==
    /\ enrolment \in [Ids -> Enrolment \cup {NoEnrolment}]
    /\ nextId \in 1..(MaxId + 1)
    /\ catalogue \in [Position -> {"none", "listed", "deleted"}]
    /\ removing \in Position \cup {NoPosition}
    /\ told \in [Ids -> 0..MaxExits]
    /\ tab \in [Tab -> TabState]

\* Only members who are in hold a position, so that a position nobody holds can
\* be removed from the catalogue (EnrolmentService.isAssigned).
PositionOfTheEnrolled ==
    \A i \in Stored : enrolment[i].position # NoPosition => enrolment[i].isOut = "false"

\* A position that is held is in the catalogue, when the administrator removes it
\* while a brotherhood gives it to a member: between isAssigned() and delete(), or
\* between the page of the positions and its form.
HeldIsListed ==
    \A i \in Stored : enrolment[i].position \in Listed \cup {NoPosition}

\* dropOutMoment gets one moment each time the member goes from in to out and never
\* else, when member and brotherhood end the enrolment at once and when an old link
\* is followed.
ExitsAreCountedStep ==
    \A i \in Stored :
        /\ i \in {j \in Ids : enrolment'[j] # NoEnrolment}
        /\ enrolment'[i].exits =
             enrolment[i].exits
               + (IF enrolment[i].isOut = "false" /\ enrolment'[i].isOut = "true"
                  THEN 1 ELSE 0)

ExitsAreCounted == [][ExitsAreCountedStep]_vars

\* An exit stands against an acceptance that was asked for before it: who is out is let
\* in again only by a request that read the enrolment after this exit, or by the form of
\* a position, which asks nothing (EnrolmentService.reconstruct).
ExitStandsStep ==
    \A i \in Stored : enrolment[i].isOut = "true" /\ enrolment'[i].isOut = "false" =>
        \E b \in Window :
            /\ tab[b].id = i
            /\ \/ tab[b].pc = "position"
               \/ tab[b].pc = "accept" /\ tab[b].row.exits = enrolment[i].exits

ExitStands == [][ExitStandsStep]_vars

\* The brotherhood is in the end notified of every exit.
EveryExitTold ==
    \A i \in Ids, k \in 1..MaxExits :
        i \in Stored /\ enrolment[i].exits = k ~> told[i] >= k

=============================================================================
