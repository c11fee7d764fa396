---------------------------- MODULE SegmentPath ----------------------------
(***************************************************************************)
(* The path of one parade: SegmentService and SegmentController, for the   *)
(* brotherhood that owns the parade.                                       *)
(*                                                                         *)
(* A path is a set of rows of the Segment table. The segment a path can be *)
(* extended from, edited or removed at is the "editable" one: saving a new *)
(* segment closes the segment it starts from, deleting a segment reopens   *)
(* the one before it.                                                      *)
(*                                                                         *)
(* A request is not one transaction. Services are @Transactional,          *)
(* controllers are not, and OpenEntityManagerInViewInterceptor keeps one   *)
(* Hibernate session for the whole request. So the requests below are      *)
(* split where the code commits: reconstruct() changes a managed entity    *)
(* and its own commit writes it, before save() or delete() make their      *)
(* checks. A transaction reads a snapshot (InnoDB REPEATABLE READ); the    *)
(* @Version column makes its commit fail when a row it WRITES was changed  *)
(* meanwhile, and nothing protects the rows it only reads.                 *)
(***************************************************************************)
EXTENDS Integers, FiniteSets

CONSTANTS
    Point,       \* places, a latitude and a longitude each
    Tab,         \* browser windows of the brotherhood, one request each at a time
    MaxId,       \* bound: how many segments are ever inserted
    Timely,      \* typed times: TRUE when the origin's is before the destination's
    FreshForms,  \* TRUE: a form is sent only while its row is as it was shown
    Overlap,     \* TRUE: the server works on requests of several tabs at once
    NoSegment    \* no such row

ASSUME MaxIdAssumption == MaxId \in Nat \ {0}
ASSUME TimelyAssumption == Timely \subseteq BOOLEAN
ASSUME ModeAssumption == FreshForms \in BOOLEAN /\ Overlap \in BOOLEAN

Ids == 1..MaxId

\* A row of the Segment table: domain/Segment.java.
Segment == [origin : Point, dest : Point, timely : BOOLEAN, editable : BOOLEAN]

ASSUME NoSegmentAssumption == NoSegment \notin Segment

\* What a column of MaxId rows can hold.
Rows == [Ids -> Segment \cup {NoSegment}]

VARIABLES
    path,    \* the rows of this parade, by id
    nextId,  \* the id generator (GenerationType.TABLE): ids are never reused
    tab      \* what each window shows or has asked for

vars == <<path, nextId, tab>>

\* Requests between the first transaction that reads the path and the last commit.
InTransaction == {"saving", "deleting1", "deleting2"}

(* pc     where the window is                                              *)
(* id     the segment an edit form or a delete request is about (0: none)  *)
(* form   that segment as the form shows it, then as the session holds it  *)
(* view   the rows of the path as the request's session read them          *)
(* missed the rows of the view that other requests wrote since: those of   *)
(*        which the session holds an old @Version                          *)
TabState == [pc : {"idle", "creating", "editing"} \cup InTransaction,
             id : Ids \cup {0},
             form : Segment \cup {NoSegment},
             view : Rows,
             missed : SUBSET Ids]

NoRows == [s \in Ids |-> NoSegment]

Idle == [pc |-> "idle", id |-> 0, form |-> NoSegment,
         view |-> NoRows, missed |-> {}]

Init ==
    /\ path = NoRows
    /\ nextId = 1
    /\ tab = [t \in Tab |-> Idle]

Stored(rows) == {s \in Ids : rows[s] # NoSegment}

\* A request may start: alone, unless the server is let work on several.
MayStart == Overlap \/ \A t \in Tab : tab[t].pc \notin InTransaction

-----------------------------------------------------------------------------
(* The session's commit. rows are the dirty rows, by id; each is written   *)
(* whole, under the version the session read.                              *)

\* Mutant: the entity has no @Version.
FreshUnversioned(t, rows) == TRUE

Fresh(t, rows) == DOMAIN rows \cap tab[t].missed = {}

Written(rows) == [s \in Ids |-> IF s \in DOMAIN rows THEN rows[s] ELSE path[s]]

\* The window of tab t becomes next; the sessions of the others now miss
\* what changed.
Commit(t, rows, next) ==
    /\ Fresh(t, rows)
    /\ path' = Written(rows)
    /\ tab' = [r \in Tab |->
                 IF r = t THEN next
                 ELSE IF tab[r].pc \in InTransaction
                      THEN [tab[r] EXCEPT !.missed =
                              @ \cup {s \in Ids : Written(rows)[s] # path[s]}]
                      ELSE tab[r]]

Unwritten == [s \in {} |-> NoSegment]

-----------------------------------------------------------------------------
(* Pages: GET segment/create.do and segment/edit.do. The page shows the    *)
(* edit form only for an editable segment (segment/edit.jsp).              *)

OpenCreate(t) ==
    /\ tab[t].pc = "idle"
    /\ tab' = [tab EXCEPT ![t].pc = "creating"]
    /\ UNCHANGED <<path, nextId>>

\* Mutant: the page shows the form for any segment.
OpenEditClosed(t, s) ==
    /\ tab[t].pc = "idle"
    /\ path[s] # NoSegment
    /\ tab' = [tab EXCEPT ![t].pc = "editing", ![t].id = s, ![t].form = path[s]]
    /\ UNCHANGED <<path, nextId>>

OpenEdit(t, s) ==
    /\ tab[t].pc = "idle"
    /\ path[s] # NoSegment
    /\ path[s].editable
    /\ tab' = [tab EXCEPT ![t].pc = "editing", ![t].id = s, ![t].form = path[s]]
    /\ UNCHANGED <<path, nextId>>

Leave(t) ==
    /\ tab[t].pc \in {"creating", "editing"}
    /\ tab' = [tab EXCEPT ![t] = Idle]
    /\ UNCHANGED <<path, nextId>>

-----------------------------------------------------------------------------
(* POST segment/edit.do?save of a new segment. reconstruct() only          *)
(* validates it (and does not compare its times); save() reads the path,   *)
(* decides on what it read, and commits.                                   *)

SendNew(t, o, d, timely) ==
    /\ tab[t].pc = "creating"
    /\ MayStart
    /\ tab' = [tab EXCEPT ![t] =
                 [pc |-> "saving", id |-> 0,
                  form |-> [origin |-> o, dest |-> d,
                            timely |-> timely, editable |-> TRUE],
                  view |-> path, missed |-> {}]]
    /\ UNCHANGED <<path, nextId>>

\* The first segment of a path may start anywhere.
SaveFirst(t) ==
    /\ tab[t].pc = "saving"
    /\ Stored(tab[t].view) = {}
    /\ nextId \in Ids
    /\ Commit(t, [s \in {nextId} |-> tab[t].form], Idle)
    /\ nextId' = nextId + 1

\* Mutants: the match of one half of the condition only.
EndsWherever(t) == {s \in Stored(tab[t].view) : tab[t].view[s].editable}
EndsEvenClosed(t) == {s \in Stored(tab[t].view) :
                        tab[t].view[s].dest = tab[t].form.origin}

\* The open segments that end where the new one starts.
Ends(t) == {s \in Stored(tab[t].view) :
              /\ tab[t].view[s].dest = tab[t].form.origin
              /\ tab[t].view[s].editable}

\* Mutants: the flag is not set.
ClosedNot(segment) == segment
ReopenedNot(segment) == segment

Closed(segment) == [segment EXCEPT !.editable = FALSE]
Reopened(segment) == [segment EXCEPT !.editable = TRUE]

\* The new segment continues one of them, which closes. The query has no
\* order: any of them may come first.
SaveNext(t, s) ==
    /\ tab[t].pc = "saving"
    /\ s \in Ends(t)
    /\ nextId \in Ids
    /\ Commit(t, [n \in {nextId, s} |-> IF n = s THEN Closed(tab[t].view[s])
                                        ELSE tab[t].form], Idle)
    /\ nextId' = nextId + 1

-----------------------------------------------------------------------------
(* reconstruct() of an existing segment, first transaction of both         *)
(* requests of the edit form: whatever the segment's state, its            *)
(* destination and times become those of the form. Inverted times are      *)
(* refused before anything is written.                                     *)

\* Mutant: the origin, too, is copied from the form, which has no field for it.
EditedOriginless(s, d) == [path[s] EXCEPT !.origin = NoSegment, !.dest = d, !.timely = TRUE]

Edited(s, d) == [path[s] EXCEPT !.dest = d, !.timely = TRUE]

Reconstructs(t) ==
    /\ tab[t].pc = "editing"
    /\ MayStart
    /\ path[tab[t].id] # NoSegment
    /\ FreshForms => path[tab[t].id] = tab[t].form

\* POST segment/edit.do?save: save() then finds the session's own copy of the
\* segment, with nothing left to write, and accepts or refuses.
SendEdit(t, d) ==
    /\ Reconstructs(t)
    /\ Commit(t, [s \in {tab[t].id} |-> Edited(s, d)], Idle)
    /\ UNCHANGED nextId

\* POST segment/edit.do?delete. Without the parade in the form the controller
\* stops between the two services, with the edition committed.
SendDelete(t, d, carriesParade) ==
    /\ Reconstructs(t)
    /\ LET me == tab[t].id
       IN  Commit(t, [s \in {me} |-> Edited(s, d)],
                  IF carriesParade
                  THEN [pc |-> "deleting1", id |-> me, form |-> Edited(me, d),
                        view |-> [NoRows EXCEPT ![me] = Edited(me, d)],
                        missed |-> Ids \ {me}]
                  ELSE Idle)
    /\ UNCHANGED nextId

-----------------------------------------------------------------------------
(* delete(), second transaction. The query returns the rows there are now, *)
(* but for the segment itself the copy the session already holds.          *)

ReadForDelete(t) ==
    LET me == tab[t].id
    IN  /\ tab[t].pc = "deleting1"
        /\ tab[t].form.editable
        /\ tab' = [tab EXCEPT ![t] =
                     [pc |-> "deleting2", id |-> me, form |-> tab[t].form,
                      view |-> [path EXCEPT ![me] =
                         IF path[me] = NoSegment THEN NoSegment ELSE tab[t].form],
                      missed |-> tab[t].missed \cap {me}]]
        /\ UNCHANGED <<path, nextId>>

\* The segments of the path that end where the deleted one starts.
Before(t) == {s \in Stored(tab[t].view) :
                tab[t].view[s].dest = tab[t].form.origin}

\* The only segment of a path is just removed.
DeleteOnly(t) ==
    /\ tab[t].pc = "deleting2"
    /\ \E s \in Ids : Stored(tab[t].view) = {s}
    /\ Commit(t, [s \in {tab[t].id} |-> NoSegment], Idle)
    /\ UNCHANGED nextId

\* Otherwise the loop reopens and deletes once per match: once is a deletion
\* that reopens the segment before, and writes it only if it was closed.
DeleteLast(t, s) ==
    LET me == tab[t].id
        dirty == {me} \cup {p \in {s} : ~tab[t].view[p].editable}
    IN  /\ tab[t].pc = "deleting2"
        /\ ~\E p \in Ids : Stored(tab[t].view) = {p}
        /\ Before(t) = {s}
        /\ Commit(t, [p \in dirty |-> IF p = me THEN NoSegment
                                      ELSE Reopened(tab[t].view[p])], Idle)
        /\ UNCHANGED nextId

\* No match: the request succeeds and deletes nothing.
DeleteNothing(t) ==
    /\ tab[t].pc = "deleting2"
    /\ ~\E p \in Ids : Stored(tab[t].view) = {p}
    /\ Before(t) = {}
    /\ Commit(t, Unwritten, Idle)
    /\ UNCHANGED nextId

-----------------------------------------------------------------------------
(* Any transaction may roll back: a failed Assert (no segment to continue, *)
(* a segment that is not editable), the second deletion of a loop with two *)
(* matches, an old @Version, a lost connection. The error page follows.    *)

Rollback(t) ==
    /\ tab[t].pc \in InTransaction
    /\ tab' = [tab EXCEPT ![t] = Idle]
    /\ UNCHANGED <<path, nextId>>

Next ==
    \E t \in Tab :
        \/ OpenCreate(t)
        \/ \E s \in Ids : OpenEdit(t, s)
        \/ Leave(t)
        \/ \E o, d \in Point, timely \in Timely : SendNew(t, o, d, timely)
        \/ SaveFirst(t)
        \/ \E s \in Ids : SaveNext(t, s)
        \/ \E d \in Point : SendEdit(t, d)
        \/ \E d \in Point, carriesParade \in BOOLEAN :
              SendDelete(t, d, carriesParade)
        \/ ReadForDelete(t)
        \/ DeleteOnly(t)
        \/ \E s \in Ids : DeleteLast(t, s)
        \/ DeleteNothing(t)
        \/ Rollback(t)

Spec == Init /\ [][Next]_vars

-----------------------------------------------------------------------------
(* Properties *)

\* The variables hold what the code can put there: the rows of the table, and
\* in each window a form or a session of its own.
TypeOK ==
    /\ path \in Rows
    /\ nextId \in 1..(MaxId + 1)
    /\ tab \in [Tab -> TabState]

Open(rows) == {s \in Stored(rows) : rows[s].editable}

\* Segment n goes on where segment s ends.
Continues(n, s) ==
    /\ n \in Stored(path) \ {s}
    /\ path[n].origin = path[s].dest

\* A segment that cannot be edited any more is one the path goes on from:
\* whatever saves and deletions interleave, no closed segment is left at a dead
\* end, where nothing could be added and nothing changed.
NoDeadEnd ==
    \A s \in Stored(path) \ Open(path) : \E n \in Ids : Continues(n, s)

\* A segment closes exactly when one is inserted that starts where it ends; two
\* requests never both continue one segment.
HandoverStep ==
    LET closing  == {s \in Open(path) : s \in Stored(path') \ Open(path')}
        inserted == Stored(path') \ Stored(path)
    IN  /\ \A s \in closing : \E n \in inserted :
              path'[n].origin = path'[s].dest /\ path'[s].dest = path[s].dest
        /\ \A n \in inserted :
              \/ Cardinality(closing) = 1
              \/ \E t \in Tab : tab[t].pc = "saving" /\ Stored(tab[t].view) = {}

Handover == [][HandoverStep]_vars

\* What is said of a closed segment stays: while it is closed it is neither
\* removed nor given another destination or other times, by no request of any
\* window. SegmentServiceTest:71-74 says that editing it fails.
ClosedIsFrozenStep ==
    \A s \in Stored(path) \ Open(path) :
        /\ s \in Stored(path')
        /\ path'[s] \in {path[s], [path[s] EXCEPT !.editable = TRUE]}

ClosedIsFrozen == [][ClosedIsFrozenStep]_vars

\* Serving one request at a time, from forms that show what is stored, the
\* segments form one chain in the order they were saved, and exactly its last
\* one is open.
Chained ==
    \A s \in Stored(path) :
        LET later == {n \in Stored(path) : n > s}
        IN  /\ path[s].editable <=> later = {}
            /\ \A n \in later :
                  (\A m \in later : n <= m) => path[n].origin = path[s].dest

\* Every segment but the first of a path starts where an open one ended:
\* SegmentServiceTest:146-152 says that a save with another origin fails.
StartsAtAnEndStep ==
    \A n \in Stored(path') \ Stored(path) :
        \/ Stored(path) = {}
        \/ \E s \in Open(path) : path[s].dest = path'[n].origin

StartsAtAnEnd == [][StartsAtAnEndStep]_vars

\* What a path shows of a segment.
Leg(segment) ==
    [origin |-> segment.origin, dest |-> segment.dest, timely |-> segment.timely]

P == INSTANCE PathStack WITH
       Id <- Ids,
       legs <- [s \in Stored(path) |-> Leg(path[s])],
       ends <- Open(path)

\* Served one at a time, from fresh forms, the requests implement a stack of legs: each
\* adds a leg at the end, changes or removes the last one, or leaves the path alone.
IsStack == P!Spec

=============================================================================
