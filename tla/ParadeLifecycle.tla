-------------------------- MODULE ParadeLifecycle --------------------------
(***************************************************************************)
(* One parade between its brotherhood, the chapter of its zone and the     *)
(* members who ask to march: ParadeService and ParadeController, and of    *)
(* the services that refer to a parade what makes a row refer to it.       *)
(*                                                                         *)
(* Requests are split where the code commits, as in SegmentPath. The form  *)
(* of a parade has no field for isDraft: reconstruct() reads it as FALSE,  *)
(* and its commit stores that before save() or delete() come to say what   *)
(* the request was for.                                                    *)
(***************************************************************************)
EXTENDS Naturals

CONSTANTS
    Content,     \* what a parade says of itself: title and description
    Tab,         \* windows, of the brotherhood, the chapter or a member
    Member,      \* the members who may ask to march
    FreshForms,  \* TRUE: a form is sent only while its row is as it was shown
    Overlap,     \* TRUE: the server works on several requests at once
    Faults,      \* TRUE: a transaction may fail for no reason of its own
    NoParade     \* no such row

ASSUME ModeAssumption ==
    FreshForms \in BOOLEAN /\ Overlap \in BOOLEAN /\ Faults \in BOOLEAN

Verdicts == {"ACCEPTED", "REJECTED"}

\* The row: domain/Parade.java.
Parade == [content : Content, draft : BOOLEAN, status : {"SUBMITTED"} \cup Verdicts]

ASSUME NoParadeAssumption == NoParade \notin Parade

VARIABLES
    parade,    \* the row, NoParade before its insertion and after its deletion
    deleted,   \* the id was used and is free no more
    hasPath,   \* segments refer to the parade
    marches,   \* the members whose marches refer to the parade
    notices,   \* what the row was when its publication was announced
    wanted,    \* somebody asked for the parade to be final
    tab        \* what each window shows or has asked for

vars == <<parade, deleted, hasPath, marches, notices, wanted, tab>>

InTransaction == {"save", "notify", "delete"} \cup Verdicts

(* pc     where the window is, or the request it waits for                 *)
(* row    the parade as the form shows it, then as the session holds it    *)
(* stale  other requests wrote the row since: the session's @Version is old *)
TabState == [pc : {"idle", "new", "edit", "apply"} \cup InTransaction,
             row : Parade \cup {NoParade},
             stale : BOOLEAN]

Idle == [pc |-> "idle", row |-> NoParade, stale |-> FALSE]

Init ==
    /\ parade = NoParade
    /\ deleted = FALSE
    /\ hasPath = FALSE
    /\ marches = {}
    /\ notices = {}
    /\ wanted = FALSE
    /\ tab = [t \in Tab |-> Idle]

Exists == parade # NoParade

\* A request may start: alone, unless the server is let work on several.
MayStart == Overlap \/ \A t \in Tab : tab[t].pc \notin InTransaction

Show(t, pc, row) ==
    tab' = [tab EXCEPT ![t] = [pc |-> pc, row |-> row, stale |-> FALSE]]

\* The row becomes what the request of tab t made of it; the sessions of the
\* other requests hold an old one.
Store(t, row, next) ==
    /\ parade' = row
    /\ tab' = [r \in Tab |->
                 IF r = t THEN next
                 ELSE [tab[r] EXCEPT !.stale =
                         @ \/ (tab[r].pc \in InTransaction /\ row # parade)]]

\* Mutant: the entity has no @Version.
CommitsUnversioned(t, row, next) == Store(t, row, next)

\* The second transaction of a request writes under the version the first read.
Commits(t, row, next) == ~tab[t].stale /\ Store(t, row, next)

Asking(pc, row) == [pc |-> pc, row |-> row, stale |-> FALSE]

-----------------------------------------------------------------------------
(* The brotherhood's pages: GET parade/create.do and parade/edit.do, which *)
(* shows the form of a draft only (parade/edit.jsp).                       *)

OpenNew(t) ==
    /\ tab[t].pc = "idle"
    /\ ~Exists /\ ~deleted
    /\ Show(t, "new", NoParade)
    /\ UNCHANGED <<parade, deleted, hasPath, marches, notices, wanted>>

OpenEdit(t) ==
    /\ tab[t].pc = "idle"
    /\ MayStart
    /\ Exists
    /\ parade.draft
    /\ Show(t, "edit", parade)
    /\ UNCHANGED <<parade, deleted, hasPath, marches, notices, wanted>>

Leave(t) ==
    /\ tab[t].pc \in {"new", "edit", "apply"}
    /\ Show(t, "idle", NoParade)
    /\ UNCHANGED <<parade, deleted, hasPath, marches, notices, wanted>>

-----------------------------------------------------------------------------
(* POST parade/edit.do of a new parade. Nothing is stored before save()    *)
(* inserts it: as a draft, or final and then announced. copyParade()       *)
(* inserts a draft the same way.                                           *)

\* Mutant: setStatus("SUBMITTED") is dropped.
SubmittedStatusless(c, draft) ==
    [content |-> c, draft |-> draft, status |-> NoParade]

Submitted(c, draft) == [content |-> c, draft |-> draft, status |-> "SUBMITTED"]

InsertDraft(t, c) ==
    /\ tab[t].pc = "new"
    /\ MayStart
    /\ ~Exists /\ ~deleted
    /\ Store(t, Submitted(c, TRUE), Idle)
    /\ UNCHANGED <<deleted, hasPath, marches, notices, wanted>>

InsertFinal(t, c) ==
    /\ tab[t].pc = "new"
    /\ MayStart
    /\ ~Exists /\ ~deleted
    /\ Store(t, Submitted(c, FALSE), Asking("notify", Submitted(c, FALSE)))
    /\ wanted' = TRUE
    /\ UNCHANGED <<deleted, hasPath, marches, notices>>

-----------------------------------------------------------------------------
(* POST parade/edit.do of a stored parade. First transaction of all three  *)
(* buttons, reconstruct(): content of the form, and final.                 *)

\* Mutant: isDraft stays what it was.
ReconstructedDraft(c) == [parade EXCEPT !.content = c]

Reconstructed(c) == [parade EXCEPT !.content = c, !.draft = FALSE]

Reconstructs(t, c, next) ==
    /\ tab[t].pc = "edit"
    /\ MayStart
    /\ Exists
    /\ FreshForms => parade = tab[t].row
    /\ Store(t, Reconstructed(c), next)

SendSave(t, c) ==
    /\ Reconstructs(t, c, Asking("save", Reconstructed(c)))
    /\ UNCHANGED <<deleted, hasPath, marches, notices, wanted>>

\* save() after setIsDraft(true).
FinishSave(t) ==
    /\ tab[t].pc = "save"
    /\ Commits(t, [tab[t].row EXCEPT !.draft = TRUE], Idle)
    /\ UNCHANGED <<deleted, hasPath, marches, notices, wanted>>

\* The save() of saveFinal finds nothing left to write.
SendSaveFinal(t, c) ==
    /\ Reconstructs(t, c, Asking("notify", Reconstructed(c)))
    /\ wanted' = TRUE
    /\ UNCHANGED <<deleted, hasPath, marches, notices>>

\* notificationPublishParade(), a transaction of its own that neither reads nor
\* writes the parade.
Notify(t) ==
    /\ tab[t].pc = "notify"
    /\ notices' = notices \cup {tab[t].row}
    /\ Show(t, "idle", NoParade)
    /\ UNCHANGED <<parade, deleted, hasPath, marches, wanted>>

SendDelete(t, c) ==
    /\ Reconstructs(t, c, Asking("delete", Reconstructed(c)))
    /\ UNCHANGED <<deleted, hasPath, marches, notices, wanted>>

\* delete(): the foreign keys of segments and marches refuse it while they refer
\* to the parade.
FinishDelete(t) ==
    /\ tab[t].pc = "delete"
    /\ ~hasPath /\ marches = {}
    /\ Commits(t, NoParade, Idle)
    /\ deleted' = TRUE
    /\ UNCHANGED <<hasPath, marches, notices, wanted>>

-----------------------------------------------------------------------------
(* The chapter: GET parade/accept.do, POST parade/rejectb.do. The list has *)
(* links for the parades of the zone that are final; a link may be old.    *)
(* One transaction reads the parade, the next decides on what was read.    *)

\* Mutant: one half of the condition only.
DecidableDraft(row) == row.status = "SUBMITTED"

Decidable(row) == row.status = "SUBMITTED" /\ ~row.draft

AskVerdict(t, verdict) ==
    /\ tab[t].pc = "idle"
    /\ MayStart
    /\ Exists
    /\ Show(t, verdict, parade)
    /\ UNCHANGED <<parade, deleted, hasPath, marches, notices, wanted>>

\* accept() and reject().
Decide(t) ==
    /\ tab[t].pc \in Verdicts
    /\ Decidable(tab[t].row)
    /\ Commits(t, [tab[t].row EXCEPT !.status = tab[t].pc], Idle)
    /\ UNCHANGED <<deleted, hasPath, marches, notices, wanted>>

-----------------------------------------------------------------------------
(* Rows that refer to the parade. The page of a new march offers the final *)
(* parades; MarchService.save does not look at the parade again.           *)

\* SegmentService: the first segment of the path is saved, the last one deleted.
ChangePath ==
    /\ Exists
    /\ MayStart
    /\ hasPath' = ~hasPath
    /\ UNCHANGED <<parade, deleted, marches, notices, wanted, tab>>

\* findPossibleParadesToMarchByMember
Offered(row) == ~row.draft

OpenApply(t) ==
    /\ tab[t].pc = "idle"
    /\ MayStart
    /\ Exists
    /\ Offered(parade)
    /\ Show(t, "apply", parade)
    /\ UNCHANGED <<parade, deleted, hasPath, marches, notices, wanted>>

Apply(t, m) ==
    /\ tab[t].pc = "apply"
    /\ MayStart
    /\ Exists
    /\ FreshForms => parade = tab[t].row
    /\ marches' = marches \cup {m}
    /\ Show(t, "idle", NoParade)
    /\ UNCHANGED <<parade, deleted, hasPath, notices, wanted>>

\* MarchService.delete.
Withdraw(m) ==
    /\ m \in marches
    /\ MayStart
    /\ marches' = marches \ {m}
    /\ UNCHANGED <<parade, deleted, hasPath, notices, wanted, tab>>

-----------------------------------------------------------------------------

\* What makes the second transaction of a request fail: a row another request
\* wrote meanwhile, a row that refers to the parade, a failed Assert.
Refused(t) ==
    \/ tab[t].pc # "notify" /\ tab[t].stale
    \/ tab[t].pc = "delete" /\ (hasPath \/ marches # {})
    \/ tab[t].pc \in Verdicts /\ ~Decidable(tab[t].row)

\* A transaction fails; what the request committed before stays.
Rollback(t) ==
    /\ tab[t].pc \in InTransaction
    /\ Faults \/ Refused(t)
    /\ Show(t, "idle", NoParade)
    /\ UNCHANGED <<parade, deleted, hasPath, marches, notices, wanted>>

Next ==
    \/ \E t \in Tab :
        \/ OpenNew(t) \/ OpenEdit(t) \/ OpenApply(t) \/ Leave(t)
        \/ \E c \in Content :
              \/ InsertDraft(t, c) \/ InsertFinal(t, c)
              \/ SendSave(t, c) \/ SendSaveFinal(t, c) \/ SendDelete(t, c)
        \/ FinishSave(t) \/ Notify(t) \/ FinishDelete(t)
        \/ \E verdict \in Verdicts : AskVerdict(t, verdict)
        \/ Decide(t)
        \/ \E m \in Member : Apply(t, m)
        \/ Rollback(t)
    \/ ChangePath
    \/ \E m \in Member : Withdraw(m)

Spec == Init /\ [][Next]_vars

-----------------------------------------------------------------------------
(* Properties *)

\* The variables hold what the code can put there.
TypeOK ==
    /\ parade \in Parade \cup {NoParade}
    /\ deleted \in BOOLEAN /\ hasPath \in BOOLEAN /\ wanted \in BOOLEAN
    /\ marches \subseteq Member
    /\ notices \subseteq Parade
    /\ tab \in [Tab -> TabState]

\* The life the members see: requests implement ParadeLife whatever their order,
\* when forms are fresh. The moments in which a "save" or a "delete" has published
\* a draft are allowed for as a final parade nobody was told of.
Stage ==
    CASE ~Exists /\ ~deleted -> "none"
      [] ~Exists /\ deleted -> "deleted"
      [] Exists /\ parade.draft -> "draft"
      [] Exists /\ ~parade.draft /\ parade.status = "SUBMITTED" -> "final"
      [] Exists /\ ~parade.draft /\ parade.status = "ACCEPTED" -> "accepted"
      [] Exists /\ ~parade.draft /\ parade.status = "REJECTED" -> "rejected"

Life == INSTANCE ParadeLife WITH
            stage <- Stage,
            content <- IF Exists THEN parade.content ELSE NoParade,
            announced <- notices # {},
            Nothing <- NoParade

Lives == Life!Spec

\* A parade the chapter decided on never changes again: not its verdict (of two
\* chapter windows one decides), not its content, not back to a draft, and it is
\* not deleted. parade/messages.properties:12 says of a parade that is not a draft
\* that it "cannot be edited".
DecidedIsFrozenStep ==
    Exists /\ parade.status \in Verdicts => UNCHANGED parade

DecidedIsFrozen == [][DecidedIsFrozenStep]_vars

\* What was announced is so: the parade is still there, final, and says what the
\* notification said.
NoticesAreTrue ==
    \A n \in notices : Exists /\ ~parade.draft /\ parade.content = n.content

\* Between requests, a parade is final only if somebody pressed "Save as final"
\* (parade/messages.properties:35): a "Delete" answered with a "Commit error
\* transaction" (:34) has committed nothing.
FinalIsWanted ==
    Exists /\ ~parade.draft /\ (\A t \in Tab : tab[t].pc \notin InTransaction)
        => wanted

=============================================================================
