----------------------- MODULE ParadeLifecycle_proofs -----------------------
(***************************************************************************)
(* Theorems about ParadeLifecycle, for any contents, windows and members,  *)
(* with requests one at a time or overlapping, and whatever fails. They    *)
(* need forms that show the row as it is stored.                           *)
(***************************************************************************)
EXTENDS ParadeLifecycle, TLAPS

\* The parade was announced as n, or a request will announce it so.
Says(n) == n \in notices \/ \E t \in Tab : tab[t].pc = "notify" /\ tab[t].row = n

\* What was or will be announced is so, and no request that has begun will take it back.
SaidIsSo ==
    \A n \in Parade : Says(n) =>
        /\ Exists /\ ~parade.draft
        /\ parade.content = n.content
        /\ \A t \in Tab : tab[t].pc \in {"save", "delete"} => tab[t].stale

\* What a window knows of the row: forms are of drafts, and a request in its last
\* transaction holds the row that is stored, unless it was written since.
Knows(r) ==
    /\ r.pc = "edit" => r.row \in Parade /\ r.row.draft
    /\ r.pc \in InTransaction => r.row \in Parade
    /\ r.pc \in {"save", "delete"} => r.row.status = "SUBMITTED" /\ ~r.row.draft
    /\ r.pc \in {"save", "delete"} \cup Verdicts /\ ~r.stale => parade = r.row

\* The inductive invariant.
Inv ==
    /\ TypeOK
    /\ Exists => ~deleted
    /\ Exists /\ parade.draft => parade.status = "SUBMITTED"
    /\ SaidIsSo
    /\ \A t \in Tab : Knows(tab[t])

\* A window may come to know nothing.
LEMMA IdleKnows == Idle \in TabState /\ Knows(Idle) /\ Idle.pc = "idle"
BY DEF Idle, TabState, Knows, InTransaction, Verdicts

\* A window shows something else, and the row is not written.
LEMMA ShowStep ==
    ASSUME Inv, NEW t \in Tab, NEW pc, NEW row, Show(t, pc, row),
           Asking(pc, row) \in TabState, Knows(Asking(pc, row)),
           pc \notin {"save", "delete", "notify"},
           UNCHANGED <<parade, deleted, wanted>>,
           hasPath' \in BOOLEAN, marches' \subseteq Member,
           notices' \subseteq Parade, \A n \in notices' : Says(n)
    PROVE  Inv'
<1>. DEFINE next == Asking(pc, row)
<1>1. /\ tab' \in [Tab -> TabState]
      /\ \A u \in Tab : tab'[u] = IF u = t THEN next ELSE tab[u]
      /\ next.pc = pc
  BY DEF Inv, TypeOK, Show, Asking
<1>. HIDE DEF next
<1>2. TypeOK'
  BY <1>1 DEF Inv, TypeOK
<1>3. (Exists => ~deleted)' /\ (Exists /\ parade.draft => parade.status = "SUBMITTED")'
  BY DEF Inv, Exists
<1>4. \A n \in Parade : Says(n)' => Says(n)
  BY <1>1 DEF Says
<1>5. SaidIsSo'
  BY <1>1, <1>4 DEF Inv, SaidIsSo, Exists
<1>6. \A u \in Tab : Knows(tab[u])'
  BY <1>1 DEF Inv, Knows, next
<1>. QED BY <1>2, <1>3, <1>5, <1>6 DEF Inv

\* The windows do not move, and the row is not written.
LEMMA OtherStep ==
    ASSUME Inv, UNCHANGED <<parade, deleted, notices, wanted, tab>>,
           hasPath' \in BOOLEAN, marches' \subseteq Member
    PROVE  Inv'
<1>1. TypeOK'
  BY DEF Inv, TypeOK
<1>2. (Exists => ~deleted)' /\ (Exists /\ parade.draft => parade.status = "SUBMITTED")'
  BY DEF Inv, Exists
<1>3. SaidIsSo'
  BY DEF Inv, SaidIsSo, Says, Exists
<1>4. \A u \in Tab : Knows(tab[u])'
  BY DEF Inv, Knows
<1>. QED BY <1>1, <1>2, <1>3, <1>4 DEF Inv

\* The row becomes another one: every other session is stale.
LEMMA WriteStep ==
    ASSUME Inv, NEW t \in Tab, NEW row \in Parade \cup {NoParade}, NEW next \in TabState,
           Store(t, row, next),
           row # parade,
           row # NoParade /\ row.draft => row.status = "SUBMITTED",
           \/ next = Idle
           \/ /\ next = Asking(next.pc, row)
              /\ next.pc \in {"save", "delete", "notify"}
              /\ row \in Parade /\ row.status = "SUBMITTED" /\ ~row.draft,
           \/ \A n \in Parade : ~Says(n)
           \/ /\ next = Idle
              /\ parade \in Parade /\ row \in Parade
              /\ row.content = parade.content /\ row.draft = parade.draft,
           deleted' \in BOOLEAN, row # NoParade => ~deleted', wanted' \in BOOLEAN,
           UNCHANGED <<hasPath, marches, notices>>
    PROVE  Inv'
<1>1. /\ parade' = row
      /\ tab' \in [Tab -> TabState]
      /\ tab'[t] = next
      /\ \A u \in Tab \ {t} :
           /\ tab'[u].pc = tab[u].pc
           /\ tab'[u].row = tab[u].row
           /\ tab'[u].pc \in InTransaction => tab'[u].stale
  BY DEF Inv, TypeOK, TabState, Store
<1>2. TypeOK'
  BY <1>1 DEF Inv, TypeOK
<1>3. (Exists => ~deleted)' /\ (Exists /\ parade.draft => parade.status = "SUBMITTED")'
  BY <1>1 DEF Exists
<1>4. Exists' <=> row \in Parade
  BY <1>1, NoParadeAssumption DEF Exists
<1>5. SaidIsSo'
  <2>1. CASE next = Idle
    <3>1. \A n \in Parade : Says(n)' => Says(n)
      BY <2>1, <1>1, IdleKnows DEF Says
    <3>. QED BY <2>1, <3>1, <1>1, <1>4, IdleKnows DEF Inv, SaidIsSo, InTransaction
  <2>2. CASE next # Idle
    <3>1. \A n \in Parade : Says(n)' => next.pc = "notify" /\ n = row
      BY <2>2, <1>1 DEF Says, Asking
    <3>. QED BY <2>2, <3>1, <1>1, <1>4 DEF SaidIsSo, InTransaction
  <2>. QED BY <2>1, <2>2
<1>6. \A u \in Tab : Knows(tab[u])'
  <2>. SUFFICES ASSUME NEW u \in Tab PROVE Knows(tab[u])'
    OBVIOUS
  <2>1. CASE u # t
    <3>1. Knows(tab[u])
      BY DEF Inv
    <3>. QED BY <2>1, <3>1, <1>1 DEF Knows, InTransaction
  <2>2. CASE u = t /\ next = Idle
    BY <2>2, <1>1 DEF Idle, Knows, InTransaction, Verdicts
  <2>3. CASE u = t /\ next # Idle
    BY <2>3, <1>1 DEF Asking, Knows, Verdicts
  <2>. QED BY <2>1, <2>2, <2>3
<1>. QED BY <1>2, <1>3, <1>5, <1>6 DEF Inv

-----------------------------------------------------------------------------
(* What the requests that write the row find, and what they make of it.    *)

\* A new parade is one nobody has heard of.
LEMMA Inserts ==
    ASSUME Inv, NEW c \in Content, NEW d \in BOOLEAN, ~Exists
    PROVE  /\ parade = NoParade
           /\ Submitted(c, d) \in Parade /\ Submitted(c, d) # parade
           /\ Submitted(c, d).content = c /\ Submitted(c, d).draft = d
           /\ Submitted(c, d).status = "SUBMITTED"
           /\ \A n \in Parade : ~Says(n)
<1>1. Submitted(c, d) \in Parade
  BY DEF Submitted, Parade, Verdicts
<1>2. parade = NoParade
  BY DEF Exists
<1>. QED BY <1>1, <1>2, NoParadeAssumption DEF Inv, SaidIsSo, Submitted

\* A fresh form is of a draft, which nobody has heard of, and makes it final.
LEMMA Publishes ==
    ASSUME Inv, FreshForms, NEW t \in Tab, NEW c \in Content, NEW next,
           Reconstructs(t, c, next)
    PROVE  /\ parade \in Parade /\ parade.draft /\ parade.status = "SUBMITTED"
           /\ Reconstructed(c) \in Parade /\ Reconstructed(c) # parade
           /\ Reconstructed(c).content = c /\ ~Reconstructed(c).draft
           /\ Reconstructed(c).status = "SUBMITTED"
           /\ \A n \in Parade : ~Says(n)
           /\ Store(t, Reconstructed(c), next)
<1>1. parade \in Parade /\ parade.draft
  BY DEF Inv, Knows, Reconstructs
<1>2. parade.status = "SUBMITTED"
  BY <1>1, NoParadeAssumption DEF Inv, Exists
<1>3. /\ Reconstructed(c) \in Parade /\ ~Reconstructed(c).draft
      /\ Reconstructed(c).content = c /\ Reconstructed(c).status = "SUBMITTED"
  BY <1>1, <1>2 DEF Reconstructed, Parade
<1>4. \A n \in Parade : ~Says(n)
  BY <1>1 DEF Inv, SaidIsSo
<1>. QED BY <1>1, <1>2, <1>3, <1>4 DEF Reconstructs

\* A "save" or "delete" that is not stale finds the parade as its first transaction
\* left it: final, and nobody has heard of it.
LEMMA Finishes ==
    ASSUME Inv, NEW t \in Tab, tab[t].pc \in {"save", "delete"}, ~tab[t].stale
    PROVE  /\ parade = tab[t].row /\ parade \in Parade
           /\ parade.status = "SUBMITTED" /\ ~parade.draft
           /\ \A n \in Parade : ~Says(n)
<1>1. Knows(tab[t])
  BY DEF Inv
<1>2. /\ parade = tab[t].row /\ parade \in Parade
      /\ parade.status = "SUBMITTED" /\ ~parade.draft
  BY <1>1 DEF Knows, InTransaction
<1>. QED BY <1>2 DEF Inv, SaidIsSo

\* A verdict is on a final parade nobody decided on, and changes its status alone.
LEMMA Decides ==
    ASSUME Inv, NEW t \in Tab, Decide(t)
    PROVE  LET row == [tab[t].row EXCEPT !.status = tab[t].pc]
           IN  /\ parade \in Parade /\ parade.status = "SUBMITTED" /\ ~parade.draft
               /\ row \in Parade /\ row # parade
               /\ row.content = parade.content /\ row.draft = parade.draft
               /\ row.status = tab[t].pc /\ tab[t].pc \in Verdicts
               /\ Store(t, row, Idle)
<1>1. /\ tab[t].pc \in Verdicts /\ ~tab[t].stale
      /\ tab[t].row.status = "SUBMITTED" /\ ~tab[t].row.draft
      /\ Store(t, [tab[t].row EXCEPT !.status = tab[t].pc], Idle)
  BY DEF Decide, Decidable, Commits
<1>2. parade = tab[t].row /\ parade \in Parade
  BY <1>1 DEF Inv, Knows, InTransaction
<1>. QED BY <1>1, <1>2 DEF Parade, Verdicts

-----------------------------------------------------------------------------

\* Every step keeps the invariant.
LEMMA StepKeeps ==
    ASSUME FreshForms, Inv, [Next]_vars
    PROVE  Inv'
<1>. /\ TypeOK
     /\ \A u \in Tab : Knows(tab[u]) /\ tab[u] \in TabState
  BY DEF Inv, TypeOK
<1>0. ASSUME NEW t \in Tab, Show(t, "idle", NoParade), UNCHANGED <<parade, deleted, wanted>>,
             hasPath' \in BOOLEAN, marches' \subseteq Member,
             notices' \subseteq Parade, \A n \in notices' : Says(n)
      PROVE  Inv'
  <2>1. Asking("idle", NoParade) = Idle
    BY DEF Asking, Idle
  <2>. QED BY <1>0, <2>1, IdleKnows, ShowStep
<1>1. ASSUME NEW t \in Tab, NEW pc \in {"new", "edit", "apply"} \cup Verdicts,
             NEW row \in {parade, NoParade},
             Show(t, pc, row), pc # "new" => Exists /\ row = parade, pc = "edit" => parade.draft,
             UNCHANGED <<parade, deleted, hasPath, marches, notices, wanted>>
      PROVE  Inv'
  <2>1. Asking(pc, row) \in TabState
    BY DEF TypeOK, Asking, TabState, InTransaction
  <2>2. Exists => parade \in Parade
    BY DEF TypeOK, Exists
  <2>3. Knows(Asking(pc, row))
    BY <1>1, <2>2 DEF Knows, Asking, InTransaction, Verdicts
  <2>. QED BY <1>1, <2>1, <2>3, ShowStep DEF TypeOK, Says, Verdicts
<1>2. ASSUME NEW t \in Tab, OpenNew(t) \/ OpenEdit(t) \/ OpenApply(t)
      PROVE  Inv'
  BY <1>1, <1>2 DEF OpenNew, OpenEdit, OpenApply
<1>3. ASSUME NEW t \in Tab, Leave(t) \/ Rollback(t)
      PROVE  Inv'
  BY <1>0, <1>3 DEF Leave, Rollback, TypeOK, Says
<1>4. ASSUME NEW t \in Tab, NEW c \in Content, InsertDraft(t, c)
      PROVE  Inv'
  BY <1>4, Inserts, IdleKnows, WriteStep DEF InsertDraft, TypeOK
<1>5. ASSUME NEW t \in Tab, NEW c \in Content, InsertFinal(t, c)
      PROVE  Inv'
  <2>. DEFINE row == Submitted(c, FALSE)
              next == Asking("notify", row)
  <2>1. row \in Parade /\ row # parade /\ ~row.draft /\ row.status = "SUBMITTED"
        /\ \A n \in Parade : ~Says(n)
    BY <1>5, Inserts DEF InsertFinal
  <2>2. next \in TabState /\ next = Asking(next.pc, row) /\ next.pc = "notify"
    BY <2>1 DEF Asking, TabState, InTransaction
  <2>3. Store(t, row, next) /\ ~deleted /\ wanted' = TRUE
        /\ UNCHANGED <<deleted, hasPath, marches, notices>>
    BY <1>5 DEF InsertFinal
  <2>. HIDE DEF row, next
  <2>. QED BY <2>1, <2>2, <2>3, WriteStep DEF TypeOK
<1>6. ASSUME NEW t \in Tab, NEW c \in Content, NEW pc \in {"save", "delete", "notify"},
             Reconstructs(t, c, Asking(pc, Reconstructed(c))), wanted' \in BOOLEAN,
             UNCHANGED <<deleted, hasPath, marches, notices>>
      PROVE  Inv'
  <2>. DEFINE row == Reconstructed(c)
              next == Asking(pc, row)
  <2>1. row \in Parade /\ row # parade /\ ~row.draft /\ row.status = "SUBMITTED"
        /\ Store(t, row, next) /\ \A n \in Parade : ~Says(n)
    BY <1>6, Publishes
  <2>2. next \in TabState /\ next = Asking(next.pc, row) /\ next.pc = pc
    BY <2>1 DEF Asking, TabState, InTransaction
  <2>3. ~deleted
    BY <1>6 DEF Reconstructs, Inv
  <2>. HIDE DEF row, next
  <2>. QED BY <1>6, <2>1, <2>2, <2>3, WriteStep DEF TypeOK
<1>7. ASSUME NEW t \in Tab, NEW c \in Content,
             SendSave(t, c) \/ SendSaveFinal(t, c) \/ SendDelete(t, c)
      PROVE  Inv'
  BY <1>6, <1>7 DEF SendSave, SendSaveFinal, SendDelete, TypeOK
<1>8. ASSUME NEW t \in Tab, FinishSave(t)
      PROVE  Inv'
  <2>. DEFINE row == [tab[t].row EXCEPT !.draft = TRUE]
  <2>1. Store(t, row, Idle) /\ tab[t].pc = "save" /\ ~tab[t].stale
        /\ UNCHANGED <<deleted, hasPath, marches, notices, wanted>>
    BY <1>8 DEF FinishSave, Commits
  <2>2. parade = tab[t].row /\ parade \in Parade /\ parade.status = "SUBMITTED"
        /\ ~parade.draft /\ \A n \in Parade : ~Says(n)
    BY <2>1, Finishes
  <2>3. row \in Parade /\ row # parade /\ row.status = "SUBMITTED"
    BY <2>2 DEF Parade
  <2>4. ~deleted
    BY <2>2, NoParadeAssumption DEF Inv, Exists
  <2>. HIDE DEF row
  <2>. QED BY <2>1, <2>2, <2>3, <2>4, IdleKnows, WriteStep DEF TypeOK
<1>9. ASSUME NEW t \in Tab, Notify(t)
      PROVE  Inv'
  <2>1. tab[t].row \in Parade
    BY <1>9 DEF Notify, Knows, InTransaction
  <2>2. notices' \subseteq Parade /\ \A n \in notices' : Says(n)
    BY <1>9, <2>1 DEF Notify, TypeOK, Says
  <2>. QED BY <1>0, <1>9, <2>2 DEF Notify, TypeOK
<1>10. ASSUME NEW t \in Tab, FinishDelete(t)
       PROVE  Inv'
  <2>1. Store(t, NoParade, Idle) /\ tab[t].pc = "delete" /\ ~tab[t].stale
        /\ deleted' = TRUE /\ UNCHANGED <<hasPath, marches, notices, wanted>>
    BY <1>10 DEF FinishDelete, Commits
  <2>2. parade \in Parade /\ \A n \in Parade : ~Says(n)
    BY <2>1, Finishes
  <2>. QED BY <2>1, <2>2, NoParadeAssumption, IdleKnows, WriteStep DEF TypeOK
<1>11. ASSUME NEW t \in Tab, NEW verdict \in Verdicts, AskVerdict(t, verdict)
       PROVE  Inv'
  BY <1>1, <1>11 DEF AskVerdict, Verdicts
<1>12. ASSUME NEW t \in Tab, Decide(t)
       PROVE  Inv'
  <2>. DEFINE row == [tab[t].row EXCEPT !.status = tab[t].pc]
  <2>1. /\ parade \in Parade /\ parade.status = "SUBMITTED" /\ ~parade.draft
        /\ row \in Parade /\ row # parade
        /\ row.content = parade.content /\ row.draft = parade.draft
        /\ Store(t, row, Idle)
    BY <1>12, Decides
  <2>2. ~deleted /\ UNCHANGED <<deleted, hasPath, marches, notices, wanted>>
    BY <1>12, <2>1, NoParadeAssumption DEF Decide, Inv, Exists
  <2>. HIDE DEF row
  <2>. QED BY <2>1, <2>2, IdleKnows, WriteStep DEF TypeOK
<1>13. ASSUME NEW t \in Tab, NEW m \in Member, Apply(t, m)
       PROVE  Inv'
  BY <1>0, <1>13 DEF Apply, TypeOK, Says
<1>14. ASSUME ChangePath \/ \E m \in Member : Withdraw(m)
       PROVE  Inv'
  BY <1>14, OtherStep DEF ChangePath, Withdraw, TypeOK
<1>15. ASSUME UNCHANGED vars
       PROVE  Inv'
  BY <1>15, OtherStep DEF vars, TypeOK
<1>. QED
  BY <1>2, <1>3, <1>4, <1>5, <1>7, <1>8, <1>9, <1>10, <1>11, <1>12, <1>13, <1>14, <1>15
     DEF Next

-----------------------------------------------------------------------------

\* With fresh forms, no request that has begun will take back what was announced, in
\* every reachable state.
THEOREM SessionsKnow == ASSUME FreshForms PROVE Spec => []Inv
<1>1. Init => Inv
  <2>. SUFFICES ASSUME Init PROVE Inv
    OBVIOUS
  <2>1. TypeOK /\ ~Exists /\ \A t \in Tab : tab[t] = Idle
    BY IdleKnows DEF Init, TypeOK, Exists
  <2>2. \A n \in Parade : ~Says(n)
    BY <2>1, IdleKnows DEF Init, Says
  <2>. QED BY <2>1, <2>2, IdleKnows DEF Inv, SaidIsSo
<1>2. Inv /\ [Next]_vars => Inv'
  BY StepKeeps
<1>. QED BY <1>1, <1>2, PTL DEF Spec

\* Every reachable state is well typed.
THEOREM TypeCorrect == ASSUME FreshForms PROVE Spec => []TypeOK
<1>1. Inv => TypeOK
  BY DEF Inv
<1>. QED BY <1>1, SessionsKnow, PTL

\* A parade that was announced is there, final, and says what the notification said.
THEOREM NoticesTrue == ASSUME FreshForms PROVE Spec => []NoticesAreTrue
<1>1. Inv => NoticesAreTrue
  BY DEF Inv, TypeOK, SaidIsSo, Says, NoticesAreTrue
<1>. QED BY <1>1, SessionsKnow, PTL

\* The steps that write the row, and all others.
LEMMA Writers ==
    ASSUME [Next]_vars
    PROVE  \/ \E t \in Tab :
                \/ \E c \in Content :
                      \/ InsertDraft(t, c) \/ InsertFinal(t, c)
                      \/ SendSave(t, c) \/ SendSaveFinal(t, c) \/ SendDelete(t, c)
                \/ FinishSave(t) \/ FinishDelete(t) \/ Decide(t) \/ Notify(t)
           \/ UNCHANGED <<parade, deleted, notices>>
BY DEF Next, vars, OpenNew, OpenEdit, OpenApply, Leave, AskVerdict, Apply, Rollback,
       ChangePath, Withdraw

\* A parade the chapter decided on never changes again.
THEOREM DecidedFrozen == ASSUME FreshForms PROVE Spec => DecidedIsFrozen
<1>1. Inv /\ [Next]_vars => [DecidedIsFrozenStep]_vars
  <2>. SUFFICES ASSUME Inv, [Next]_vars, Exists, parade.status \in Verdicts
                PROVE  UNCHANGED parade
    BY DEF DecidedIsFrozenStep
  <2>1. parade.status # "SUBMITTED"
    BY DEF Verdicts
  <2>2. ASSUME NEW t \in Tab, NEW c \in Content, InsertDraft(t, c) \/ InsertFinal(t, c)
        PROVE  FALSE
    BY <2>2 DEF InsertDraft, InsertFinal
  <2>3. ASSUME NEW t \in Tab, NEW c \in Content,
               SendSave(t, c) \/ SendSaveFinal(t, c) \/ SendDelete(t, c)
        PROVE  FALSE
    BY <2>1, <2>3, Publishes DEF SendSave, SendSaveFinal, SendDelete
  <2>4. ASSUME NEW t \in Tab, FinishSave(t) \/ FinishDelete(t)
        PROVE  FALSE
    BY <2>1, <2>4, Finishes DEF FinishSave, FinishDelete, Commits
  <2>5. ASSUME NEW t \in Tab, Decide(t)
        PROVE  FALSE
    BY <2>1, <2>5, Decides
  <2>6. ASSUME NEW t \in Tab, Notify(t)
        PROVE  UNCHANGED parade
    BY <2>6 DEF Notify
  <2>. QED BY <2>2, <2>3, <2>4, <2>5, <2>6, Writers
<1>. QED BY <1>1, SessionsKnow, PTL DEF Spec, DecidedIsFrozen

-----------------------------------------------------------------------------
(* The requests implement ParadeLife.                                      *)

\* The stages of a parade, read off its row.
StagesRead ==
    /\ parade = NoParade => Stage = IF deleted THEN "deleted" ELSE "none"
    /\ parade \in Parade /\ parade.draft => Stage = "draft"
    /\ parade \in Parade /\ ~parade.draft /\ parade.status = "SUBMITTED" => Stage = "final"
    /\ parade \in Parade /\ ~parade.draft /\ parade.status = "ACCEPTED" => Stage = "accepted"
    /\ parade \in Parade /\ ~parade.draft /\ parade.status = "REJECTED" => Stage = "rejected"

\* What a stage says of the row of the parade.
LEMMA Stages == TypeOK => StagesRead
<1>. SUFFICES ASSUME TypeOK PROVE StagesRead
  OBVIOUS
<1>1. CASE parade = NoParade
  BY <1>1, NoParadeAssumption DEF Stage, StagesRead, Exists, TypeOK
<1>2. CASE parade \in Parade
  BY <1>2, NoParadeAssumption DEF Stage, StagesRead, Exists
<1>. QED BY <1>1, <1>2 DEF TypeOK

\* Every step of a request is one step of the life of the parade, or none.
THEOREM Implements == ASSUME FreshForms PROVE Spec => Lives
<1>1. Init => Life!Init
  BY DEF Init, Life!Init, Exists, Stage
<1>2. StagesRead /\ TypeOK' => StagesRead'
  <2>1. (TypeOK => StagesRead)'
    BY Stages, PTL
  <2>. QED BY <2>1
<1>3. Inv /\ [Next]_vars => [Life!Next]_(Life!vars)
  <2>. SUFFICES ASSUME Inv, [Next]_vars
                PROVE  Life!Next \/ UNCHANGED Life!vars
    BY StepKeeps
  <2>. StagesRead /\ StagesRead'
    BY StepKeeps, Stages, <1>2 DEF Inv
  <2>. DEFINE said == IF Exists THEN parade.content ELSE NoParade
              Unheard == \A n \in Parade : ~Says(n)
  <2>1. Unheard => notices = {}
    BY DEF Says, Inv, TypeOK
  <2>2. ASSUME NEW t \in Tab, NEW c \in Content, InsertDraft(t, c) \/ InsertFinal(t, c)
        PROVE  Life!Next
    <3>1. PICK d \in BOOLEAN : Store(t, Submitted(c, d), tab'[t])
      BY <2>2 DEF InsertDraft, InsertFinal, Store, Inv, TypeOK
    <3>2. ~Exists /\ ~deleted /\ UNCHANGED <<deleted, notices>>
      BY <2>2 DEF InsertDraft, InsertFinal
    <3>3. /\ parade = NoParade /\ parade' \in Parade
          /\ parade'.content = c /\ parade'.draft = d /\ parade'.status = "SUBMITTED"
      BY <3>1, <3>2, Inserts DEF Store
    <3>4. /\ Stage = "none" /\ Stage' \in {"draft", "final"}
          /\ said' = c /\ notices' = notices
      BY <3>2, <3>3, NoParadeAssumption DEF StagesRead, Exists
    <3>5. Life!Create(Stage', c)
      BY <3>4 DEF Life!Create
    <3>. QED BY <3>4, <3>5 DEF Life!Next
  <2>3. ASSUME NEW t \in Tab, NEW c \in Content,
               SendSave(t, c) \/ SendSaveFinal(t, c) \/ SendDelete(t, c)
        PROVE  Life!Next
    <3>1. PICK next : Reconstructs(t, c, next)
      BY <2>3 DEF SendSave, SendSaveFinal, SendDelete
    <3>2. UNCHANGED <<deleted, notices>>
      BY <2>3 DEF SendSave, SendSaveFinal, SendDelete
    <3>3. /\ parade \in Parade /\ parade.draft
          /\ parade' \in Parade /\ parade'.content = c /\ ~parade'.draft
          /\ parade'.status = "SUBMITTED" /\ Unheard
      BY <3>1, Publishes DEF Store
    <3>4. /\ Stage = "draft" /\ Stage' = "final"
          /\ said' = c /\ notices = {} /\ notices' = {}
      BY <2>1, <3>2, <3>3, NoParadeAssumption DEF StagesRead, Exists
    <3>5. Life!Edit("final", c)
      BY <3>4 DEF Life!Edit
    <3>. QED BY <3>5 DEF Life!Next
  <2>4. ASSUME NEW t \in Tab, FinishSave(t)
        PROVE  Life!Next
    <3>1. /\ parade = tab[t].row /\ parade \in Parade /\ parade.status = "SUBMITTED"
          /\ ~parade.draft /\ Unheard
      BY <2>4, Finishes DEF FinishSave, Commits
    <3>2. parade' = [parade EXCEPT !.draft = TRUE] /\ UNCHANGED <<deleted, notices>>
      BY <2>4, <3>1 DEF FinishSave, Commits, Store
    <3>3. /\ parade' \in Parade /\ parade'.draft /\ parade'.content = parade.content
          /\ parade.content \in Content
      BY <3>1, <3>2 DEF Parade
    <3>4. /\ Stage = "final" /\ Stage' = "draft"
          /\ said' = parade.content /\ notices = {} /\ notices' = {}
      BY <2>1, <3>1, <3>2, <3>3, NoParadeAssumption DEF StagesRead, Exists
    <3>5. Life!Edit("draft", parade.content)
      BY <3>4 DEF Life!Edit
    <3>. QED BY <3>3, <3>5 DEF Life!Next
  <2>5. ASSUME NEW t \in Tab, FinishDelete(t)
        PROVE  Life!Next
    <3>1. /\ parade \in Parade /\ parade.status = "SUBMITTED" /\ ~parade.draft /\ Unheard
          /\ parade' = NoParade /\ deleted' = TRUE /\ UNCHANGED notices
      BY <2>5, Finishes DEF FinishDelete, Commits, Store
    <3>2. /\ Stage = "final" /\ Stage' = "deleted"
          /\ said' = NoParade /\ notices = {} /\ notices' = {}
      BY <2>1, <3>1 DEF StagesRead, Exists
    <3>. QED BY <3>2 DEF Life!Next, Life!Delete
  <2>6. ASSUME NEW t \in Tab, Decide(t)
        PROVE  Life!Next
    <3>1. /\ parade \in Parade /\ parade.status = "SUBMITTED" /\ ~parade.draft
          /\ parade' \in Parade /\ parade'.content = parade.content
          /\ parade'.draft = parade.draft /\ parade'.status \in Verdicts
          /\ UNCHANGED notices
      BY <2>6, Decides DEF Decide, Store
    <3>2. /\ Stage = "final" /\ Stage' \in {"accepted", "rejected"}
          /\ said' = said /\ notices' = notices
      BY <3>1, NoParadeAssumption DEF StagesRead, Exists, Verdicts
    <3>3. Life!Decide(Stage')
      BY <3>2 DEF Life!Decide
    <3>. QED BY <3>2, <3>3 DEF Life!Next, Life!Decided
  <2>7. ASSUME NEW t \in Tab, Notify(t)
        PROVE  Life!Next
    <3>1. tab[t].row \in Parade /\ Says(tab[t].row)
      BY <2>7 DEF Notify, Inv, Knows, InTransaction, Says
    <3>2. parade \in Parade /\ ~parade.draft
      BY <3>1 DEF Inv, SaidIsSo, TypeOK, Exists
    <3>3. UNCHANGED <<parade, deleted>> /\ notices' # {}
      BY <2>7 DEF Notify
    <3>4. Stage \in {"final", "accepted", "rejected"}
      BY <3>2 DEF StagesRead, Parade, Verdicts
    <3>5. Stage' = Stage /\ said' = said
      BY <3>3 DEF Stage, Exists
    <3>. QED BY <3>3, <3>4, <3>5 DEF Life!Next, Life!Announce, Life!Decided
  <2>8. ASSUME UNCHANGED <<parade, deleted, notices>>
        PROVE  UNCHANGED Life!vars
    BY <2>8 DEF Life!vars, Stage, Exists
  <2>. QED BY <2>2, <2>3, <2>4, <2>5, <2>6, <2>7, <2>8, Writers
<1>. QED BY <1>1, <1>3, SessionsKnow, PTL DEF Spec, Lives, Life!Spec
=============================================================================
