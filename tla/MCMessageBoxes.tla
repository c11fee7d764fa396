-------------------------- MODULE MCMessageBoxes --------------------------
(***************************************************************************)
(* Messages and boxes, of two windows of one actor, who can create boxes,  *)
(* and one of another. In other behaviours the messages rest and their     *)
(* senders are judged: which letters there are decides, in Moderation,     *)
(* nothing.                                                                *)
(***************************************************************************)
EXTENDS MessageBoxes, TLC

CONSTANTS
    ana, ben, a1, a2, b1,
    Judged, JudgeWindow, Profile, NoMark, Nobody

ASSUME JudgedAssumption == NoMark \notin BOOLEAN /\ Profile # {}

VARIABLES
    part,                  \* the component that moves
    rows, banned, judging  \* Moderation

M == INSTANCE Moderation WITH
       Actor <- Judged, Window <- JudgeWindow, NoActor <- Nobody,
       actor <- rows, tab <- judging

Users == (a1 :> ana) @@ (a2 :> ana) @@ (b1 :> ben)

OneExtra == {<<ana, "box1">>}

SameUser == Permutations({a1, a2})

judgements == <<rows, banned, judging>>

SumInit == part \in {"boxes", "moderation"} /\ Init /\ M!Init

SumNext ==
    /\ UNCHANGED part
    /\ \/ part = "boxes" /\ Next /\ UNCHANGED judgements
       \/ part = "moderation" /\ M!Next /\ UNCHANGED vars

SumSpec == SumInit /\ [][SumNext]_<<part, vars, judgements>>

\* The variables of Moderation hold what the code can put there, and sessions know it.
RowsTypeOK == M!TypeOK

\* Whoever is banned was judged by both computations, as his row still says.
BannedWereJudged == M!BannedWereJudged

\* No commit puts back what it had read of columns that are not its own.
NothingPutBack == M!NothingPutBack

=============================================================================
