---------------------------- MODULE ParadeLife ----------------------------
(***************************************************************************)
(* What the life of a parade promises to the people who follow it: a       *)
(* parade that has been announced is final and stays what it was until the *)
(* chapter of its zone decides on it, and a decision is for ever.          *)
(* ParadeLifecycle, the requests the code makes of it, implements this.    *)
(***************************************************************************)
CONSTANTS
    Content,    \* what a parade says of itself: title and description
    Nothing     \* what is said of a parade that is not there

VARIABLES
    stage,      \* where the parade is in its life
    content,    \* what it says
    announced   \* the notification of its publication was sent

vars == <<stage, content, announced>>

Decided == {"accepted", "rejected"}

Init ==
    /\ stage = "none"
    /\ content = Nothing
    /\ announced = FALSE

Create(s, c) ==
    /\ stage = "none"
    /\ stage' = s
    /\ content' = c
    /\ UNCHANGED announced

\* A draft, and a final parade nobody was told of yet, can still become the other.
Edit(s, c) ==
    /\ stage \in {"draft", "final"}
    /\ ~announced
    /\ stage' = s
    /\ content' = c
    /\ UNCHANGED announced

Announce ==
    /\ stage \in {"final"} \cup Decided
    /\ announced' = TRUE
    /\ UNCHANGED <<stage, content>>

Decide(verdict) ==
    /\ stage = "final"
    /\ stage' = verdict
    /\ UNCHANGED <<content, announced>>

Delete ==
    /\ stage \in {"draft", "final"}
    /\ ~announced
    /\ stage' = "deleted"
    /\ content' = Nothing
    /\ UNCHANGED announced

Next ==
    \/ \E s \in {"draft", "final"}, c \in Content : Create(s, c) \/ Edit(s, c)
    \/ Announce
    \/ \E verdict \in Decided : Decide(verdict)
    \/ Delete

Spec == Init /\ [][Next]_vars
===========================================================================
