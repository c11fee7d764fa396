------------------------------ MODULE PathStack ------------------------------
(***************************************************************************)
(* What the path of a parade promises to those who will walk it: it is a   *)
(* stack of legs. It goes on from its last leg, only that leg is changed   *)
(* or taken back, and then the one before it is the last again.            *)
(* SegmentPath, the requests the code makes of it, implements this while   *)
(* they come one at a time.                                                *)
(***************************************************************************)
EXTENDS Integers

CONSTANTS
    Point,   \* places
    Id       \* what tells one leg from another, in the order they are added

VARIABLES
    legs,    \* of each id in use, the leg
    ends     \* where the path can be changed: the id of its last leg, if it has any

vars == <<legs, ends>>

Leg == [origin : Point, dest : Point, timely : BOOLEAN]

Init == DOMAIN legs = {} /\ ends = {}

Put(n, leg) == legs' = [m \in DOMAIN legs \cup {n} |-> IF m = n THEN leg ELSE legs[m]]

Begin(n, leg) ==
    /\ DOMAIN legs = {}
    /\ Put(n, leg)
    /\ ends' = {n}

\* The new leg starts where the last one ends.
Extend(s, n, leg) ==
    /\ ends = {s}
    /\ leg.origin = legs[s].dest
    /\ \A m \in DOMAIN legs : m < n
    /\ Put(n, leg)
    /\ ends' = {n}

\* Nobody moves the start of a leg, nor gives it times in the wrong order.
Amend(s, d) ==
    /\ ends = {s}
    /\ Put(s, [origin |-> legs[s].origin, dest |-> d, timely |-> TRUE])
    /\ UNCHANGED ends

Remove(s) ==
    /\ ends = {s}
    /\ legs' = [m \in DOMAIN legs \ {s} |-> legs[m]]
    /\ ends' = {p \in DOMAIN legs' : \A m \in DOMAIN legs' : m <= p}

Next ==
    \/ \E n \in Id, leg \in Leg : Begin(n, leg) \/ \E s \in Id : Extend(s, n, leg)
    \/ \E s \in Id, d \in Point : Amend(s, d)
    \/ \E s \in Id : Remove(s)

Spec == Init /\ [][Next]_vars
=============================================================================
