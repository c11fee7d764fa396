------------------------ MODULE MCParadeLifecycle ------------------------
(* ParadeLifecycle for TLC: which content, window or member is which does  *)
(* not matter to any of its properties.                                    *)
EXTENDS ParadeLifecycle, TLC

Symmetry == Permutations(Content) \cup Permutations(Tab) \cup Permutations(Member)
==========================================================================
