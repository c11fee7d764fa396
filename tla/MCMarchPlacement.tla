------------------------- MODULE MCMarchPlacement -------------------------
(* MarchPlacement for TLC: which member or window is which does not matter *)
(* to any of its safety properties.                                        *)
EXTENDS MarchPlacement, TLC

Symmetry == Permutations(Member) \cup Permutations(Window)
===========================================================================
