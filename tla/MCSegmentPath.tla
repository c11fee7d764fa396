-------------------------- MODULE MCSegmentPath --------------------------
(* SegmentPath for TLC: which place or which window is which does not      *)
(* matter to any of its properties.                                        *)
EXTENDS SegmentPath, TLC

Symmetry == Permutations(Point) \cup Permutations(Tab)
==========================================================================
