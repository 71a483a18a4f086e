---------------------------- MODULE MCWriterFence ----------------------------
(* WriterFence for TLC: three interchangeable callers. *)
EXTENDS WriterFence, TLC

CONSTANTS c1, c2, c3

MCCallers == {c1, c2, c3}
Symmetry == Permutations(MCCallers)
=============================================================================
