---------------------------- MODULE MCReviewDraft ----------------------------
(* ReviewDraft for TLC: three threads, one segment, two operation ids. *)
EXTENDS ReviewDraft, TLC

CONSTANTS t1, t2, t3, o1, o2, s1

MCThreads == {t1, t2, t3}
MCOperations == {o1, o2}
MCSegments == {s1}
Symmetry == Permutations(MCThreads) \cup Permutations(MCOperations)
=============================================================================
