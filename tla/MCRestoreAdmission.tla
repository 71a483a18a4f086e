------------------------- MODULE MCRestoreAdmission -------------------------
(* RestoreAdmission for TLC: three threads, two reservations. *)
EXTENDS RestoreAdmission

CONSTANTS t1, t2, t3

MCThreads == {t1, t2, t3}
=============================================================================
