-------------------------- MODULE MCCouchSessions --------------------------
(* CouchReview for TLC, a session of either kind: without a pool (the      *)
(* constants of the cfg) or bound to one, each with its own acts and       *)
(* bounds.                                                                 *)
EXTENDS MCCouchReview

VARIABLE pooled     \* is the session of this behaviour bound to a pool?

InPool == INSTANCE CouchReview
    WITH Pool <- TRUE, Acts <- MCEditOrSkip, Bound <- MCBoundPool

EitherInit ==
    \/ pooled = FALSE /\ Init
    \/ pooled = TRUE /\ InPool!Init

EitherNext ==
    /\ UNCHANGED pooled
    /\ \/ ~pooled /\ Next
       \/ pooled /\ InPool!Next

EitherSpec == EitherInit /\ [][EitherNext]_<<vars, pooled>>
=============================================================================
