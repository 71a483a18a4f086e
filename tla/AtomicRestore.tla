---------------------------- MODULE AtomicRestore ----------------------------
(***************************************************************************)
(* What a restore promises, without files, crashes or steps.  The library  *)
(* (the database and the configuration files of the dataset) is open for   *)
(* ordinary work or shut.  A restore happens while it is shut: when it is  *)
(* open again, the library is what it was or what one snapshot makes of    *)
(* it, in full, and never a mixture.  The promise is void once a power     *)
(* loss has brought back what was taken for overwritten.                   *)
(***************************************************************************)
CONSTANTS
  Contents,           \* the contents a library can have
  Outcomes(_, _)      \* what restores make of a library, given its past ones

VARIABLES
  open,      \* ordinary work is admitted
  library,   \* the content last seen open
  past,      \* the contents before earlier restores
  relapsed   \* the promise is void

vars == <<open, library, past, relapsed>>

Init ==
  /\ open = FALSE
  /\ library \in Contents
  /\ past \subseteq Contents
  /\ relapsed = FALSE

Edit ==
  /\ open
  /\ library' \in Contents
  /\ UNCHANGED <<open, past>>

Shut ==
  /\ open
  /\ open' = FALSE
  /\ past' = past \cup {library}
  /\ UNCHANGED library

Reopen ==
  /\ ~open
  /\ open' = TRUE
  /\ library' \in Outcomes(library, past)
  /\ UNCHANGED past

Keep == ~relapsed' /\ (Edit \/ Shut \/ Reopen)
Void == relapsed'

Next == Keep \/ Void

Spec == Init /\ [][Next]_vars
=============================================================================
