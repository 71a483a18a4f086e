----------------------------- MODULE WriterFence -----------------------------
(***************************************************************************)
(* The fence between database restores and the background writers that     *)
(* work outside the RestoreAdmission: import, batch and Couch Review       *)
(* behind a gate of their own, the WSL 7B refinement behind an atomic      *)
(* flag, and the writers behind the BG_DB_WRITERS counter (the listening   *)
(* judge and the detached alignment thread of an import).                  *)
(*                                                                         *)
(* A restore reserves first and then probes the five sources one after the *)
(* other (prepare_restore_admission_with, AppState::writers_active).  A    *)
(* gated writer checks and registers under the lock its probe takes; the   *)
(* others publish their registration and then re-read the reservation.     *)
(* The pending flag and the phase are written together under the admission *)
(* mutex, so one variable stands for both here; RestoreAdmission has both. *)
(***************************************************************************)
EXTENDS Naturals, FiniteSets

CONSTANT Callers     \* commands and threads that may become a background writer

ASSUME CallersAssumption == IsFiniteSet(Callers)

VARIABLES
  phase,       \* RestoreAdmissionState.phase
  probe,       \* the next source the restore probes, 0 without a reservation
  gates,       \* import_state, batch_state and COUCH
  wsl,         \* WSL_REFINE_RUNNING
  bgWriters,   \* BG_DB_WRITERS
  at,          \* where each caller is
  kind         \* how each caller registers

vars == <<phase, probe, gates, wsl, bgWriters, at, kind>>
restore == <<phase, probe>>
registry == <<wsl, bgWriters>>

Gates == {"import", "batch", "couch"}
Granted == 6

\* restore_pending.
Pending == phase # "Idle"

Init ==
  /\ phase = "Idle" /\ probe = 0
  /\ gates = [g \in Gates |-> "idle"]
  /\ wsl = FALSE /\ bgWriters = 0
  /\ at = [c \in Callers |-> "idle"]
  /\ kind = [c \in Callers |-> "bg"]

-----------------------------------------------------------------------------
(* Gated writers: the check and the registration are one critical section. *)

\* The gate's lock is taken and no restore is pending.
GateCheck(g) ==
  /\ gates[g] = "idle" /\ ~Pending
  /\ gates' = [gates EXCEPT ![g] = "checked"]
  /\ UNCHANGED <<restore, registry, at, kind>>

GateEnter(g) ==
  /\ gates[g] = "checked"
  /\ gates' = [gates EXCEPT ![g] = "running"]
  /\ UNCHANGED <<restore, registry, at, kind>>

\* The start fails for another reason and gives the lock back.
GateGivesUp(g) ==
  /\ gates[g] = "checked"
  /\ gates' = [gates EXCEPT ![g] = "idle"]
  /\ UNCHANGED <<restore, registry, at, kind>>

GateFinish(g) ==
  /\ gates[g] = "running"
  /\ gates' = [gates EXCEPT ![g] = "idle"]
  /\ UNCHANGED <<restore, registry, at, kind>>

-----------------------------------------------------------------------------
(* Writers that publish and recheck. *)

\* Takes the registration of c back; the mutant forgets to.
KeepRegistration(c) == UNCHANGED registry
Unregister(c) ==
  IF kind[c] = "wsl" THEN wsl' = FALSE /\ UNCHANGED bgWriters
                     ELSE bgWriters' = bgWriters - 1 /\ UNCHANGED wsl

Check(c, k) ==
  /\ at[c] = "idle" /\ ~Pending
  /\ at' = [at EXCEPT ![c] = "checked"]
  /\ kind' = [kind EXCEPT ![c] = k]
  /\ UNCHANGED <<restore, gates, registry>>

\* The flag is swapped in, or found set by another run; the counter counts up.
Register(c) ==
  /\ at[c] = "checked"
  /\ \/ /\ kind[c] = "wsl" /\ wsl
        /\ at' = [at EXCEPT ![c] = "idle"] /\ UNCHANGED registry
     \/ /\ kind[c] = "wsl" /\ ~wsl
        /\ at' = [at EXCEPT ![c] = "published"]
        /\ wsl' = TRUE /\ UNCHANGED bgWriters
     \/ /\ kind[c] = "bg"
        /\ at' = [at EXCEPT ![c] = "published"]
        /\ bgWriters' = bgWriters + 1 /\ UNCHANGED wsl
  /\ UNCHANGED <<restore, gates, kind>>

\* The recheck; the mutant goes on without one.
NeverRefused == FALSE
RefusedAgain == Pending

Recheck(c) ==
  /\ at[c] = "published"
  /\ \/ /\ RefusedAgain
        /\ at' = [at EXCEPT ![c] = "idle"] /\ Unregister(c)
     \/ /\ ~RefusedAgain
        /\ at' = [at EXCEPT ![c] = "running"] /\ UNCHANGED registry
  /\ UNCHANGED <<restore, gates, kind>>

\* A running import enqueues an alignment thread, registered before it starts;
\* the thread outlives the import.
Align(c) ==
  /\ gates["import"] = "running" /\ at[c] = "idle"
  /\ at' = [at EXCEPT ![c] = "running"]
  /\ kind' = [kind EXCEPT ![c] = "bg"]
  /\ bgWriters' = bgWriters + 1
  /\ UNCHANGED <<restore, gates, wsl>>

Finish(c) ==
  /\ at[c] = "running"
  /\ at' = [at EXCEPT ![c] = "idle"] /\ Unregister(c)
  /\ UNCHANGED <<restore, gates, kind>>

-----------------------------------------------------------------------------
(* The restore. *)

Reserve(recovery) ==
  /\ phase = "Idle" \/ (phase = "Parked" /\ recovery)
  /\ phase' = IF recovery THEN "ActiveArmed" ELSE "ActiveNew"
  /\ probe' = 1
  /\ UNCHANGED <<gates, registry, at, kind>>

\* The operands of writers_active, in its order; the mutant reads the counter
\* before the import gate.
BusyReordered(i) ==
  \/ i = 1 /\ bgWriters > 0
  \/ i = 2 /\ gates["batch"] = "running"
  \/ i = 3 /\ wsl
  \/ i = 4 /\ gates["import"] = "running"
  \/ i = 5 /\ gates["couch"] = "running"
Busy(i) ==
  \/ i = 1 /\ gates["import"] = "running"
  \/ i = 2 /\ gates["batch"] = "running"
  \/ i = 3 /\ wsl
  \/ i = 4 /\ bgWriters > 0
  \/ i = 5 /\ gates["couch"] = "running"

\* A probe of a gate waits for its lock.
Readable(i) ==
  /\ i = 1 => gates["import"] # "checked"
  /\ i = 2 => gates["batch"] # "checked"
  /\ i = 5 => gates["couch"] # "checked"

\* RestoreReservation::drop.
Drop ==
  /\ phase' = IF phase = "ActiveArmed" THEN "Parked" ELSE "Idle"
  /\ probe' = 0

Probe ==
  /\ probe \in 1 .. 5 /\ Readable(probe)
  /\ \/ Busy(probe) /\ Drop
     \/ ~Busy(probe) /\ probe' = probe + 1 /\ UNCHANGED phase
  /\ UNCHANGED <<gates, registry, at, kind>>

\* A named restore crosses its commit boundary.
Arm ==
  /\ probe = Granted /\ phase = "ActiveNew"
  /\ phase' = "ActiveArmed"
  /\ UNCHANGED <<probe, gates, registry, at, kind>>

\* The restore ends: committed, or its reservation dropped.
End ==
  /\ probe = Granted
  /\ \/ phase = "ActiveArmed" /\ phase' = "Idle" /\ probe' = 0
     \/ Drop
  /\ UNCHANGED <<gates, registry, at, kind>>

Next ==
  \/ \E g \in Gates : GateCheck(g) \/ GateEnter(g) \/ GateGivesUp(g) \/ GateFinish(g)
  \/ \E c \in Callers :
       \/ \E k \in {"wsl", "bg"} : Check(c, k)
       \/ Register(c) \/ Recheck(c) \/ Align(c) \/ Finish(c)
  \/ \E recovery \in BOOLEAN : Reserve(recovery)
  \/ Probe \/ Arm \/ End

Spec == Init /\ [][Next]_vars

-----------------------------------------------------------------------------
(* Properties. *)

\* The callers registered as k.
Registered(k) == {c \in Callers : kind[c] = k /\ at[c] \in {"published", "running"}}

\* Types; and the fence is armed for exactly the lifetime of the registrations:
\* no refusal or exit leaves one behind, which would refuse restores for good,
\* and overlapping writers do not take each other's down.
FenceExact ==
  /\ phase \in {"Idle", "ActiveNew", "ActiveArmed", "Parked"}
  /\ probe \in 0 .. Granted
  /\ gates \in [Gates -> {"idle", "checked", "running"}]
  /\ at \in [Callers -> {"idle", "checked", "published", "running"}]
  /\ kind \in [Callers -> {"wsl", "bg"}]
  /\ wsl \in BOOLEAN /\ bgWriters \in Nat
  /\ bgWriters = Cardinality(Registered("bg"))
  /\ wsl = (Registered("wsl") # {})
  /\ \A c, d \in Registered("wsl") : c = d

\* Once a restore has probed all sources and until it ends, no background writer
\* runs: whatever started, finished, was handed over or was refused while the
\* five probes were under way, no late write can reach the restored library.
FenceHolds ==
  probe = Granted =>
    /\ \A g \in Gates : gates[g] = "idle"
    /\ \A c \in Callers : at[c] # "running"
=============================================================================
