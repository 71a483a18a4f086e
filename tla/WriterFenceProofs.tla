-------------------------- MODULE WriterFenceProofs --------------------------
(***************************************************************************)
(* Proofs about WriterFence for any finite set of callers.                 *)
(***************************************************************************)
EXTENDS WriterFence, FiniteSetTheorems, TLAPS

(* What a probe has found idle stays idle while the reservation lasts: the *)
(* gates cannot be passed, and a caller that registers late is turned back *)
(* by its recheck.  The counter is probed after the import gate, so that   *)
(* no alignment thread can start behind it.                                *)
ProbedStaysIdle ==
  /\ probe > 0 => phase \in {"ActiveNew", "ActiveArmed"}
  /\ probe > 1 => gates["import"] = "idle"
  /\ probe > 2 => gates["batch"] = "idle"
  /\ probe > 3 => \A c \in Callers : kind[c] = "wsl" => at[c] # "running"
  /\ probe > 4 => \A c \in Callers : kind[c] = "bg" => at[c] # "running"
  /\ probe > 5 => gates["couch"] = "idle"

(* The inductive invariant. *)
IInv == FenceExact /\ ProbedStaysIdle

-----------------------------------------------------------------------------
(* A new registration of caller c adds it to the set, and taking one back *)
(* removes it; the counter follows. *)
LEMMA CountUp ==
  ASSUME NEW S, NEW c, IsFiniteSet(S), c \notin S
  PROVE  Cardinality(S \cup {c}) = Cardinality(S) + 1
BY FS_AddElement

LEMMA CountDown ==
  ASSUME NEW S, NEW c, IsFiniteSet(S), c \in S
  PROVE  Cardinality(S \ {c}) = Cardinality(S) - 1
BY FS_RemoveElement

LEMMA RegisteredFinite ==
  ASSUME NEW k
  PROVE  IsFiniteSet(Registered(k)) /\ Cardinality(Registered(k)) \in Nat
<1>1. Registered(k) \subseteq Callers BY DEF Registered
<1>2. IsFiniteSet(Registered(k)) BY <1>1, CallersAssumption, FS_Subset
<1>. QED BY <1>2, FS_CardinalityType

(* No registration and an idle counter: nobody of that kind runs. *)
LEMMA IdleCounter ==
  ASSUME FenceExact, bgWriters = 0
  PROVE  \A c \in Callers : kind[c] = "bg" => at[c] # "running"
<1>1. Registered("bg") = {} BY RegisteredFinite, FS_EmptySet DEF FenceExact
<1>. QED BY <1>1 DEF Registered

LEMMA InitInv == Init => IInv
<1>. SUFFICES ASSUME Init PROVE IInv OBVIOUS
<1>1. Registered("bg") = {} /\ Registered("wsl") = {} BY DEF Init, Registered
<1>2. Cardinality(Registered("bg")) = 0 BY <1>1, FS_EmptySet
<1>3. bgWriters = Cardinality(Registered("bg")) BY <1>2 DEF Init
<1>4. wsl = (Registered("wsl") # {}) BY <1>1, Zenon DEF Init
<1>5. FenceExact BY <1>1, <1>3, <1>4 DEF Init, FenceExact, Granted
<1>6. ProbedStaysIdle BY DEF Init, ProbedStaysIdle
<1>. QED BY <1>5, <1>6 DEF IInv

(* The steps that leave every registration alone. *)
LEMMA SameRegistrations ==
  ASSUME FenceExact, UNCHANGED <<at, kind, registry>>,
         phase' \in {"Idle", "ActiveNew", "ActiveArmed", "Parked"},
         probe' \in 0 .. Granted,
         gates' \in [Gates -> {"idle", "checked", "running"}]
  PROVE  FenceExact'
<1>1. \A k : Registered(k)' = Registered(k) BY DEF Registered
<1>. QED BY <1>1 DEF FenceExact, registry

LEMMA GateStep ==
  ASSUME IInv, NEW g \in Gates,
         GateCheck(g) \/ GateEnter(g) \/ GateGivesUp(g) \/ GateFinish(g)
  PROVE  IInv'
<1>. USE DEF GateCheck, GateEnter, GateGivesUp, GateFinish, restore
<1>1. FenceExact' BY SameRegistrations DEF IInv, FenceExact
<1>2. ProbedStaysIdle' BY DEF IInv, FenceExact, ProbedStaysIdle, Pending, Gates
<1>. QED BY <1>1, <1>2 DEF IInv

LEMMA RestoreStep ==
  ASSUME IInv, (\E recovery \in BOOLEAN : Reserve(recovery)) \/ Probe \/ Arm \/ End
  PROVE  IInv'
<1>1. CASE \E recovery \in BOOLEAN : Reserve(recovery)
  <2>1. FenceExact' BY <1>1, SameRegistrations DEF IInv, FenceExact, Reserve, Granted
  <2>2. ProbedStaysIdle' BY <1>1 DEF IInv, ProbedStaysIdle, Reserve
  <2>. QED BY <2>1, <2>2 DEF IInv
<1>2. CASE Probe
  <2>1. FenceExact' BY <1>2, SameRegistrations DEF IInv, FenceExact, Probe, Drop, Granted
  <2>2. CASE probe' = 0 BY <2>1, <2>2 DEF IInv, ProbedStaysIdle
  <2>3. CASE ~Busy(probe) /\ probe' = probe + 1 /\ UNCHANGED <<phase, gates, registry, at, kind>>
    <3>1. probe \in 1 .. 5 /\ Readable(probe) BY <1>2 DEF Probe
    <3>2. gates["import"] \in {"idle", "checked", "running"}
          /\ gates["batch"] \in {"idle", "checked", "running"}
          /\ gates["couch"] \in {"idle", "checked", "running"}
      BY DEF IInv, FenceExact, Gates
    <3>3. probe = 3 => \A c \in Callers : kind[c] = "wsl" => at[c] # "running"
      BY <2>3 DEF Busy, IInv, FenceExact, Registered
    <3>4. probe = 4 => \A c \in Callers : kind[c] = "bg" => at[c] # "running"
      BY <2>3, IdleCounter DEF Busy, IInv, FenceExact
    <3>5. ProbedStaysIdle'
      BY <2>3, <3>1, <3>2, <3>3, <3>4 DEF IInv, ProbedStaysIdle, Busy, Readable
    <3>. QED BY <2>1, <3>5 DEF IInv
  <2>. QED BY <1>2, <2>2, <2>3 DEF Probe, Drop
<1>3. CASE Arm
  <2>1. FenceExact' BY <1>3, SameRegistrations DEF IInv, FenceExact, Arm, Granted
  <2>2. ProbedStaysIdle' BY <1>3 DEF IInv, ProbedStaysIdle, Arm
  <2>. QED BY <2>1, <2>2 DEF IInv
<1>4. CASE End
  <2>1. FenceExact' BY <1>4, SameRegistrations DEF IInv, FenceExact, End, Drop, Granted
  <2>2. ProbedStaysIdle' BY <1>4 DEF ProbedStaysIdle, End, Drop
  <2>. QED BY <2>1, <2>2 DEF IInv
<1>. QED BY <1>1, <1>2, <1>3, <1>4

(* A caller outside the registry moves: the registrations stay. *)
LEMMA CheckStep ==
  ASSUME IInv, NEW c \in Callers, NEW k \in {"wsl", "bg"}, Check(c, k)
  PROVE  IInv'
<1>1. \A j : Registered(j)' = Registered(j)
  BY DEF Check, Registered, IInv, FenceExact
<1>2. FenceExact' BY <1>1 DEF Check, IInv, FenceExact, restore, registry
<1>3. ProbedStaysIdle' BY DEF Check, IInv, FenceExact, ProbedStaysIdle, restore
<1>. QED BY <1>2, <1>3 DEF IInv

LEMMA RegisterStep ==
  ASSUME IInv, NEW c \in Callers, Register(c)
  PROVE  IInv'
<1>1. ProbedStaysIdle' BY DEF Register, IInv, FenceExact, ProbedStaysIdle, restore
<1>2. CASE kind[c] = "wsl" /\ wsl
  <2>1. \A j : Registered(j)' = Registered(j)
    BY <1>2 DEF Register, Registered, IInv, FenceExact
  <2>. QED BY <1>1, <1>2, <2>1 DEF Register, IInv, FenceExact, restore, registry
<1>3. CASE kind[c] = "wsl" /\ ~wsl
  <2>1. Registered("bg")' = Registered("bg") /\ Registered("wsl")' = Registered("wsl") \cup {c}
    BY <1>3 DEF Register, Registered, IInv, FenceExact
  <2>2. Registered("wsl") = {} BY <1>3 DEF IInv, FenceExact
  <2>. QED BY <1>1, <1>3, <2>1, <2>2 DEF Register, IInv, FenceExact, restore, registry
<1>4. CASE kind[c] = "bg"
  <2>1. Registered("wsl")' = Registered("wsl") /\ Registered("bg")' = Registered("bg") \cup {c}
    BY <1>4 DEF Register, Registered, IInv, FenceExact
  <2>2. c \notin Registered("bg") BY DEF Register, Registered
  <2>3. Cardinality(Registered("bg"))' = Cardinality(Registered("bg")) + 1
    BY <2>1, <2>2, RegisteredFinite, CountUp
  <2>. QED BY <1>1, <1>4, <2>1, <2>3 DEF Register, IInv, FenceExact, restore, registry
<1>. QED BY <1>2, <1>3, <1>4 DEF Register

(* Taking a registration back keeps the fence exact. *)
LEMMA UnregisterExact ==
  ASSUME FenceExact, NEW c \in Callers, at[c] \in {"published", "running"},
         at' = [at EXCEPT ![c] = "idle"], Unregister(c),
         UNCHANGED <<phase, probe, gates, kind>>
  PROVE  FenceExact'
<1>1. CASE kind[c] = "wsl"
  <2>1. Registered("bg")' = Registered("bg") BY <1>1 DEF Registered, FenceExact
  <2>2. Registered("wsl") = {c} BY <1>1 DEF Registered, FenceExact
  <2>3. Registered("wsl")' = {} BY <1>1, <2>2 DEF Registered, FenceExact
  <2>. QED BY <1>1, <2>1, <2>3 DEF Unregister, FenceExact
<1>2. CASE kind[c] = "bg"
  <2>1. Registered("wsl")' = Registered("wsl") /\ Registered("bg")' = Registered("bg") \ {c}
    BY <1>2 DEF Registered, FenceExact
  <2>2. c \in Registered("bg") BY <1>2 DEF Registered
  <2>3. Cardinality(Registered("bg"))' = Cardinality(Registered("bg")) - 1
    BY <2>1, <2>2, RegisteredFinite, CountDown
  <2>4. Cardinality(Registered("bg"))' \in Nat
    <3>1. IsFiniteSet(Registered("bg") \ {c}) BY RegisteredFinite, FS_Subset
    <3>. QED BY <2>1, <3>1, FS_CardinalityType
  <2>. QED BY <1>2, <2>1, <2>3, <2>4 DEF Unregister, FenceExact
<1>. QED BY <1>1, <1>2 DEF FenceExact

LEMMA RecheckStep ==
  ASSUME IInv, NEW c \in Callers, Recheck(c)
  PROVE  IInv'
<1>1. CASE RefusedAgain
  <2>1. FenceExact' BY <1>1, UnregisterExact DEF Recheck, IInv, restore
  <2>2. ProbedStaysIdle' BY <1>1 DEF Recheck, IInv, FenceExact, ProbedStaysIdle, restore
  <2>. QED BY <2>1, <2>2 DEF IInv
<1>2. CASE ~RefusedAgain
  <2>1. \A j : Registered(j)' = Registered(j)
    BY <1>2 DEF Recheck, Registered, IInv, FenceExact
  <2>2. FenceExact' BY <1>2, <2>1 DEF Recheck, IInv, FenceExact, restore, registry
  <2>3. probe = 0 BY <1>2 DEF RefusedAgain, Pending, IInv, FenceExact, ProbedStaysIdle, Granted
  <2>4. ProbedStaysIdle' BY <2>3 DEF Recheck, ProbedStaysIdle, restore
  <2>. QED BY <2>2, <2>4 DEF IInv
<1>. QED BY <1>1, <1>2

LEMMA AlignStep ==
  ASSUME IInv, NEW c \in Callers, Align(c)
  PROVE  IInv'
<1>1. Registered("wsl")' = Registered("wsl") /\ Registered("bg")' = Registered("bg") \cup {c}
  BY DEF Align, Registered, IInv, FenceExact
<1>2. c \notin Registered("bg") BY DEF Align, Registered
<1>3. Cardinality(Registered("bg"))' = Cardinality(Registered("bg")) + 1
  BY <1>1, <1>2, RegisteredFinite, CountUp
<1>4. FenceExact' BY <1>1, <1>3 DEF Align, IInv, FenceExact, restore
<1>5. ProbedStaysIdle' BY DEF Align, IInv, FenceExact, ProbedStaysIdle, Granted, restore
<1>. QED BY <1>4, <1>5 DEF IInv

LEMMA FinishStep ==
  ASSUME IInv, NEW c \in Callers, Finish(c)
  PROVE  IInv'
<1>1. FenceExact' BY UnregisterExact DEF Finish, IInv, restore
<1>2. ProbedStaysIdle' BY DEF Finish, IInv, FenceExact, ProbedStaysIdle, restore
<1>. QED BY <1>1, <1>2 DEF IInv

LEMMA StutterStep ==
  ASSUME IInv, UNCHANGED vars
  PROVE  IInv'
<1>1. FenceExact' BY SameRegistrations DEF IInv, FenceExact, vars, registry
<1>2. ProbedStaysIdle' BY DEF IInv, ProbedStaysIdle, vars
<1>. QED BY <1>1, <1>2 DEF IInv

LEMMA NextInv == IInv /\ [Next]_vars => IInv'
BY GateStep, CheckStep, RegisterStep, RecheckStep, AlignStep, FinishStep, RestoreStep, StutterStep
   DEF Next

(* The inductive invariant holds in every reachable state. *)
THEOREM FenceInvariant == Spec => []IInv
BY InitInv, NextInv, PTL DEF Spec

(* The flag and the counter stand for exactly the registered writers, for   *)
(* any number of overlapping callers (BgDbWriterGuard, WSL_REFINE_RUNNING). *)
THEOREM FenceIsExact == Spec => []FenceExact
<1>1. IInv => FenceExact BY DEF IInv
<1>. QED BY <1>1, FenceInvariant, PTL

(* No background writer runs while a restore owns the library, for any     *)
(* number of callers (prepare_restore_admission_with, writers_active).     *)
THEOREM FenceIsSafe == Spec => []FenceHolds
<1>1. IInv => FenceHolds
  <2>. SUFFICES ASSUME IInv, probe = Granted PROVE FenceHolds BY DEF FenceHolds
  <2>1. \A g \in Gates : gates[g] = "idle" BY DEF IInv, ProbedStaysIdle, Gates, Granted
  <2>2. \A c \in Callers : at[c] # "running"
    BY DEF IInv, FenceExact, ProbedStaysIdle, Granted
  <2>. QED BY <2>1, <2>2 DEF FenceHolds
<1>. QED BY <1>1, FenceInvariant, PTL
=============================================================================
