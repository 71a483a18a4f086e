------------------------ MODULE RestoreAdmissionProofs ------------------------
(***************************************************************************)
(* Proofs about RestoreAdmission for any finite set of threads, any        *)
(* MaxGeneration and any ReadCapacity.                                     *)
(***************************************************************************)
EXTENDS RestoreAdmission, FiniteSetTheorems, TLAPS

(* The threads that are, under program counters f, at a label of S. *)
At(f, S) == {u \in Threads : f[u] \in S}

(* The two counters count the guards that exist. *)
Counted ==
  /\ captures = Cardinality(At(pc, CapturePCs))
  /\ mutations = Cardinality(At(pc, MutationPCs))

(* The atomic flag and the phase under the mutex agree. *)
FlagFollowsPhase == pending = (phase # "Idle")

(* The only thread that restores is the one whose reservation is current; *)
(* once it has been granted nobody else has authority. *)
RestorerAlone ==
  \A t \in Threads : pc[t] \in GrantedPCs \cup {"draining"} =>
    /\ IsActive(t)
    /\ \A u \in Threads : u # t => pc[u] \notin GrantedPCs \cup {"draining"}
    /\ pc[t] # "draining" =>
         \A u \in Threads : pc[u] \notin CapturePCs \cup MutationPCs

(* The admission mutex is kept by the thread that waits for the writer in *)
(* `lock`, and then no restore is pending. *)
AdmissionKept ==
  \A t \in Threads :
    /\ admOwner = t <=> pc[t] = "lockTake"
    /\ admOwner = t => phase = "Idle"

(* A captured generation is never ahead; it is behind as soon as a restore *)
(* is reserved; while it is current, so is the database it was captured on. *)
TokensFresh ==
  \A k \in tokens :
    /\ k.gen <= generation
    /\ phase # "Idle" => k.gen < generation
    /\ k.gen = generation => k.epoch = epoch

(* Guards were taken on the database that is live now. *)
GuardsFresh ==
  \A t \in Threads : pc[t] \in CapturePCs \cup MutationPCs => seen[t] = epoch

(* A committed reservation that is not dropped yet is current only as long *)
(* as no other restore has begun, so its drop has nothing left to do. *)
ReservationSpent ==
  \A t \in Threads : pc[t] = "finished" =>
    gen[t] <= generation /\ (gen[t] = generation => phase = "Idle")

IInv ==
  /\ TypeOK
  /\ Counted
  /\ FlagFollowsPhase
  /\ RestorerAlone
  /\ AdmissionKept
  /\ NoLostWakeup
  /\ TokensFresh
  /\ GuardsFresh
  /\ ReservationSpent

-----------------------------------------------------------------------------
(* Counting guards. *)

LEMMA AtFinite ==
  ASSUME NEW f, NEW S
  PROVE  IsFiniteSet(At(f, S)) /\ Cardinality(At(f, S)) \in Nat
BY ThreadsAssumption, FS_Subset, FS_CardinalityType DEF At

(* What a thread's move from label a to label b does to the number x of threads in S. *)
Recount(x, a, b, S) ==
  x + (IF b \in S THEN 1 ELSE 0) - (IF a \in S THEN 1 ELSE 0)

LEMMA RecountAt ==
  ASSUME NEW f \in [Threads -> PCs], NEW S, NEW t \in Threads, NEW l
  PROVE  Cardinality(At([f EXCEPT ![t] = l], S)) = Recount(Cardinality(At(f, S)), f[t], l, S)
<1>0. Cardinality(At(f, S)) \in Nat
  BY AtFinite
<1>1. CASE f[t] \notin S /\ l \in S
  <2>1. At([f EXCEPT ![t] = l], S) = At(f, S) \cup {t} /\ t \notin At(f, S)
    BY <1>1 DEF At
  <2>2. Cardinality(At(f, S) \cup {t}) = Cardinality(At(f, S)) + 1
    BY <2>1, AtFinite, FS_AddElement
  <2>3. Recount(Cardinality(At(f, S)), f[t], l, S) = Cardinality(At(f, S)) + 1
    BY <1>0, <1>1 DEF Recount
  <2> QED
    BY <2>1, <2>2, <2>3
<1>2. CASE f[t] \in S /\ l \notin S
  <2>1. At([f EXCEPT ![t] = l], S) = At(f, S) \ {t} /\ t \in At(f, S)
    BY <1>2 DEF At
  <2>2. Cardinality(At(f, S) \ {t}) = Cardinality(At(f, S)) - 1
    BY <2>1, AtFinite, FS_RemoveElement
  <2>3. Recount(Cardinality(At(f, S)), f[t], l, S) = Cardinality(At(f, S)) - 1
    BY <1>0, <1>2 DEF Recount
  <2> QED
    BY <2>1, <2>2, <2>3
<1>3. CASE f[t] \in S <=> l \in S
  <2>1. At([f EXCEPT ![t] = l], S) = At(f, S)
    BY <1>3 DEF At
  <2> QED
    BY <1>0, <1>3, <2>1 DEF Recount
<1> QED
  BY <1>1, <1>2, <1>3

(* Thread t moves to label l and the counters follow. *)
Moves(t, l) ==
  /\ pc' = [pc EXCEPT ![t] = l]
  /\ captures' = Recount(captures, pc[t], l, CapturePCs)
  /\ mutations' = Recount(mutations, pc[t], l, MutationPCs)

LEMMA CountedMoves ==
  ASSUME TypeOK, Counted, NEW t \in Threads, NEW l \in PCs, Moves(t, l)
  PROVE  Counted'
<1>1. pc \in [Threads -> PCs]
  BY DEF TypeOK
<1>2. /\ Cardinality(At(pc', CapturePCs)) = Recount(Cardinality(At(pc, CapturePCs)), pc[t], l, CapturePCs)
      /\ Cardinality(At(pc', MutationPCs)) = Recount(Cardinality(At(pc, MutationPCs)), pc[t], l, MutationPCs)
  BY <1>1, RecountAt DEF Moves
<1> QED
  BY <1>2 DEF Counted, Moves

(* A counter is zero exactly when nobody holds a guard of its kind. *)
LEMMA CountersZero ==
  ASSUME Counted
  PROVE  /\ captures = 0 <=> \A u \in Threads : pc[u] \notin CapturePCs
         /\ mutations = 0 <=> \A u \in Threads : pc[u] \notin MutationPCs
<1>1. /\ captures = 0 <=> At(pc, CapturePCs) = {}
      /\ mutations = 0 <=> At(pc, MutationPCs) = {}
  BY AtFinite, FS_EmptySet DEF Counted
<1> QED
  BY <1>1 DEF At

-----------------------------------------------------------------------------
(* Every action preserves IInv. *)
USE DEF PCs, CapturePCs, MutationPCs, PermitPCs, WriterPCs, GrantedPCs, Phases, Active
USE DEF Goto, Admit, AdmissionFree, NotifyAll, locks, observed

LEMMA LockCheckStep ==
  ASSUME IInv, NEW t \in Threads, LockCheck(t)
  PROVE  IInv'
<1>1. TypeOK /\ Counted
  BY DEF IInv
<1>2. \E l \in PCs : Moves(t, l)
  BY <1>1 DEF TypeOK, Moves, Recount, LockCheck, MustWait
<1>2a. Counted'
  BY <1>1, <1>2, CountedMoves
<1>3. TypeOK' /\ FlagFollowsPhase'
  BY <1>1 DEF IInv, TypeOK, FlagFollowsPhase, LockCheck, MustWait
<1>3a. AdmissionKept'
  <2>1. CASE pending
    BY <1>1, <2>1 DEF IInv, TypeOK, AdmissionKept, LockCheck, MustWait
  <2>2. CASE ~pending
    <3>1. phase = "Idle"
      BY <2>2 DEF IInv, FlagFollowsPhase
    <3>2. \A u \in Threads : pc[u] # "lockTake"
      BY ThreadsAssumption DEF IInv, AdmissionKept, LockCheck
    <3> QED
      BY <1>1, <2>2, <3>1, <3>2 DEF TypeOK, AdmissionKept, LockCheck, MustWait
  <2> QED
    BY <2>1, <2>2
<1>4. RestorerAlone'
  BY <1>1, CountersZero DEF IInv, TypeOK, FlagFollowsPhase, RestorerAlone, AdmissionKept, IsActive, LockCheck, MustWait
<1>5. NoLostWakeup'
  BY <1>1, CountersZero DEF IInv, TypeOK, FlagFollowsPhase, RestorerAlone, NoLostWakeup, IsActive, LockCheck, MustWait
<1>6. TokensFresh' /\ GuardsFresh'
  BY <1>1, CountersZero DEF IInv, TypeOK, FlagFollowsPhase, RestorerAlone, TokensFresh, GuardsFresh, IsActive, LockCheck, MustWait
<1>7. ReservationSpent'
  BY <1>1 DEF IInv, TypeOK, RestorerAlone, ReservationSpent, IsActive, LockCheck, MustWait
<1> QED
  BY <1>2a, <1>3, <1>3a, <1>4, <1>5, <1>6, <1>7 DEF IInv

LEMMA LockTakeStep ==
  ASSUME IInv, NEW t \in Threads, LockTake(t)
  PROVE  IInv'
<1>1. TypeOK /\ Counted
  BY DEF IInv
<1>2. \E l \in PCs : Moves(t, l)
  BY <1>1 DEF TypeOK, Moves, Recount, LockTake
<1>2a. Counted'
  BY <1>1, <1>2, CountedMoves
<1>3. TypeOK' /\ FlagFollowsPhase' /\ AdmissionKept'
  BY <1>1, CountersZero, ThreadsAssumption, BoundsAssumption
     DEF IInv, TypeOK, FlagFollowsPhase, AdmissionKept, LockTake
<1>4. RestorerAlone'
  BY <1>1, CountersZero DEF IInv, TypeOK, FlagFollowsPhase, RestorerAlone, AdmissionKept, IsActive, LockTake
<1>5. NoLostWakeup'
  BY <1>1, CountersZero DEF IInv, TypeOK, FlagFollowsPhase, RestorerAlone, NoLostWakeup, IsActive, LockTake
<1>6. TokensFresh' /\ GuardsFresh'
  BY <1>1, CountersZero DEF IInv, TypeOK, FlagFollowsPhase, RestorerAlone, TokensFresh, GuardsFresh, IsActive, LockTake
<1>7. ReservationSpent'
  BY <1>1 DEF IInv, TypeOK, RestorerAlone, ReservationSpent, IsActive, LockTake
<1> QED
  BY <1>2a, <1>3, <1>4, <1>5, <1>6, <1>7 DEF IInv

LEMMA UnlockStep ==
  ASSUME IInv, NEW t \in Threads, Unlock(t)
  PROVE  IInv'
<1>1. TypeOK /\ Counted
  BY DEF IInv
<1>2. \E l \in PCs : Moves(t, l)
  BY <1>1 DEF TypeOK, Moves, Recount, Unlock
<1>2a. Counted'
  BY <1>1, <1>2, CountedMoves
<1>3. TypeOK' /\ FlagFollowsPhase' /\ AdmissionKept'
  BY <1>1, CountersZero, ThreadsAssumption, BoundsAssumption
     DEF IInv, TypeOK, FlagFollowsPhase, AdmissionKept, Unlock
<1>4. RestorerAlone'
  BY <1>1, CountersZero DEF IInv, TypeOK, FlagFollowsPhase, RestorerAlone, AdmissionKept, IsActive, Unlock
<1>5. NoLostWakeup'
  BY <1>1, CountersZero DEF IInv, TypeOK, FlagFollowsPhase, RestorerAlone, NoLostWakeup, IsActive, Unlock
<1>6. TokensFresh' /\ GuardsFresh'
  BY <1>1, CountersZero DEF IInv, TypeOK, FlagFollowsPhase, RestorerAlone, TokensFresh, GuardsFresh, IsActive, Unlock
<1>7. ReservationSpent'
  BY <1>1 DEF IInv, TypeOK, RestorerAlone, ReservationSpent, IsActive, Unlock
<1> QED
  BY <1>2a, <1>3, <1>4, <1>5, <1>6, <1>7 DEF IInv

LEMMA BeginMutationStep ==
  ASSUME IInv, NEW t \in Threads, BeginMutation(t)
  PROVE  IInv'
<1>1. TypeOK /\ Counted
  BY DEF IInv
<1>2. \E l \in PCs : Moves(t, l)
  BY <1>1 DEF TypeOK, Moves, Recount, BeginMutation, Open
<1>2a. Counted'
  BY <1>1, <1>2, CountedMoves
<1>3. TypeOK' /\ FlagFollowsPhase' /\ AdmissionKept'
  BY <1>1, CountersZero, ThreadsAssumption, BoundsAssumption
     DEF IInv, TypeOK, FlagFollowsPhase, AdmissionKept, BeginMutation, Open
<1>4. RestorerAlone'
  BY <1>1, CountersZero DEF IInv, TypeOK, FlagFollowsPhase, RestorerAlone, AdmissionKept, IsActive, BeginMutation, Open
<1>5. NoLostWakeup'
  BY <1>1, CountersZero DEF IInv, TypeOK, FlagFollowsPhase, RestorerAlone, NoLostWakeup, IsActive, BeginMutation, Open
<1>6. TokensFresh' /\ GuardsFresh'
  BY <1>1, CountersZero DEF IInv, TypeOK, FlagFollowsPhase, RestorerAlone, TokensFresh, GuardsFresh, IsActive, BeginMutation, Open
<1>7. ReservationSpent'
  BY <1>1 DEF IInv, TypeOK, RestorerAlone, ReservationSpent, IsActive, BeginMutation, Open
<1> QED
  BY <1>2a, <1>3, <1>4, <1>5, <1>6, <1>7 DEF IInv

LEMMA BeginMutationAtGenerationStep ==
  ASSUME IInv, NEW t \in Threads, NEW token \in tokens, BeginMutationAtGeneration(t, token)
  PROVE  IInv'
<1>1. TypeOK /\ Counted
  BY DEF IInv
<1>2. \E l \in PCs : Moves(t, l)
  BY <1>1 DEF TypeOK, Moves, Recount, BeginMutationAtGeneration, Open, SameGeneration
<1>2a. Counted'
  BY <1>1, <1>2, CountedMoves
<1>3. TypeOK' /\ FlagFollowsPhase' /\ AdmissionKept'
  BY <1>1, CountersZero, ThreadsAssumption, BoundsAssumption
     DEF IInv, TypeOK, FlagFollowsPhase, AdmissionKept, BeginMutationAtGeneration, Open, SameGeneration
<1>4. RestorerAlone'
  BY <1>1, CountersZero DEF IInv, TypeOK, FlagFollowsPhase, RestorerAlone, AdmissionKept, IsActive, BeginMutationAtGeneration, Open, SameGeneration
<1>5. NoLostWakeup'
  BY <1>1, CountersZero DEF IInv, TypeOK, FlagFollowsPhase, RestorerAlone, NoLostWakeup, IsActive, BeginMutationAtGeneration, Open, SameGeneration
<1>6. TokensFresh' /\ GuardsFresh'
  BY <1>1, CountersZero DEF IInv, TypeOK, FlagFollowsPhase, RestorerAlone, TokensFresh, GuardsFresh, IsActive, BeginMutationAtGeneration, Open, SameGeneration
<1>7. ReservationSpent'
  BY <1>1 DEF IInv, TypeOK, RestorerAlone, ReservationSpent, IsActive, BeginMutationAtGeneration, Open, SameGeneration
<1> QED
  BY <1>2a, <1>3, <1>4, <1>5, <1>6, <1>7 DEF IInv

LEMMA LockAfterMutationStep ==
  ASSUME IInv, NEW t \in Threads, LockAfterMutation(t)
  PROVE  IInv'
<1>1. TypeOK /\ Counted
  BY DEF IInv
<1>2. \E l \in PCs : Moves(t, l)
  BY <1>1 DEF TypeOK, Moves, Recount, LockAfterMutation
<1>2a. Counted'
  BY <1>1, <1>2, CountedMoves
<1>3. TypeOK' /\ FlagFollowsPhase' /\ AdmissionKept'
  BY <1>1, CountersZero, ThreadsAssumption, BoundsAssumption
     DEF IInv, TypeOK, FlagFollowsPhase, AdmissionKept, LockAfterMutation
<1>4. RestorerAlone'
  BY <1>1, CountersZero DEF IInv, TypeOK, FlagFollowsPhase, RestorerAlone, AdmissionKept, IsActive, LockAfterMutation
<1>5. NoLostWakeup'
  BY <1>1, CountersZero DEF IInv, TypeOK, FlagFollowsPhase, RestorerAlone, NoLostWakeup, IsActive, LockAfterMutation
<1>6. TokensFresh' /\ GuardsFresh'
  BY <1>1, CountersZero DEF IInv, TypeOK, FlagFollowsPhase, RestorerAlone, TokensFresh, GuardsFresh, IsActive, LockAfterMutation
<1>7. ReservationSpent'
  BY <1>1 DEF IInv, TypeOK, RestorerAlone, ReservationSpent, IsActive, LockAfterMutation
<1> QED
  BY <1>2a, <1>3, <1>4, <1>5, <1>6, <1>7 DEF IInv

LEMMA UnlockAfterMutationStep ==
  ASSUME IInv, NEW t \in Threads, UnlockAfterMutation(t)
  PROVE  IInv'
<1>1. TypeOK /\ Counted
  BY DEF IInv
<1>2. \E l \in PCs : Moves(t, l)
  BY <1>1 DEF TypeOK, Moves, Recount, UnlockAfterMutation
<1>2a. Counted'
  BY <1>1, <1>2, CountedMoves
<1>3. TypeOK' /\ FlagFollowsPhase' /\ AdmissionKept'
  BY <1>1, CountersZero, ThreadsAssumption, BoundsAssumption
     DEF IInv, TypeOK, FlagFollowsPhase, AdmissionKept, UnlockAfterMutation
<1>4. RestorerAlone'
  BY <1>1, CountersZero DEF IInv, TypeOK, FlagFollowsPhase, RestorerAlone, AdmissionKept, IsActive, UnlockAfterMutation
<1>5. NoLostWakeup'
  BY <1>1, CountersZero DEF IInv, TypeOK, FlagFollowsPhase, RestorerAlone, NoLostWakeup, IsActive, UnlockAfterMutation
<1>6. TokensFresh' /\ GuardsFresh'
  BY <1>1, CountersZero DEF IInv, TypeOK, FlagFollowsPhase, RestorerAlone, TokensFresh, GuardsFresh, IsActive, UnlockAfterMutation
<1>7. ReservationSpent'
  BY <1>1 DEF IInv, TypeOK, RestorerAlone, ReservationSpent, IsActive, UnlockAfterMutation
<1> QED
  BY <1>2a, <1>3, <1>4, <1>5, <1>6, <1>7 DEF IInv

LEMMA DropMutationStep ==
  ASSUME IInv, NEW t \in Threads, DropMutation(t)
  PROVE  IInv'
<1>1. TypeOK /\ Counted
  BY DEF IInv
<1>2. \E l \in PCs : Moves(t, l)
  BY <1>1 DEF TypeOK, Moves, Recount, DropMutation
<1>2a. Counted'
  BY <1>1, <1>2, CountedMoves
<1>3. TypeOK' /\ FlagFollowsPhase' /\ AdmissionKept'
  BY <1>1, CountersZero, ThreadsAssumption, BoundsAssumption
     DEF IInv, TypeOK, FlagFollowsPhase, AdmissionKept, DropMutation
<1>4. RestorerAlone'
  BY <1>1, CountersZero DEF IInv, TypeOK, FlagFollowsPhase, RestorerAlone, AdmissionKept, IsActive, DropMutation
<1>5. NoLostWakeup'
  BY <1>1, CountersZero DEF IInv, TypeOK, FlagFollowsPhase, RestorerAlone, NoLostWakeup, IsActive, DropMutation
<1>6. TokensFresh' /\ GuardsFresh'
  BY <1>1, CountersZero DEF IInv, TypeOK, FlagFollowsPhase, RestorerAlone, TokensFresh, GuardsFresh, IsActive, DropMutation
<1>7. ReservationSpent'
  BY <1>1 DEF IInv, TypeOK, RestorerAlone, ReservationSpent, IsActive, DropMutation
<1> QED
  BY <1>2a, <1>3, <1>4, <1>5, <1>6, <1>7 DEF IInv

LEMMA AcquirePermitStep ==
  ASSUME IInv, NEW t \in Threads, AcquirePermit(t)
  PROVE  IInv'
<1>1. TypeOK /\ Counted
  BY DEF IInv
<1>2. \E l \in PCs : Moves(t, l)
  BY <1>1 DEF TypeOK, Moves, Recount, AcquirePermit, PermitFree
<1>2a. Counted'
  BY <1>1, <1>2, CountedMoves
<1>3. TypeOK' /\ FlagFollowsPhase' /\ AdmissionKept'
  BY <1>1, CountersZero, ThreadsAssumption, BoundsAssumption
     DEF IInv, TypeOK, FlagFollowsPhase, AdmissionKept, AcquirePermit, PermitFree
<1>4. RestorerAlone'
  BY <1>1, CountersZero DEF IInv, TypeOK, FlagFollowsPhase, RestorerAlone, AdmissionKept, IsActive, AcquirePermit, PermitFree
<1>5. NoLostWakeup'
  BY <1>1, CountersZero DEF IInv, TypeOK, FlagFollowsPhase, RestorerAlone, NoLostWakeup, IsActive, AcquirePermit, PermitFree
<1>6. TokensFresh' /\ GuardsFresh'
  BY <1>1, CountersZero DEF IInv, TypeOK, FlagFollowsPhase, RestorerAlone, TokensFresh, GuardsFresh, IsActive, AcquirePermit, PermitFree
<1>7. ReservationSpent'
  BY <1>1 DEF IInv, TypeOK, RestorerAlone, ReservationSpent, IsActive, AcquirePermit, PermitFree
<1> QED
  BY <1>2a, <1>3, <1>4, <1>5, <1>6, <1>7 DEF IInv

LEMMA OpenReadStep ==
  ASSUME IInv, NEW t \in Threads, OpenRead(t)
  PROVE  IInv'
<1>1. TypeOK /\ Counted
  BY DEF IInv
<1>2. \E l \in PCs : Moves(t, l)
  BY <1>1 DEF TypeOK, Moves, Recount, OpenRead
<1>2a. Counted'
  BY <1>1, <1>2, CountedMoves
<1>3. TypeOK' /\ FlagFollowsPhase' /\ AdmissionKept'
  BY <1>1, CountersZero, ThreadsAssumption, BoundsAssumption
     DEF IInv, TypeOK, FlagFollowsPhase, AdmissionKept, OpenRead
<1>4. RestorerAlone'
  <2>1. CASE pending
    BY <2>1, <1>1, CountersZero DEF IInv, TypeOK, FlagFollowsPhase, RestorerAlone, AdmissionKept, IsActive, OpenRead
  <2>2. CASE ~pending
    <3>1. phase = "Idle"
      BY <2>2 DEF IInv, FlagFollowsPhase
    <3>2. \A u \in Threads : pc[u] \notin GrantedPCs \cup {"draining"}
      BY <3>1 DEF IInv, RestorerAlone, IsActive
    <3>3. \A u \in Threads : pc'[u] \notin GrantedPCs \cup {"draining"}
      BY <1>1, <2>2, <3>2 DEF TypeOK, OpenRead
    <3> QED
      BY <3>3 DEF RestorerAlone
  <2> QED
    BY <2>1, <2>2
<1>5. NoLostWakeup'
  BY <1>1, CountersZero DEF IInv, TypeOK, FlagFollowsPhase, RestorerAlone, NoLostWakeup, IsActive, OpenRead
<1>6. TokensFresh' /\ GuardsFresh'
  BY <1>1, CountersZero DEF IInv, TypeOK, FlagFollowsPhase, RestorerAlone, TokensFresh, GuardsFresh, IsActive, OpenRead
<1>7. ReservationSpent'
  BY <1>1 DEF IInv, TypeOK, RestorerAlone, ReservationSpent, IsActive, OpenRead
<1> QED
  BY <1>2a, <1>3, <1>4, <1>5, <1>6, <1>7 DEF IInv

LEMMA BeginCaptureStep ==
  ASSUME IInv, NEW t \in Threads, BeginCapture(t)
  PROVE  IInv'
<1>1. TypeOK /\ Counted
  BY DEF IInv
<1>2. \E l \in PCs : Moves(t, l)
  BY <1>1 DEF TypeOK, Moves, Recount, BeginCapture
<1>2a. Counted'
  BY <1>1, <1>2, CountedMoves
<1>3. TypeOK' /\ FlagFollowsPhase' /\ AdmissionKept'
  BY <1>1, CountersZero, ThreadsAssumption, BoundsAssumption
     DEF IInv, TypeOK, FlagFollowsPhase, AdmissionKept, BeginCapture
<1>4. RestorerAlone'
  BY <1>1, CountersZero DEF IInv, TypeOK, FlagFollowsPhase, RestorerAlone, AdmissionKept, IsActive, BeginCapture
<1>5. NoLostWakeup'
  BY <1>1, CountersZero DEF IInv, TypeOK, FlagFollowsPhase, RestorerAlone, NoLostWakeup, IsActive, BeginCapture
<1>6. TokensFresh' /\ GuardsFresh'
  BY <1>1, CountersZero DEF IInv, TypeOK, FlagFollowsPhase, RestorerAlone, TokensFresh, GuardsFresh, IsActive, BeginCapture
<1>7. ReservationSpent'
  BY <1>1 DEF IInv, TypeOK, RestorerAlone, ReservationSpent, IsActive, BeginCapture
<1> QED
  BY <1>2a, <1>3, <1>4, <1>5, <1>6, <1>7 DEF IInv

LEMMA DropCaptureStep ==
  ASSUME IInv, NEW t \in Threads, DropCapture(t)
  PROVE  IInv'
<1>1. TypeOK /\ Counted
  BY DEF IInv
<1>2. \E l \in PCs : Moves(t, l)
  <2>1. CASE pc[t] = "reading"
    BY <2>1, <1>1 DEF TypeOK, Moves, Recount, DropCapture
  <2>2. CASE pc[t] = "snapshotting"
    BY <2>2, <1>1 DEF TypeOK, Moves, Recount, DropCapture
  <2> QED
    BY <2>1, <2>2 DEF DropCapture
<1>2a. Counted'
  BY <1>1, <1>2, CountedMoves
<1>3. TypeOK' /\ FlagFollowsPhase' /\ AdmissionKept'
  BY <1>1, CountersZero, ThreadsAssumption, BoundsAssumption
     DEF IInv, TypeOK, FlagFollowsPhase, AdmissionKept, DropCapture
<1>4. RestorerAlone'
  BY <1>1, CountersZero DEF IInv, TypeOK, FlagFollowsPhase, RestorerAlone, AdmissionKept, IsActive, DropCapture
<1>5. NoLostWakeup'
  BY <1>1, CountersZero DEF IInv, TypeOK, FlagFollowsPhase, RestorerAlone, NoLostWakeup, IsActive, DropCapture
<1>6. TokensFresh' /\ GuardsFresh'
  BY <1>1, CountersZero DEF IInv, TypeOK, FlagFollowsPhase, RestorerAlone, TokensFresh, GuardsFresh, IsActive, DropCapture
<1>7. ReservationSpent'
  BY <1>1 DEF IInv, TypeOK, RestorerAlone, ReservationSpent, IsActive, DropCapture
<1> QED
  BY <1>2a, <1>3, <1>4, <1>5, <1>6, <1>7 DEF IInv

LEMMA DropPermitStep ==
  ASSUME IInv, NEW t \in Threads, DropPermit(t)
  PROVE  IInv'
<1>1. TypeOK /\ Counted
  BY DEF IInv
<1>2. \E l \in PCs : Moves(t, l)
  BY <1>1 DEF TypeOK, Moves, Recount, DropPermit
<1>2a. Counted'
  BY <1>1, <1>2, CountedMoves
<1>3. TypeOK' /\ FlagFollowsPhase' /\ AdmissionKept'
  BY <1>1, CountersZero, ThreadsAssumption, BoundsAssumption
     DEF IInv, TypeOK, FlagFollowsPhase, AdmissionKept, DropPermit
<1>4. RestorerAlone'
  BY <1>1, CountersZero DEF IInv, TypeOK, FlagFollowsPhase, RestorerAlone, AdmissionKept, IsActive, DropPermit
<1>5. NoLostWakeup'
  BY <1>1, CountersZero DEF IInv, TypeOK, FlagFollowsPhase, RestorerAlone, NoLostWakeup, IsActive, DropPermit
<1>6. TokensFresh' /\ GuardsFresh'
  BY <1>1, CountersZero DEF IInv, TypeOK, FlagFollowsPhase, RestorerAlone, TokensFresh, GuardsFresh, IsActive, DropPermit
<1>7. ReservationSpent'
  BY <1>1 DEF IInv, TypeOK, RestorerAlone, ReservationSpent, IsActive, DropPermit
<1> QED
  BY <1>2a, <1>3, <1>4, <1>5, <1>6, <1>7 DEF IInv

LEMMA ReserveStep ==
  ASSUME IInv, NEW t \in Threads, NEW recovery \in BOOLEAN, Reserve(t, recovery)
  PROVE  IInv'
<1>1. TypeOK /\ Counted
  BY DEF IInv
<1>2. \E l \in PCs : Moves(t, l)
  BY <1>1 DEF TypeOK, Moves, Recount, Reserve, ReserveOutcome, Open, MayReserve, NoMutationActive
<1>2a. Counted'
  BY <1>1, <1>2, CountedMoves
<1>3. TypeOK'
  <2>1. generation' \in 0 .. MaxGeneration /\ gen' \in [Threads -> Nat]
    BY <1>1, BoundsAssumption DEF TypeOK, Reserve, ReserveOutcome, Open, MayReserve, NoMutationActive
  <2>2. pc' \in [Threads -> PCs]
    BY <1>1 DEF TypeOK, Reserve, ReserveOutcome, Open, MayReserve, NoMutationActive
  <2>3. phase' \in Phases /\ waiting' \in SUBSET Threads
    BY <1>1 DEF TypeOK, Reserve, ReserveOutcome, Open, MayReserve, NoMutationActive
  <2>4. pending' \in BOOLEAN
    BY <1>1 DEF TypeOK, Reserve, ReserveOutcome, Open, MayReserve, NoMutationActive
  <2> QED
    BY <1>1, <2>1, <2>2, <2>3, <2>4 DEF TypeOK, Reserve
<1>3a. FlagFollowsPhase'
  BY <1>1 DEF IInv, TypeOK, FlagFollowsPhase, RestorerAlone, IsActive, Reserve, ReserveOutcome, Open, MayReserve, NoMutationActive
<1>3b. AdmissionKept'
  BY <1>1, ThreadsAssumption DEF IInv, TypeOK, AdmissionKept, Reserve, ReserveOutcome, Open, MayReserve, NoMutationActive
<1>4. RestorerAlone'
  BY <1>1, CountersZero DEF IInv, TypeOK, FlagFollowsPhase, RestorerAlone, AdmissionKept, IsActive, Reserve, ReserveOutcome, Open, MayReserve, NoMutationActive
<1>5. NoLostWakeup'
  BY <1>1, CountersZero DEF IInv, TypeOK, FlagFollowsPhase, RestorerAlone, NoLostWakeup, IsActive, Reserve, ReserveOutcome, Open, MayReserve, NoMutationActive
<1>6. TokensFresh' /\ GuardsFresh'
  BY <1>1, CountersZero DEF IInv, TypeOK, FlagFollowsPhase, RestorerAlone, TokensFresh, GuardsFresh, IsActive, Reserve, ReserveOutcome, Open, MayReserve, NoMutationActive
<1>7. ReservationSpent'
  BY <1>1 DEF IInv, TypeOK, RestorerAlone, ReservationSpent, IsActive, Reserve, ReserveOutcome, Open, MayReserve, NoMutationActive
<1> QED
  BY <1>2a, <1>3, <1>3a, <1>3b, <1>4, <1>5, <1>6, <1>7 DEF IInv

LEMMA ReserveDrainedStep ==
  ASSUME IInv, NEW t \in Threads, ReserveDrained(t)
  PROVE  IInv'
<1>1. TypeOK /\ Counted
  BY DEF IInv
<1>2. \E l \in PCs : Moves(t, l)
  BY <1>1 DEF TypeOK, Moves, Recount, ReserveDrained, ReserveOutcome, NoMutationActive
<1>2a. Counted'
  BY <1>1, <1>2, CountedMoves
<1>3. TypeOK'
  <2>1. generation' \in 0 .. MaxGeneration /\ gen' \in [Threads -> Nat]
    BY <1>1, BoundsAssumption DEF TypeOK, ReserveDrained, ReserveOutcome, NoMutationActive
  <2>2. pc' \in [Threads -> PCs]
    BY <1>1 DEF TypeOK, ReserveDrained, ReserveOutcome, NoMutationActive
  <2>3. phase' \in Phases /\ waiting' \in SUBSET Threads
    BY <1>1 DEF TypeOK, ReserveDrained, ReserveOutcome, NoMutationActive
  <2>4. pending' \in BOOLEAN
    BY <1>1 DEF TypeOK, ReserveDrained, ReserveOutcome, NoMutationActive
  <2> QED
    BY <1>1, <2>1, <2>2, <2>3, <2>4 DEF TypeOK, ReserveDrained
<1>3a. FlagFollowsPhase'
  BY <1>1 DEF IInv, TypeOK, FlagFollowsPhase, RestorerAlone, IsActive, ReserveDrained, ReserveOutcome, NoMutationActive
<1>3b. AdmissionKept'
  BY <1>1, ThreadsAssumption DEF IInv, TypeOK, AdmissionKept, ReserveDrained, ReserveOutcome, NoMutationActive
<1>4. RestorerAlone'
  BY <1>1, CountersZero DEF IInv, TypeOK, FlagFollowsPhase, RestorerAlone, AdmissionKept, IsActive, ReserveDrained, ReserveOutcome, NoMutationActive
<1>5. NoLostWakeup'
  BY <1>1, CountersZero DEF IInv, TypeOK, FlagFollowsPhase, RestorerAlone, NoLostWakeup, IsActive, ReserveDrained, ReserveOutcome, NoMutationActive
<1>6. TokensFresh' /\ GuardsFresh'
  BY <1>1, CountersZero DEF IInv, TypeOK, FlagFollowsPhase, RestorerAlone, TokensFresh, GuardsFresh, IsActive, ReserveDrained, ReserveOutcome, NoMutationActive
<1>7. ReservationSpent'
  BY <1>1 DEF IInv, TypeOK, RestorerAlone, ReservationSpent, IsActive, ReserveDrained, ReserveOutcome, NoMutationActive
<1> QED
  BY <1>2a, <1>3, <1>3a, <1>3b, <1>4, <1>5, <1>6, <1>7 DEF IInv

LEMMA RequestRestoreWriterStep ==
  ASSUME IInv, NEW t \in Threads, RequestRestoreWriter(t)
  PROVE  IInv'
<1>1. TypeOK /\ Counted
  BY DEF IInv
<1>2. \E l \in PCs : Moves(t, l)
  BY <1>1 DEF TypeOK, Moves, Recount, RequestRestoreWriter
<1>2a. Counted'
  BY <1>1, <1>2, CountedMoves
<1>3. TypeOK' /\ FlagFollowsPhase' /\ AdmissionKept'
  BY <1>1, CountersZero, ThreadsAssumption, BoundsAssumption
     DEF IInv, TypeOK, FlagFollowsPhase, AdmissionKept, RequestRestoreWriter
<1>4. RestorerAlone'
  BY <1>1, CountersZero DEF IInv, TypeOK, FlagFollowsPhase, RestorerAlone, AdmissionKept, IsActive, RequestRestoreWriter
<1>5. NoLostWakeup'
  BY <1>1, CountersZero DEF IInv, TypeOK, FlagFollowsPhase, RestorerAlone, NoLostWakeup, IsActive, RequestRestoreWriter
<1>6. TokensFresh' /\ GuardsFresh'
  BY <1>1, CountersZero DEF IInv, TypeOK, FlagFollowsPhase, RestorerAlone, TokensFresh, GuardsFresh, IsActive, RequestRestoreWriter
<1>7. ReservationSpent'
  BY <1>1 DEF IInv, TypeOK, RestorerAlone, ReservationSpent, IsActive, RequestRestoreWriter
<1> QED
  BY <1>2a, <1>3, <1>4, <1>5, <1>6, <1>7 DEF IInv

LEMMA LockRestoreWriterStep ==
  ASSUME IInv, NEW t \in Threads, LockRestoreWriter(t)
  PROVE  IInv'
<1>1. TypeOK /\ Counted
  BY DEF IInv
<1>2. \E l \in PCs : Moves(t, l)
  BY <1>1 DEF TypeOK, Moves, Recount, LockRestoreWriter
<1>2a. Counted'
  BY <1>1, <1>2, CountedMoves
<1>3. TypeOK' /\ FlagFollowsPhase' /\ AdmissionKept'
  BY <1>1, CountersZero, ThreadsAssumption, BoundsAssumption
     DEF IInv, TypeOK, FlagFollowsPhase, AdmissionKept, LockRestoreWriter
<1>4. RestorerAlone'
  BY <1>1, CountersZero DEF IInv, TypeOK, FlagFollowsPhase, RestorerAlone, AdmissionKept, IsActive, LockRestoreWriter
<1>5. NoLostWakeup'
  BY <1>1, CountersZero DEF IInv, TypeOK, FlagFollowsPhase, RestorerAlone, NoLostWakeup, IsActive, LockRestoreWriter
<1>6. TokensFresh' /\ GuardsFresh'
  BY <1>1, CountersZero DEF IInv, TypeOK, FlagFollowsPhase, RestorerAlone, TokensFresh, GuardsFresh, IsActive, LockRestoreWriter
<1>7. ReservationSpent'
  BY <1>1 DEF IInv, TypeOK, RestorerAlone, ReservationSpent, IsActive, LockRestoreWriter
<1> QED
  BY <1>2a, <1>3, <1>4, <1>5, <1>6, <1>7 DEF IInv

LEMMA RecheckRestoreWriterStep ==
  ASSUME IInv, NEW t \in Threads, RecheckRestoreWriter(t)
  PROVE  IInv'
<1>1. TypeOK /\ Counted
  BY DEF IInv
<1>2. \E l \in PCs : Moves(t, l)
  BY <1>1 DEF TypeOK, Moves, Recount, RecheckRestoreWriter
<1>2a. Counted'
  BY <1>1, <1>2, CountedMoves
<1>3. TypeOK' /\ FlagFollowsPhase' /\ AdmissionKept'
  BY <1>1, CountersZero, ThreadsAssumption, BoundsAssumption
     DEF IInv, TypeOK, FlagFollowsPhase, AdmissionKept, RecheckRestoreWriter
<1>4. RestorerAlone'
  BY <1>1, CountersZero DEF IInv, TypeOK, FlagFollowsPhase, RestorerAlone, AdmissionKept, IsActive, RecheckRestoreWriter
<1>5. NoLostWakeup'
  BY <1>1, CountersZero DEF IInv, TypeOK, FlagFollowsPhase, RestorerAlone, NoLostWakeup, IsActive, RecheckRestoreWriter
<1>6. TokensFresh' /\ GuardsFresh'
  BY <1>1, CountersZero DEF IInv, TypeOK, FlagFollowsPhase, RestorerAlone, TokensFresh, GuardsFresh, IsActive, RecheckRestoreWriter
<1>7. ReservationSpent'
  BY <1>1 DEF IInv, TypeOK, RestorerAlone, ReservationSpent, IsActive, RecheckRestoreWriter
<1> QED
  BY <1>2a, <1>3, <1>4, <1>5, <1>6, <1>7 DEF IInv

LEMMA RestoreWriterFailsStep ==
  ASSUME IInv, NEW t \in Threads, NEW replaced \in BOOLEAN, RestoreWriterFails(t, replaced)
  PROVE  IInv'
<1>1. TypeOK /\ Counted
  BY DEF IInv
<1>2. \E l \in PCs : Moves(t, l)
  BY <1>1 DEF TypeOK, Moves, Recount, RestoreWriterFails
<1>2a. Counted'
  BY <1>1, <1>2, CountedMoves
<1>3. TypeOK' /\ FlagFollowsPhase' /\ AdmissionKept'
  BY <1>1, CountersZero, ThreadsAssumption, BoundsAssumption
     DEF IInv, TypeOK, FlagFollowsPhase, AdmissionKept, RestoreWriterFails
<1>4. RestorerAlone'
  BY <1>1, CountersZero DEF IInv, TypeOK, FlagFollowsPhase, RestorerAlone, AdmissionKept, IsActive, RestoreWriterFails
<1>5. NoLostWakeup'
  BY <1>1, CountersZero DEF IInv, TypeOK, FlagFollowsPhase, RestorerAlone, NoLostWakeup, IsActive, RestoreWriterFails
<1>6. TokensFresh' /\ GuardsFresh'
  BY <1>1, CountersZero DEF IInv, TypeOK, FlagFollowsPhase, RestorerAlone, TokensFresh, GuardsFresh, IsActive, RestoreWriterFails
<1>7. ReservationSpent'
  BY <1>1 DEF IInv, TypeOK, RestorerAlone, ReservationSpent, IsActive, RestoreWriterFails
<1> QED
  BY <1>2a, <1>3, <1>4, <1>5, <1>6, <1>7 DEF IInv

LEMMA PublishStep ==
  ASSUME IInv, NEW t \in Threads, Publish(t)
  PROVE  IInv'
<1>1. TypeOK /\ Counted
  BY DEF IInv
<1>2. \E l \in PCs : Moves(t, l)
  BY <1>1 DEF TypeOK, Moves, Recount, Publish
<1>2a. Counted'
  BY <1>1, <1>2, CountedMoves
<1>3. TypeOK' /\ FlagFollowsPhase' /\ AdmissionKept'
  BY <1>1, CountersZero, ThreadsAssumption, BoundsAssumption
     DEF IInv, TypeOK, FlagFollowsPhase, AdmissionKept, Publish
<1>4. RestorerAlone'
  BY <1>1, CountersZero DEF IInv, TypeOK, FlagFollowsPhase, RestorerAlone, AdmissionKept, IsActive, Publish
<1>5. NoLostWakeup'
  BY <1>1, CountersZero DEF IInv, TypeOK, FlagFollowsPhase, RestorerAlone, NoLostWakeup, IsActive, Publish
<1>6. TokensFresh' /\ GuardsFresh'
  BY <1>1, CountersZero DEF IInv, TypeOK, FlagFollowsPhase, RestorerAlone, TokensFresh, GuardsFresh, IsActive, Publish
<1>7. ReservationSpent'
  BY <1>1 DEF IInv, TypeOK, RestorerAlone, ReservationSpent, IsActive, Publish
<1> QED
  BY <1>2a, <1>3, <1>4, <1>5, <1>6, <1>7 DEF IInv

LEMMA CommitStep ==
  ASSUME IInv, NEW t \in Threads, Commit(t)
  PROVE  IInv'
<1>1. TypeOK /\ Counted
  BY DEF IInv
<1>2. \E l \in PCs : Moves(t, l)
  BY <1>1 DEF TypeOK, Moves, Recount, Commit
<1>2a. Counted'
  BY <1>1, <1>2, CountedMoves
<1>3. TypeOK' /\ FlagFollowsPhase' /\ AdmissionKept'
  BY <1>1, CountersZero, ThreadsAssumption, BoundsAssumption
     DEF IInv, TypeOK, FlagFollowsPhase, AdmissionKept, Commit
<1>4. RestorerAlone'
  BY <1>1, CountersZero DEF IInv, TypeOK, FlagFollowsPhase, RestorerAlone, AdmissionKept, IsActive, Commit
<1>5. NoLostWakeup'
  BY <1>1, CountersZero DEF IInv, TypeOK, FlagFollowsPhase, RestorerAlone, NoLostWakeup, IsActive, Commit
<1>6. TokensFresh' /\ GuardsFresh'
  BY <1>1, CountersZero DEF IInv, TypeOK, FlagFollowsPhase, RestorerAlone, TokensFresh, GuardsFresh, IsActive, Commit
<1>7. ReservationSpent'
  BY <1>1 DEF IInv, TypeOK, RestorerAlone, ReservationSpent, IsActive, Commit
<1> QED
  BY <1>2a, <1>3, <1>4, <1>5, <1>6, <1>7 DEF IInv

LEMMA DropReservationStep ==
  ASSUME IInv, NEW t \in Threads, DropReservation(t)
  PROVE  IInv'
<1>1. TypeOK /\ Counted
  BY DEF IInv
<1>2. \E l \in PCs : Moves(t, l)
  BY <1>1 DEF TypeOK, Moves, Recount, DropReservation
<1>2a. Counted'
  BY <1>1, <1>2, CountedMoves
<1>3. TypeOK' /\ FlagFollowsPhase' /\ AdmissionKept'
  BY <1>1, CountersZero, ThreadsAssumption, BoundsAssumption
     DEF IInv, TypeOK, FlagFollowsPhase, AdmissionKept, DropReservation
<1>4. RestorerAlone'
  <2>1. CASE pc[t] = "finished"
    BY <1>1, <2>1 DEF IInv, TypeOK, RestorerAlone, ReservationSpent, IsActive, DropReservation
  <2>2. CASE pc[t] # "finished"
    <3>1. \A u \in Threads : u # t => pc[u] \notin GrantedPCs \cup {"draining"}
      BY <2>2 DEF IInv, RestorerAlone, DropReservation
    <3>2. \A u \in Threads : pc'[u] \notin GrantedPCs \cup {"draining"}
      BY <1>1, <3>1 DEF TypeOK, DropReservation
    <3> QED
      BY <3>2 DEF RestorerAlone
  <2> QED
    BY <2>1, <2>2
<1>5. NoLostWakeup'
  BY <1>1, CountersZero DEF IInv, TypeOK, FlagFollowsPhase, RestorerAlone, NoLostWakeup, IsActive, DropReservation
<1>6. TokensFresh' /\ GuardsFresh'
  BY <1>1, CountersZero DEF IInv, TypeOK, FlagFollowsPhase, RestorerAlone, TokensFresh, GuardsFresh, IsActive, DropReservation
<1>7. ReservationSpent'
  BY <1>1 DEF IInv, TypeOK, RestorerAlone, ReservationSpent, IsActive, DropReservation
<1> QED
  BY <1>2a, <1>3, <1>4, <1>5, <1>6, <1>7 DEF IInv

LEMMA CaptureGenerationStep ==
  ASSUME IInv, NEW t \in Threads, CaptureGeneration(t)
  PROVE  IInv'
<1>1. TypeOK /\ Counted
  BY DEF IInv
<1>2. Counted'
  BY <1>1 DEF Counted, At, CaptureGeneration, Open
<1>3. TypeOK' /\ FlagFollowsPhase' /\ AdmissionKept'
  BY <1>1, ThreadsAssumption
     DEF IInv, TypeOK, FlagFollowsPhase, AdmissionKept, RestorerAlone, IsActive, CaptureGeneration, Open
<1>4. RestorerAlone'
  BY <1>1 DEF IInv, TypeOK, RestorerAlone, IsActive, CaptureGeneration, Open
<1>5. NoLostWakeup'
  BY <1>1 DEF IInv, NoLostWakeup, CaptureGeneration, Open
<1>6. TokensFresh' /\ GuardsFresh'
  BY <1>1 DEF IInv, TypeOK, TokensFresh, GuardsFresh, CaptureGeneration, Open
<1>7. ReservationSpent'
  BY <1>1 DEF IInv, TypeOK, ReservationSpent, RestorerAlone, CaptureGeneration, Open
<1> QED
  BY <1>2, <1>3, <1>4, <1>5, <1>6, <1>7 DEF IInv

LEMMA ArmStep ==
  ASSUME IInv, NEW t \in Threads, Arm(t)
  PROVE  IInv'
<1>1. TypeOK /\ Counted
  BY DEF IInv
<1>2. Counted'
  BY <1>1 DEF Counted, At, Arm
<1>3. TypeOK' /\ FlagFollowsPhase' /\ AdmissionKept'
  BY <1>1, ThreadsAssumption
     DEF IInv, TypeOK, FlagFollowsPhase, AdmissionKept, RestorerAlone, IsActive, Arm
<1>4. RestorerAlone'
  BY <1>1 DEF IInv, TypeOK, RestorerAlone, IsActive, Arm
<1>5. NoLostWakeup'
  BY <1>1 DEF IInv, NoLostWakeup, Arm
<1>6. TokensFresh' /\ GuardsFresh'
  BY <1>1 DEF IInv, TypeOK, TokensFresh, GuardsFresh, Arm
<1>7. ReservationSpent'
  BY <1>1 DEF IInv, TypeOK, ReservationSpent, RestorerAlone, Arm
<1> QED
  BY <1>2, <1>3, <1>4, <1>5, <1>6, <1>7 DEF IInv

LEMMA DisarmStep ==
  ASSUME IInv, NEW t \in Threads, Disarm(t)
  PROVE  IInv'
<1>1. TypeOK /\ Counted
  BY DEF IInv
<1>2. Counted'
  BY <1>1 DEF Counted, At, Disarm
<1>3. TypeOK' /\ FlagFollowsPhase' /\ AdmissionKept'
  BY <1>1, ThreadsAssumption
     DEF IInv, TypeOK, FlagFollowsPhase, AdmissionKept, RestorerAlone, IsActive, Disarm
<1>4. RestorerAlone'
  BY <1>1 DEF IInv, TypeOK, RestorerAlone, IsActive, Disarm
<1>5. NoLostWakeup'
  BY <1>1 DEF IInv, NoLostWakeup, Disarm
<1>6. TokensFresh' /\ GuardsFresh'
  BY <1>1 DEF IInv, TypeOK, TokensFresh, GuardsFresh, Disarm
<1>7. ReservationSpent'
  BY <1>1 DEF IInv, TypeOK, ReservationSpent, RestorerAlone, Disarm
<1> QED
  BY <1>2, <1>3, <1>4, <1>5, <1>6, <1>7 DEF IInv

-----------------------------------------------------------------------------
(* The inductive invariant. *)

LEMMA InitInv == Init => IInv
<1> SUFFICES ASSUME Init PROVE IInv
  OBVIOUS
<1>1. At(pc, CapturePCs) = {} /\ At(pc, MutationPCs) = {}
  BY DEF Init, At
<1>2. Counted
  BY <1>1, FS_EmptySet DEF Init, Counted
<1>3. TypeOK
  <2>1. captures \in Nat /\ mutations \in Nat /\ epoch \in Nat /\ generation \in 0 .. MaxGeneration
    BY BoundsAssumption DEF Init
  <2>2. permits \in 0 .. ReadCapacity
    BY BoundsAssumption DEF Init
  <2>3. pc \in [Threads -> PCs] /\ gen \in [Threads -> Nat] /\ seen \in [Threads -> Nat]
    BY DEF Init
  <2> QED
    BY <2>1, <2>2, <2>3 DEF Init, TypeOK
<1>4. FlagFollowsPhase /\ RestorerAlone /\ AdmissionKept
  BY ThreadsAssumption DEF Init, FlagFollowsPhase, RestorerAlone, AdmissionKept
<1>5. NoLostWakeup /\ TokensFresh /\ GuardsFresh /\ ReservationSpent
  BY DEF Init, NoLostWakeup, TokensFresh, GuardsFresh, ReservationSpent
<1> QED
  BY <1>2, <1>3, <1>4, <1>5 DEF IInv

LEMMA StutterInv == IInv /\ UNCHANGED vars => IInv'
<1> SUFFICES ASSUME IInv, UNCHANGED vars PROVE IInv'
  OBVIOUS
<1>1. Counted' /\ FlagFollowsPhase' /\ RestorerAlone' /\ AdmissionKept'
  BY DEF IInv, vars, Counted, At, FlagFollowsPhase, RestorerAlone, AdmissionKept, IsActive
<1>2. NoLostWakeup' /\ TokensFresh' /\ GuardsFresh' /\ ReservationSpent'
  BY DEF IInv, vars, NoLostWakeup, TokensFresh, GuardsFresh, ReservationSpent
<1>3. TypeOK'
  BY DEF IInv, vars, TypeOK
<1> QED
  BY <1>1, <1>2, <1>3 DEF IInv

LEMMA NextInv == IInv /\ [Next]_vars => IInv'
<1> SUFFICES ASSUME IInv, [Next]_vars PROVE IInv'
  OBVIOUS
<1>1. ASSUME NEW t \in Threads, Begin(t) PROVE IInv'
  BY <1>1, LockCheckStep, BeginMutationStep, CaptureGenerationStep,
     BeginMutationAtGenerationStep, AcquirePermitStep, BeginCaptureStep, ReserveStep
     DEF Begin
<1>2. ASSUME NEW t \in Threads, Continue(t) PROVE IInv'
  BY <1>2, LockCheckStep, LockTakeStep, UnlockStep, UnlockAfterMutationStep, DropMutationStep, OpenReadStep,
     DropCaptureStep, DropPermitStep, ReserveDrainedStep, RequestRestoreWriterStep,
     LockRestoreWriterStep, RecheckRestoreWriterStep, RestoreWriterFailsStep,
     PublishStep, CommitStep, DropReservationStep
     DEF Continue
<1>3. ASSUME NEW t \in Threads, Detour(t) PROVE IInv'
  BY <1>3, LockAfterMutationStep, ArmStep, DisarmStep DEF Detour
<1>4. CASE Stopped
  BY <1>4, StutterInv DEF Stopped
<1>5. CASE UNCHANGED vars
  BY <1>5, StutterInv
<1> QED
  BY <1>1, <1>2, <1>3, <1>4, <1>5 DEF Next

(* IInv is an invariant. *)
THEOREM Invariant == Spec => []IInv
BY InitInv, NextInv, PTL DEF Spec

-----------------------------------------------------------------------------
(* What follows. *)

(* The admission state keeps its type: no counter goes below zero, the *)
(* generation never passes its limit, the pool never exceeds its capacity. *)
THEOREM TypeCorrect == Spec => []TypeOK
<1>1. IInv => TypeOK
  BY DEF IInv
<1> QED
  BY <1>1, Invariant, PTL

(* A granted restore is alone: `reserve` hands out a reservation only when *)
(* every reader, capture and mutation is gone, and nobody enters afterwards. *)
THEOREM Exclusion == Spec => []RestoreExclusion
<1>1. IInv => RestoreExclusion
  <2> SUFFICES ASSUME IInv, NEW t \in Threads, pc[t] \in GrantedPCs
               PROVE  /\ Holding(CapturePCs \cup MutationPCs) = {}
                      /\ Holding(GrantedPCs \cup {"draining"}) = {t}
                      /\ IsActive(t)
    BY DEF RestoreExclusion, Holding
  <2>1. IsActive(t) /\ \A u \in Threads : u # t => pc[u] \notin GrantedPCs \cup {"draining"}
    BY DEF IInv, RestorerAlone
  <2>2. \A u \in Threads : pc[u] \notin CapturePCs \cup MutationPCs
    BY DEF IInv, RestorerAlone
  <2> QED
    BY <2>1, <2>2 DEF Holding
<1> QED
  BY <1>1, Invariant, PTL

(* No guard ever works on another database than the one it was admitted to, *)
(* whatever restores ran between the capture of its generation and its use. *)
THEOREM OneGeneration == Spec => []OneDatabaseGeneration
<1>1. IInv => OneDatabaseGeneration
  BY DEF IInv, GuardsFresh, OneDatabaseGeneration, Holding
<1> QED
  BY <1>1, Invariant, PTL

(* Nobody sleeps on `complete` once what it waits for has happened. *)
THEOREM NoWakeupLost == Spec => []NoLostWakeup
<1>1. IInv => NoLostWakeup
  BY DEF IInv
<1> QED
  BY <1>1, Invariant, PTL

(* `lock` never waits for the writer, with the admission mutex kept, while a *)
(* restore that takes the two in the other order is under way. *)
THEOREM NoInversion == Spec => []NoLockInversion
<1>1. IInv => NoLockInversion
  <2> SUFFICES ASSUME IInv, admOwner # NoThread
               PROVE  Holding(GrantedPCs \cup {"draining"}) = {}
    BY DEF NoLockInversion
  <2>1. phase = "Idle"
    BY DEF IInv, TypeOK, AdmissionKept
  <2> QED
    BY <2>1 DEF IInv, RestorerAlone, IsActive, Holding
<1> QED
  BY <1>1, Invariant, PTL

(* What ParkedStaysShut says of one step. *)
ParkedShutStep ==
  phase = "Parked" =>
    /\ phase' \in {"Parked", "ActiveArmed"}
    /\ pending'
    /\ \A t \in Threads :
         pc'[t] \in CapturePCs \cup MutationPCs \cup {"lockTake"}
           => pc[t] \in CapturePCs \cup MutationPCs

LEMMA NextParked == IInv /\ [Next]_vars => ParkedShutStep \/ UNCHANGED vars
<1> SUFFICES ASSUME IInv, Next, phase = "Parked" PROVE ParkedShutStep
  BY DEF ParkedShutStep
<1>1. TypeOK /\ pending = TRUE
  BY DEF IInv, FlagFollowsPhase
<1>2. \A t \in Threads : pc[t] \notin GrantedPCs \cup {"draining"}
  BY DEF IInv, RestorerAlone, IsActive
<1>3. admOwner = NoThread
  BY <1>1 DEF IInv, TypeOK, AdmissionKept
<1>4. \A t \in Threads : pc[t] = "finished" => gen[t] # generation
  BY DEF IInv, ReservationSpent
<1>5. \A t \in Threads : pc[t] # "lockTake"
  BY <1>3, ThreadsAssumption DEF IInv, AdmissionKept
<1>6. ASSUME NEW t \in Threads, Begin(t) PROVE ParkedShutStep
  <2>1. CASE LockCheck(t)
    BY <1>1, <1>5, <2>1 DEF TypeOK, LockCheck, MustWait, ParkedShutStep
  <2>2. CASE AcquirePermit(t)
    BY <1>1, <1>5, <2>2 DEF TypeOK, AcquirePermit, ParkedShutStep
  <2>3. ASSUME NEW recovery \in BOOLEAN, Reserve(t, recovery) PROVE ParkedShutStep
    BY <1>1, <1>5, <2>3
       DEF TypeOK, Reserve, ReserveOutcome, MayReserve, Open, NoMutationActive, ParkedShutStep
  <2> QED
    BY <1>1, <1>6, <2>1, <2>2, <2>3
       DEF Begin, BeginMutation, CaptureGeneration, BeginMutationAtGeneration, BeginCapture, Open
<1>7. ASSUME NEW t \in Threads, Continue(t) \/ Detour(t) PROVE ParkedShutStep
  <2>1. CASE LockCheck(t)
    BY <1>1, <1>5, <2>1 DEF TypeOK, LockCheck, MustWait, ParkedShutStep
  <2>2. CASE Unlock(t) \/ UnlockAfterMutation(t) \/ LockAfterMutation(t) \/ DropMutation(t)
    BY <1>1, <1>5, <2>2
       DEF TypeOK, Unlock, UnlockAfterMutation, LockAfterMutation, DropMutation, ParkedShutStep
  <2>3. CASE OpenRead(t) \/ DropCapture(t) \/ DropPermit(t)
    BY <1>1, <1>5, <2>3 DEF TypeOK, OpenRead, DropCapture, DropPermit, ParkedShutStep
  <2>4. CASE DropReservation(t)
    BY <1>1, <1>2, <1>4, <1>5, <2>4 DEF TypeOK, DropReservation, ParkedShutStep
  <2> QED
    BY <1>2, <1>5, <1>7, <2>1, <2>2, <2>3, <2>4
       DEF Continue, Detour, LockTake, ReserveDrained, RequestRestoreWriter, LockRestoreWriter,
           RecheckRestoreWriter, RestoreWriterFails, Publish, Commit, Arm, Disarm
<1>8. CASE Stopped
  BY <1>1, <1>5, <1>8 DEF Stopped, vars, ParkedShutStep
<1> QED
  BY <1>6, <1>7, <1>8 DEF Next

(* From Parked only claim_recovery leads on, and it leads to ActiveArmed; the *)
(* database stays shut to readers, mutations and ordinary writers throughout. *)
THEOREM ParkedShut == Spec => ParkedStaysShut
<1>1. IInv /\ [Next]_vars => [ParkedShutStep]_vars
  BY NextParked
<1> QED
  BY <1>1, Invariant, PTL DEF Spec, ParkedStaysShut, ParkedShutStep

=============================================================================
