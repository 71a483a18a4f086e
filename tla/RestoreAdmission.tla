--------------------------- MODULE RestoreAdmission ---------------------------
(***************************************************************************)
(* The admission boundary of the DatabaseRuntime (database_runtime.rs):    *)
(* ordinary writers, mutation guards, bounded readers, snapshot captures   *)
(* and database restores on one RestoreAdmission, one writer connection    *)
(* and one read-connection pool.                                           *)
(*                                                                         *)
(* A thread is anything that calls the runtime.  An action is one critical *)
(* section of the admission mutex, or one blocking acquisition; between    *)
(* two actions of a thread every other thread may run.  Only `lock` keeps  *)
(* the admission mutex across steps, while it waits for the writer.  A     *)
(* refused call that changes nothing is not a step.                        *)
(***************************************************************************)
EXTENDS Naturals, FiniteSets

CONSTANTS
  Threads,         \* callers of the runtime
  NoThread,        \* the owner of a free mutex
  MaxGeneration,   \* u64::MAX: checked_add refuses to count above it
  ReadCapacity     \* DEFAULT_READ_CONNECTIONS

ASSUME ThreadsAssumption ==
  IsFiniteSet(Threads) /\ NoThread \notin Threads
ASSUME BoundsAssumption ==
  MaxGeneration \in Nat /\ ReadCapacity \in Nat \ {0}

VARIABLES
  pending,      \* RestoreAdmission.pending, the atomic flag
  captures,     \* RestoreAdmissionState.captures_active
  mutations,    \* RestoreAdmissionState.mutations_active
  generation,   \* RestoreAdmissionState.generation
  phase,        \* RestoreAdmissionState.phase
  waiting,      \* threads asleep on the condition variable `complete`
  admOwner,     \* who keeps the admission mutex across steps
  writer,       \* who holds the Mutex<Database>
  permits,      \* ReadConnectionPool.available
  pc,           \* where each thread is
  gen,          \* generation of the thread's RestoreReservation, 0 without one
  tokens,       \* the RestoreGeneration values handed out so far
  epoch,        \* observer: restores published to the live database
  seen          \* observer: the epoch a thread's guard was taken under, else 0

locks == <<admOwner, writer>>
observed == <<tokens, epoch>>
vars == <<pending, captures, mutations, generation, phase, waiting, admOwner,
          writer, permits, pc, gen, tokens, epoch, seen>>

(***************************************************************************)
(* Program counters, grouped by the authority a thread has there.          *)
(***************************************************************************)
CapturePCs == {"reading", "snapshotting"}
MutationPCs == {"mutating", "mutWriting"}
PermitPCs == {"permitted", "reading", "closing"}
WriterPCs == {"writing", "mutWriting", "writerLocked", "publishing"}
GrantedPCs == {"reserved", "wantWriter", "writerLocked", "publishing", "published", "failed"}
PCs == {"idle", "lockWait", "lockTake", "draining", "finished"}
         \cup CapturePCs \cup MutationPCs \cup PermitPCs \cup WriterPCs \cup GrantedPCs

Phases == {"Idle", "ActiveNew", "ActiveArmed", "Parked"}
Active == {"ActiveNew", "ActiveArmed"}
Holding(S) == {t \in Threads : pc[t] \in S}

Init ==
  /\ pending = FALSE
  /\ captures = 0
  /\ mutations = 0
  /\ generation = 0
  /\ phase = "Idle"
  /\ waiting = {}
  /\ admOwner = NoThread
  /\ writer = NoThread
  /\ permits = ReadCapacity
  /\ pc = [t \in Threads |-> "idle"]
  /\ gen = [t \in Threads |-> 0]
  /\ tokens = {}
  /\ epoch = 0
  /\ seen = [t \in Threads |-> 0]

Goto(t, label) == pc' = [pc EXCEPT ![t] = label]
Admit(t, e) == seen' = [seen EXCEPT ![t] = e]
AdmissionFree == admOwner = NoThread
Open == phase = "Idle" /\ ~pending

\* `complete.notify_all()`, and its mutant `complete.notify_one()`.
NotifyOne == IF waiting = {} THEN waiting' = {} ELSE \E t \in waiting : waiting' = waiting \ {t}
NotifyAll == waiting' = {}

\* The conditions the calls test, each with a mutant that forgets it.
PendingIgnored == FALSE
MustWait == pending
AnyGeneration(token) == token.gen <= generation
SameGeneration(token) == token.gen = generation
PermitIgnored == TRUE
PermitFree == permits > 0
MutationsIgnored == TRUE
NoMutationActive == mutations = 0
AnyoneMayReserve(recovery) == Open \/ phase = "Parked"
MayReserve(recovery) == Open \/ (phase = "Parked" /\ recovery)

-----------------------------------------------------------------------------
(* Ordinary writers: DatabaseRuntime::lock. *)

\* One pass of the `while is_pending` loop of RestoreAdmission::lock: sleep on
\* the condition variable, or go on to the writer with the mutex still held.
LockCheck(t) ==
  /\ pc[t] \in {"idle", "lockWait"} /\ t \notin waiting
  /\ AdmissionFree
  /\ IF MustWait
       THEN Goto(t, "lockWait") /\ waiting' = waiting \cup {t} /\ UNCHANGED admOwner
       ELSE Goto(t, "lockTake") /\ admOwner' = t /\ UNCHANGED waiting
  /\ UNCHANGED <<pending, captures, mutations, generation, phase, writer, permits,
                 gen, tokens, epoch, seen>>

\* `mutex.lock()` returns and the admission guard is dropped.
LockTake(t) ==
  /\ pc[t] = "lockTake" /\ writer = NoThread
  /\ writer' = t
  /\ admOwner' = NoThread
  /\ Goto(t, "writing")
  /\ UNCHANGED <<pending, captures, mutations, generation, phase, waiting, permits,
                 gen, tokens, epoch, seen>>

\* The caller drops its MutexGuard<Database>.
Unlock(t) ==
  /\ pc[t] = "writing"
  /\ writer' = NoThread
  /\ Goto(t, "idle")
  /\ UNCHANGED <<pending, captures, mutations, generation, phase, waiting, admOwner,
                 permits, gen, tokens, epoch, seen>>

-----------------------------------------------------------------------------
(* Mutation authority. *)

BeginMutation(t) ==
  /\ pc[t] = "idle" /\ AdmissionFree
  /\ Open
  /\ mutations' = mutations + 1
  /\ Goto(t, "mutating") /\ Admit(t, epoch)
  /\ UNCHANGED <<pending, captures, generation, phase, waiting, permits, gen,
                 locks, observed>>

\* The token goes to whoever prepares a write: a preflight, a draft, the renderer.
CaptureGeneration(t) ==
  /\ pc[t] = "idle" /\ AdmissionFree
  /\ Open
  /\ tokens' = tokens \cup {[gen |-> generation, epoch |-> epoch]}
  /\ UNCHANGED <<pending, captures, mutations, generation, phase, waiting, permits,
                 pc, gen, epoch, seen, locks>>

BeginMutationAtGeneration(t, token) ==
  /\ pc[t] = "idle" /\ AdmissionFree
  /\ SameGeneration(token)
  /\ Open
  /\ mutations' = mutations + 1
  /\ Goto(t, "mutating") /\ Admit(t, token.epoch)
  /\ UNCHANGED <<pending, captures, generation, phase, waiting, permits, gen,
                 locks, observed>>

LockAfterMutation(t) ==
  /\ pc[t] = "mutating" /\ writer = NoThread
  /\ writer' = t
  /\ Goto(t, "mutWriting")
  /\ UNCHANGED <<pending, captures, mutations, generation, phase, waiting, admOwner,
                 permits, gen, tokens, epoch, seen>>

UnlockAfterMutation(t) ==
  /\ pc[t] = "mutWriting"
  /\ writer' = NoThread
  /\ Goto(t, "mutating")
  /\ UNCHANGED <<pending, captures, mutations, generation, phase, waiting, admOwner,
                 permits, gen, tokens, epoch, seen>>

DropMutation(t) ==
  /\ pc[t] = "mutating" /\ AdmissionFree
  /\ mutations' = mutations - 1
  /\ NotifyAll
  /\ Goto(t, "idle") /\ Admit(t, 0)
  /\ UNCHANGED <<pending, captures, generation, phase, permits, gen, locks, observed>>

-----------------------------------------------------------------------------
(* Readers and snapshot captures. *)

\* open_read takes a permit before it asks for admission.  Waiting for a permit
\* beyond the pool's timeout is an error that leaves nothing behind.
AcquirePermit(t) ==
  /\ pc[t] = "idle" /\ PermitFree
  /\ permits' = permits - 1
  /\ Goto(t, "permitted")
  /\ UNCHANGED <<pending, captures, mutations, generation, phase, waiting, gen, seen,
                 locks, observed>>

\* begin_capture inside open_read; a refusal drops the permit (as "closing").
OpenRead(t) ==
  /\ pc[t] = "permitted" /\ AdmissionFree
  /\ IF pending
       THEN Goto(t, "closing") /\ UNCHANGED <<captures, seen>>
       ELSE captures' = captures + 1 /\ Goto(t, "reading") /\ Admit(t, epoch)
  /\ UNCHANGED <<pending, mutations, generation, phase, waiting, permits, gen,
                 locks, observed>>

\* begin_capture inside begin_snapshot_capture.
BeginCapture(t) ==
  /\ pc[t] = "idle" /\ AdmissionFree
  /\ ~pending
  /\ captures' = captures + 1
  /\ Goto(t, "snapshotting") /\ Admit(t, epoch)
  /\ UNCHANGED <<pending, mutations, generation, phase, waiting, permits, gen,
                 locks, observed>>

\* A ReadDatabase drops its capture before its permit.
DropCapture(t) ==
  /\ pc[t] \in CapturePCs /\ AdmissionFree
  /\ captures' = captures - 1
  /\ NotifyAll
  /\ Goto(t, IF pc[t] = "reading" THEN "closing" ELSE "idle") /\ Admit(t, 0)
  /\ UNCHANGED <<pending, mutations, generation, phase, permits, gen, locks, observed>>

DropPermit(t) ==
  /\ pc[t] = "closing"
  /\ permits' = IF permits + 1 > ReadCapacity THEN ReadCapacity ELSE permits + 1
  /\ Goto(t, "idle")
  /\ UNCHANGED <<pending, captures, mutations, generation, phase, waiting, gen, seen,
                 locks, observed>>

-----------------------------------------------------------------------------
(* Restores: reserve, the restore writer, arm, disarm, commit and drop. *)

\* The end of `reserve`, once no capture is active: grant the reservation of
\* generation g in phase p, or refuse because of an active mutation.
ReserveOutcome(t, p, g) ==
  IF NoMutationActive
    THEN /\ phase' = p /\ pending' = TRUE /\ UNCHANGED waiting
         /\ gen' = [gen EXCEPT ![t] = g]
         /\ Goto(t, "reserved")
    ELSE /\ IF p = "ActiveArmed"
              THEN phase' = "Parked" /\ pending' = TRUE /\ UNCHANGED waiting
              ELSE phase' = "Idle" /\ pending' = FALSE /\ NotifyAll
         /\ gen' = [gen EXCEPT ![t] = 0]
         /\ Goto(t, "idle")

\* try_reserve (recovery = FALSE) and claim_recovery (recovery = TRUE) up to the
\* first wait or the result.
Reserve(t, recovery) ==
  /\ pc[t] = "idle" /\ AdmissionFree
  /\ generation < MaxGeneration
  /\ MayReserve(recovery)
  /\ generation' = generation + 1
  /\ LET p == IF recovery THEN "ActiveArmed" ELSE "ActiveNew"
     IN IF captures > 0
          THEN /\ phase' = p /\ pending' = TRUE
               /\ waiting' = waiting \cup {t}
               /\ gen' = [gen EXCEPT ![t] = generation + 1]
               /\ Goto(t, "draining")
          ELSE ReserveOutcome(t, p, generation + 1)
  /\ UNCHANGED <<captures, mutations, permits, seen, locks, observed>>

\* `reserve` wakes up and tests captures_active again.
ReserveDrained(t) ==
  /\ pc[t] = "draining" /\ t \notin waiting /\ AdmissionFree
  /\ IF captures > 0
       THEN waiting' = waiting \cup {t} /\ UNCHANGED <<phase, pending, pc, gen>>
       ELSE ReserveOutcome(t, phase, gen[t])
  /\ UNCHANGED <<captures, mutations, generation, permits, seen, locks, observed>>

IsActive(t) == generation = gen[t] /\ phase \in Active

\* with_restore_writer: the first is_active check.
RequestRestoreWriter(t) ==
  /\ pc[t] = "reserved" /\ AdmissionFree
  /\ IsActive(t)
  /\ Goto(t, "wantWriter")
  /\ UNCHANGED <<pending, captures, mutations, generation, phase, waiting, permits,
                 gen, seen, locks, observed>>

LockRestoreWriter(t) ==
  /\ pc[t] = "wantWriter" /\ writer = NoThread
  /\ writer' = t
  /\ Goto(t, "writerLocked")
  /\ UNCHANGED <<pending, captures, mutations, generation, phase, waiting, admOwner,
                 permits, gen, seen, observed>>

\* The second is_active check, made with the writer held.
RecheckRestoreWriter(t) ==
  /\ pc[t] = "writerLocked" /\ AdmissionFree
  /\ IF IsActive(t)
       THEN Goto(t, "publishing") /\ UNCHANGED writer
       ELSE Goto(t, "failed") /\ writer' = NoThread
  /\ UNCHANGED <<pending, captures, mutations, generation, phase, waiting, admOwner,
                 permits, gen, seen, observed>>

\* The reopening or the operation fails; an operation may fail after it has
\* already replaced the live pages.  The caller gives the reservation up.
RestoreWriterFails(t, replaced) ==
  /\ pc[t] = "publishing"
  /\ epoch' = IF replaced THEN epoch + 1 ELSE epoch
  /\ writer' = NoThread
  /\ Goto(t, "failed")
  /\ UNCHANGED <<pending, captures, mutations, generation, phase, waiting, admOwner,
                 permits, gen, tokens, seen>>

\* The operation replaces the live database and the reopened connection is
\* installed; the writer is released.
Publish(t) ==
  /\ pc[t] = "publishing"
  /\ epoch' = epoch + 1
  /\ writer' = NoThread
  /\ Goto(t, "published")
  /\ UNCHANGED <<pending, captures, mutations, generation, phase, waiting, admOwner,
                 permits, gen, tokens, seen>>

\* arm_named_restore is called inside the restore operation.
Arm(t) ==
  /\ pc[t] = "publishing" /\ AdmissionFree
  /\ generation = gen[t] /\ phase \in Active
  /\ phase' = "ActiveArmed"
  /\ UNCHANGED <<pending, captures, mutations, generation, waiting, permits, pc, gen,
                 seen, locks, observed>>

Disarm(t) ==
  /\ pc[t] = "publishing" /\ AdmissionFree
  /\ generation = gen[t] /\ phase = "ActiveArmed"
  /\ phase' = "ActiveNew"
  /\ UNCHANGED <<pending, captures, mutations, generation, waiting, permits, pc, gen,
                 seen, locks, observed>>

\* commit_named_restore: after a publication, or for a restore that an earlier
\* process completed.
Commit(t) ==
  /\ pc[t] \in {"reserved", "published"} /\ AdmissionFree
  /\ generation = gen[t] /\ phase = "ActiveArmed"
  /\ phase' = "Idle"
  /\ pending' = FALSE
  /\ NotifyAll
  /\ Goto(t, "finished")
  /\ UNCHANGED <<captures, mutations, generation, permits, gen, seen, locks, observed>>

\* RestoreReservation::drop.
DropReservation(t) ==
  /\ pc[t] \in {"reserved", "published", "failed", "finished"} /\ AdmissionFree
  /\ IF generation = gen[t] /\ phase = "ActiveNew"
       THEN phase' = "Idle" /\ pending' = FALSE /\ NotifyAll
       ELSE /\ phase' = IF generation = gen[t] /\ phase = "ActiveArmed"
                          THEN "Parked" ELSE phase
            /\ UNCHANGED <<pending, waiting>>
  /\ gen' = [gen EXCEPT ![t] = 0]
  /\ Goto(t, "idle")
  /\ UNCHANGED <<captures, mutations, generation, permits, seen, locks, observed>>

-----------------------------------------------------------------------------
\* What a caller may start whenever it likes.
Begin(t) ==
  \/ LockCheck(t) /\ pc[t] = "idle"
  \/ BeginMutation(t)
  \/ CaptureGeneration(t)
  \/ \E token \in tokens : BeginMutationAtGeneration(t, token)
  \/ AcquirePermit(t)
  \/ BeginCapture(t)
  \/ \E recovery \in BOOLEAN : Reserve(t, recovery)

\* What a call that has begun goes on to do.
Continue(t) ==
  \/ LockCheck(t) /\ pc[t] = "lockWait"
  \/ LockTake(t)
  \/ Unlock(t)
  \/ UnlockAfterMutation(t)
  \/ DropMutation(t)
  \/ OpenRead(t)
  \/ DropCapture(t)
  \/ DropPermit(t)
  \/ ReserveDrained(t)
  \/ RequestRestoreWriter(t)
  \/ LockRestoreWriter(t)
  \/ RecheckRestoreWriter(t)
  \/ \E replaced \in BOOLEAN : RestoreWriterFails(t, replaced)
  \/ Publish(t)
  \/ Commit(t)
  \/ DropReservation(t)

\* What it may also do on the way, any number of times.
Detour(t) == LockAfterMutation(t) \/ Arm(t) \/ Disarm(t)

\* Parked, with every caller asleep in `lock` or, at the last generation, refused:
\* only a further caller's claim_recovery or a restart of the process helps.
Stopped ==
  /\ phase = "Parked"
  /\ \A t \in Threads : t \in waiting \/ (pc[t] = "idle" /\ generation = MaxGeneration)
  /\ UNCHANGED vars

Next == (\E t \in Threads : Begin(t) \/ Continue(t) \/ Detour(t)) \/ Stopped

Spec == Init /\ [][Next]_vars

\* Every call is a synchronous function on a thread of its own: it keeps running
\* to its end.  No fairness between threads that contend for a mutex.
FairSpec == Spec /\ \A t \in Threads : WF_vars(Continue(t))

-----------------------------------------------------------------------------
(* Properties. *)

TypeOK ==
  /\ pending \in BOOLEAN
  /\ captures \in Nat /\ mutations \in Nat
  /\ generation \in 0 .. MaxGeneration
  /\ phase \in Phases
  /\ waiting \in SUBSET Threads
  /\ admOwner \in Threads \cup {NoThread}
  /\ writer \in Threads \cup {NoThread}
  /\ permits \in 0 .. ReadCapacity
  /\ pc \in [Threads -> PCs]
  /\ gen \in [Threads -> Nat]
  /\ tokens \in SUBSET [gen : Nat, epoch : Nat]
  /\ epoch \in Nat
  /\ seen \in [Threads -> Nat]

\* While a reservation is granted (reserve has returned Ok and neither commit nor
\* drop has run) nothing else has database authority: no reader or snapshot
\* capture, no mutation guard and no second reservation, and the admission is
\* still this reservation's own, so is_active answers yes until it gives it up.
RestoreExclusion ==
  \A t \in Holding(GrantedPCs) :
    /\ Holding(CapturePCs \cup MutationPCs) = {}
    /\ Holding(GrantedPCs \cup {"draining"}) = {t}
    /\ IsActive(t)

\* A thread with a mutation guard or a read snapshot works on the database it was
\* admitted to: for a guard taken at a captured generation, on the database whose
\* generation was captured, however long ago.  No pre-restore draft, batch or
\* reader ever touches the replacement database.
OneDatabaseGeneration ==
  \A t \in Holding(CapturePCs \cup MutationPCs) : seen[t] = epoch

\* Nobody sleeps through the event it waits for: a `lock` caller is asleep only
\* while a restore is pending, a draining `reserve` only while a capture is
\* active (both use the one condition variable `complete`).
NoLostWakeup ==
  \A t \in waiting :
    \/ pc[t] = "lockWait" /\ pending
    \/ pc[t] = "draining" /\ captures > 0

\* The admission mutex is kept while waiting for the writer only when no restore
\* is pending, so the restore path may take it with the writer held (the
\* opposite order) without a deadlock.
NoLockInversion ==
  admOwner # NoThread => Holding(GrantedPCs \cup {"draining"}) = {}

\* An interrupted named restore keeps the database shut: from Parked, the phase
\* moves only by an explicit recovery, and no call enters while it is Parked.
ParkedStaysShut ==
  [][phase = "Parked" =>
       /\ phase' \in {"Parked", "ActiveArmed"}
       /\ pending'
       /\ \A t \in Threads :
            pc'[t] \in CapturePCs \cup MutationPCs \cup {"lockTake"}
              => pc[t] \in CapturePCs \cup MutationPCs]_vars

\* Every restore comes to an end: the drain of captures, the wait for the writer
\* and the restore itself never deadlock with readers, writers or mutations.
RestoreResolves ==
  \A t \in Threads :
    pc[t] \in GrantedPCs \cup {"draining"} ~> pc[t] \in {"finished", "idle"}
=============================================================================
