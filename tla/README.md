# A TLA+ model of Cortex Speech

Cortex Speech is a Tauri desktop application (Rust and Svelte) for Central Kurdish speech data. Audio
is imported, cut into segments, transcribed by an ASR champion, judged by an automatic jury, reviewed
by people at the desktop and on phones, and exported. One SQLite database and a few configuration files
beside it hold everything; one process owns them. The process is concurrent: Tauri commands, worker
threads, the phone server and timers share one writer connection, a pool of readers and several
process-local gates, and everything that must survive a crash is journalled.

Paths below are relative to `src/cortex-speech-app/src-tauri/src/` unless they begin with `src/`.

- [Inventory](#inventory) and [plan](#plan)
- [Modules](#modules): how state and actions correspond to the code
- [Runs](#runs), [bounds](#bounds), [fairness](#fairness)
- [Findings](#findings) and [observations](#observations)
- [Proofs](#proofs) and [what stays with the model checker](#what-is-only-model-checked)
- [Not modelled](#not-modelled)

## Inventory

**Modelled so far**

| Component | State | Operations | Correct when |
|---|---|---|---|
| Restore admission (`database_runtime.rs`) | phase, generation, `captures_active`, `mutations_active`, the pending flag, one writer mutex, read permits | `lock`, `begin_mutation`, `begin_mutation_at_generation`, `open_read`, `begin_snapshot_capture`, `try_reserve`, `claim_recovery`, arm, disarm, commit, drop | a restore is alone on the database; nothing admitted to one database writes to the next; nobody waits for ever |
| Fence of background writers (`lib.rs` `writers_active`, `recovery.rs`, `commands.rs`, `commands/system_ops.rs`, `pipeline/import_flow.rs`) | import, batch and Couch gates, `WSL_REFINE_RUNNING`, `BG_DB_WRITERS` | check, register, recheck, hand over, finish; probe by a restore | no writer outside the admission runs under a restore, and no registration leaks |
| Review drafts (`stores/review_draft.rs`) | reservation per segment, draft rows, segment revisions | reserve, save, delete; decisions and edits by others | a late save never overwrites newer intent, a decided draft stays gone |
| Named restore (`recovery.rs`, `restore_service/orchestration.rs`, `commands/recovery_ipc.rs`) | live database, coupled files, durable marker, snapshots and pins, undo history | restore a named snapshot, restore a bare database, retry, recover at startup | the library is old or new as a whole after any error, end of the process or power loss, as long as no attempt or start has gone on over directory entries that were never synchronized (finding 4); the original stays available |
| Durable batches (`db/batch_jobs.rs`, `commands/durable_batch.rs`, `commands/batch.rs`, `stores/batch.rs`) | job header, item ledger, gate, tracker, lease | claim, admit, commit item, finish, record, settle, reconcile | header and items agree; a settled run is proved; human work is never replaced |
| Batch polling (`commands/batch_status.rs`) | a poll in flight | journal read, tracker read, re-read | a settled answer is final |
| Undo of batches (`history/mod.rs`, `db/batch_jobs/history.rs`) | undo and redo stacks of tokens | record, undo, redo | only the batch's own text is replaced |
| Couch Review server and its page (`couch.rs`, `couch/*.rs`, `src/cortex-speech-app/src-tauri/assets/couch.html`) | leases, served clips, operations in flight, undo tokens, the commit guard; on the phone an outbox, the cards shown and the opinion to undo | load a queue, renew, submit, replay, skip, undo; lost answers, repeats, restarts | a repeated submit has one effect, nobody replaces another's verdict, what is held offline is settled |
| Review decisions and their undo (`db/finalization.rs`, `db/decisions.rs`, `db/review.rs`) | rows with revisions, effect events and reversals, skips, compensation ledger | decide, skip, undo, by phones and the desktop | a verdict stands on the text that was served, pay is the rate of what stands, one undo takes back one decision |
| Review pool (`review_pool.rs`) | opinions and reversals | record an opinion, reverse it, resolve, list what is pending | the history loads at the next start, a resolved clip is decided by its evidence |
| Champion promotion (`champion_promotion.rs`, `champion_promotion_runtime.rs`, `registry.rs`, startup in `lib.rs`) | job row with its phase, registry champion, `champion.json` with its backups, lease and fence | recover a promotion forward or back, publish the pointer | the phase tells the truth after any crash, an outcome rests on a proof of this process |
| Engine supervision (`engine_supervisor.rs`, `engine_runtime.rs`) | breaker, failures, trips, backoff, warm-up; the engine process | tick, start, adopt a start, toggle, shut down | starts are fenced and bounded, the breaker neither spins nor sticks |
| File replacement on Windows (`atomic_file.rs`) | target and backups | two renames, cleanup, recovery | what was published last survives every crash |

**To be modelled**

| Component | State | Operations | Correct when |
|---|---|---|---|
| Couch sessions (`couch/lifecycle.rs`) | session file, pairing codes, revocation marker | stop, start, resume | a revoked session stays revoked |
| Rest of the review flow (`review_pilot.rs`, `review_campaign.rs`, `review_pool/reopen.rs`, flags) | pilot keys, rounds, adjudications, flags | serve a key, reopen, adjudicate, flag | budgets are not exceeded, a clip resolves from exactly its evidence |
| Import flow (`pipeline/import_flow.rs`, `commands/ingest.rs`, `jobs.rs`) | import journal, source leases, gate | import, resume, discard | a source is imported once; resume and discard never meet a live import |
| Snapshot rotation (`snapshot.rs`, `backup_service.rs`) | snapshot tree, pins, health counters | capture, publish, rotate, prune | a good generation always remains |

How they interact. Every database access goes through the `DatabaseRuntime` and so through the restore
admission. A restore reserves the admission, probes the background writers through `writers_active`,
pins the present library through the snapshot code, replaces pages and files, clears the undo history
and commits the admission. Batches and drafts capture a restore generation first and enter a mutation at
that generation. A batch, an import and the Couch server each hold a gate that both a second start and a
restore look at. The renderer learns about a batch by polling an operation id that it chose itself. A
phone chooses an operation id too, and repeats its request until it is answered; the threads that answer
share a session in memory and commit through the same database as the desktop and the batches, whose
writes raise the revision of a clip. At startup, after the restore and the batches, a promotion that was
interrupted is recovered, and only then may anything start the engine from the pointer file.

What is hard here: steps between two locks of one command; conditions read before a wait and used after
it; a mutex order that is reversed on purpose in one place; values captured before a restore and used
after it; journals written by a worker, its guard, its lease and the next start; directory entries that
are visible but not yet durable; retries of work that was half done; answers that are lost, and requests
that arrive after their sender gave up; tokens taken from a shared stack while their transaction runs;
effects that a crash separates from the phase that records them; limits met exactly at a tick.
`PROJECT.json` lists these hazards
at their lines, each with the properties about it.

## Plan

1. `RestoreAdmission` and its proofs: everything else relies on it. *Done.*
2. `WriterFence` and its proofs: the other half of a restore's exclusion. *Done.*
3. `ReviewDraft`, composed with 1 by `EXTENDS`, as the first client of the admission. *Done.*
4. `AtomicRestore` (what a restore promises) and `NamedRestore` (what it does), with the refinement
   between them. *Done.*
5. `BatchJob`: journal, worker, poll and history of batches. *Done.*
6. `SupervisorPolicy` and `ChampionEngine`: the restart policy as a pure module, and the recovery of a
   promotion, the pointer file, the Start button and the supervision loop around it. *Done.*
7. `CouchReview`: phones, the server's threads, decisions, opinions, pay and undo, with and without a
   review pool. *Done.*
8. Couch sessions: Stop, Start and resume with the revocation marker; pilots and reopened rounds.
9. `ImportFlow`: journal, resume and discard; snapshot rotation; the remaining history commands and the
   eviction of old entries.
10. `BatchJob` over `RestoreAdmission`: the lease as a mutation guard, so that a batch and a restore meet
    in one module.
11. Proofs of every safety property the runs check, component by component: admission, fence, drafts,
    restore, batches, engine, and the verdicts, pool and pay of `CouchReview`. *Done.*

The abstract specifications worth stating are `AtomicRestore` and, for drafts, the admission itself (both
done), and a ledger of standing judgements for `CouchReview`, whose content `PayFollowsStandingWork`
states as an invariant, now proved. Components that share no state with another get no composition.

## Modules

| Module | Contents |
|---|---|
| `RestoreAdmission` | the admission, the writer mutex, the read pool |
| `RestoreAdmissionProofs` | theorems about it |
| `WriterFence` | gates, flag, counter and the probe of a restore |
| `WriterFenceProofs` | theorems about it |
| `ReviewDraft` | the draft store; extends `RestoreAdmission` |
| `ReviewDraftProofs` | theorems about it; extends `RestoreAdmissionProofs` too |
| `AtomicRestore` | the promise: a restore is one step |
| `NamedRestore` | the restore in detail; instantiates `AtomicRestore` |
| `NamedRestoreProofs` | theorems about it, the refinement included |
| `BatchJob` | durable batches, polling, undo |
| `BatchJobProofs` | theorems about it |
| `SupervisorPolicy` | breaker, backoff and warm-up as operators on one state |
| `ChampionEngine` | promotion recovery, pointer file, engine and supervision loop; extends `SupervisorPolicy` |
| `ChampionEngineProofs` | theorems about it |
| `CouchReview` | phones, server threads, decisions, pool, pay, undo |
| `CouchReviewProofs` | theorems about it |
| `MC...` | the instances for TLC |

A definition keeps the name of the function it stands for where one exists; the "map" of `PROJECT.json`
gives the lines. Some modules hold small operators for one condition of the code, each preceded by a
variant with a plausible mistake (`NotifyOne` beside `NotifyAll`, `BestEffort` beside `Strict`). The
variants are not used by the specifications. Each property has one that violates it.

### RestoreAdmission

One action is one critical section of the admission mutex or one blocking acquisition. `pc[t]` is where
a caller is, and the groups of program counters name what it holds there: `CapturePCs`, `MutationPCs`,
`PermitPCs`, `WriterPCs`, `GrantedPCs`. Three points of the code shape the model. `lock` keeps the
admission mutex while it waits for the writer (`LockCheck`, `LockTake`, `admOwner`), while
`with_restore_writer` takes the admission mutex with the writer held (`RecheckRestoreWriter`, `Arm`): an
order inversion that only `pending` makes safe. Writers that wait and a restore that drains captures sleep
on one condition variable (`waiting`, `NotifyAll`). And `reserve` counts the generation up before it
drains, so a refused reservation also invalidates captured tokens.

`epoch` and `seen` are observers: the number of databases published, and the one a guard was admitted to.
They let `OneDatabaseGeneration` speak about databases where the code only has generation numbers.

Calls that are refused and change nothing are no steps. `Stopped` stands for the parked admission in
which only a new caller's recovery or a restart helps; every other state without a successor would be a
deadlock and TLC looks for one.

### WriterFence

Five sources are probed in the order of `writers_active`, one step each (`Probe`, `Busy`). A gate's lock
is held between its check and its registration (`"checked"`), and a probe of it waits (`Readable`). The
flag and the counter are published first and the reservation re-read afterwards (`Register`, `Recheck`).
`Align` is the alignment thread of an import: it is registered in the counter by a running import, without
a check of its own, and outlives it. This is why the order of the probes matters. The mutant that reads
the counter before the import gate lets a restore run under such a thread.

### ReviewDraft

Draft commands run on the threads of `RestoreAdmission` and use its actions: `CaptureGeneration` inside
`ReserveDraft`, `BeginMutationAtGeneration` inside `EnterDraftWrite`. The `review_draft_writes` mutex is
held from `DraftLock` to the end of the call. Decisions delete the draft of the revision they decide and
the revision trigger of the schema counts up; other edits count up only. A restore brings the segment
back to any earlier revision with any draft the snapshot may hold.

`ImplementsAdmission` says that, seen by the admission, the draft store is one more client: every step is
a step of `RestoreAdmission` or leaves its variables alone.

### AtomicRestore and NamedRestore

`AtomicRestore` knows a library that is open or shut. When it reopens it is what it was, or what one
snapshot that keeps its human authority makes of it. The promise is void (`Void`) once `relapsed`.

`NamedRestore` has one restore at a time, which `RestoreExclusion` justifies, and one step per durable
operation: `RecordMarker`, `Publish`, `InstallFile` for each coupled file, `MarkCompleted`, `ClearMarker`.
A write in the data directory (`WriteData`) succeeds, fails, or is visible while the strict sync of the
directory failed; `configDisk` and `markerDisk` are what a power loss would leave. `ProcessEnds` leaves
what is visible as it is, synchronized or not; `PowerLoss` may keep or undo each unsynced entry. The recovery before startup (`Recover`, `RetryTarget`, `RollBack`) uses the same
steps as the command. Markers of earlier releases, without digests, are initial states. Bytes are
identified with the generation they come from, so a digest is the generation. What makes a target
admissible (`restore_service/authority.rs` and its companions compare tables of two databases) is the
constant relation `Supersets`, and `Reviewed` are the databases a bare restore refuses.

In the refinement mapping `open` is "the process is up and the phase is Idle", and `library` is the live
content while open and the content last seen open otherwise (`floor`).

Nothing in the code synchronizes at the beginning of an attempt or of a start what an earlier one has
left unsynced: `load_named_restore_pending` reads the marker as it is and the work goes on from there
(`TakeAsFound`). The sync after an ordinary replacement of a file (`Edit`) is best effort, and on Windows
never succeeds (`atomic_file.rs:204`). The older entries of the disk become `strays`, which a power loss can
bring back, each by itself, until the next sync of the directory (`Returns`). A power loss that does sets
the observer `relapsed`, and with it ends what `MixtureIsBarred`, `OriginalSurvives`, `CompletedIsFinal`,
`PublishesRecorded`, `InterruptionEnds` and `RestoresAreAtomic` promise; `BarrierShutsLibrary` is promised
for good. What strays cost is the subject of the run `restore_strays`. SQLite may
synchronize the directory too, when it first writes a new log back; the model does not count on it.

### BatchJob

A SQLite transaction is one step. `run.pc` follows one command and then its worker: `TryStart`, `Admit`,
`StartCommit`, `Spawn`, then `Pick` and one of the commits per item, `Finish`, `Record`, the guard
(`DropTerminal`, `DropRecord`), the lease (`LeaseDrop`) and `Settle`. Each of these may fail, and a panic
enters the guard from anywhere in the work. `Finished` is the terminalization all four owners of a run
share (worker, guard, lease, next start). People decide, reopen, rewrite and delete segments at any time.
The poll reads the journal and the tracker under different locks, so it is several steps. A segment is
its revision, the origin of its text, whether it is normalized and whether a person owns it; a token of
the history is an operation id, a side and the revisions it expects.

Hashes, JSON payloads and page sizes of the journal are left out, and so are the triggers of migration
68: they repeat rules the Rust code follows, and without them `EvidenceAgrees` shows that the code never
relies on a refusal by the database.

### SupervisorPolicy and ChampionEngine

`SupervisorPolicy` has one operator per method of `EngineSupervisor` and `SupervisionState`. The code
keeps instants of a monotonic clock; the model keeps what is left of an instant to come and the age of the
last attempt, so that time is bounded by the policy's own constants and needs no clock. A comparison with
the present is a comparison with zero, where the mutant of `Decide` shows the boundary matters.

`ChampionEngine` has four kinds of actors: startup, the recovery thread (`saga`), the supervision loop and
the owner. The saga alternates an effect (`SetDatabaseChampion`, `PublishChampionPointer`,
`RestartChampion`, `VerifyExactAndCanary`) and the compare-and-swap that records it (`Stamp`), and the
process may end anywhere. `sync_champion_pointer` is shared by startup, the saga and the end of the
recovery; its replacement of `champion.json` is `SyncAside`, `SyncPromote` and `SyncClean`, with backups
that carry the id of the process that left them. An engine start is a check (`EnsureStartAllowed`) and,
later, a spawn; both the button and the loop can be overtaken between the two. `start_promotion` has no
caller in the program, only in tests, so a row it would leave is an initial state rather than an action. A
second running row (`rival`) is one too. `last`, `proof` and `starts` are observers. `ProcessEnds`
is the end of the process, in the middle of a replacement too, and not a power loss: what was renamed stays
renamed, and a sync of the directory that fails is not told apart.

### CouchReview

A request is a chain of steps of one server thread: `ReadRow` and `Route` before the commit guard,
`TakeGuard`, `Commit` and `Acknowledge` for a first judgement, `ReadPoolReceipt`, `ClaimOpinion`,
`RecordOpinion` and `AcknowledgeOpinion` for an opinion in a pool, `PopUndo`, `ReverseEffect` and
`AnswerUndo` or `ReverseOpinion` and `AnswerPoolUndo` for the two kinds of undo (each refused when a newer
entry owns the pay of the clip), `RequestQueue` and
`ServeQueue` for a page. A step is one critical section of the session's mutex or one transaction. The
phone is the page's code: `Decide` puts an operation in its outbox before anything is sent, `Send` and
`Flush` deliver it any number of times, and an answer is heard or lost (`Saves`, `Refuses`; `Holds` is a
5xx, after which the page keeps the operation). Leases lapse at any time, since nothing else is known of
the clock. `Touch` is a batch or an alignment that writes the row, `Restart` an end of the app that
empties the session and drops the requests under way.

The outbox is the set of the operations it holds; an operation made later has the larger id, so `Flush`
takes the `Oldest` and a fresh `Send` the `Newest`.

A verdict is an act, because two texts matter only as equal or different. A row is its revision and the
effect that stands on it; an effect keeps what stood before it, what it paid and when it was undone
(`undone` holds the press of Undo that took it back, an observer for `OneUndoPerDecision`). `ledger` is the
balance of the compensation entries per reviewer and clip. Every clip is a member of the pool and no
trust file exists, which is the rule of two judges; every card has been listened to, since the playback
evidence only ever refuses.

## Runs

| Run | States | Shows |
|---|---|---|
| `admission` | 78,744 | Three callers in every interleaving. `RestoreExclusion`: a granted restore is alone and still active. `OneDatabaseGeneration`: a guard works on the database it was admitted to, however old its token. `NoLostWakeup`: nobody sleeps through its event. `NoLockInversion`: the two lock orders never meet. `ParkedStaysShut`: an interrupted named restore keeps everybody out. `RestoreResolves`: every restore ends. |
| `writer_fence` | 12,916 | `FenceExact`: flag and counter stand for exactly the registered writers. `FenceHolds`: once a restore has passed its probes no background writer runs, whatever happened between two probes. |
| `review_draft` | 157,040 | `LateDraftNeverLands`, `DecidedDraftStaysGone`, and the refinement `ImplementsAdmission`. |
| `named_restore` | 915,765 | Until a power loss brings strays back: `RestoresAreAtomic`, the refinement of `AtomicRestore`. `MixtureIsBarred`: whatever a power loss would leave is barred or coherent. `OriginalSurvives`: the pin a barrier names is the library before the first attempt. `CompletedIsFinal`, `PublishesRecorded`: no second publication over a completed one, only the recorded target. `InterruptionEnds`: the app always gets up again without the barrier. Even after that: `BarrierShutsLibrary`, no work behind a barrier. |
| `batch_job` | 1,130,614 | `EvidenceAgrees`: header and items agree under cancel, panic, faults and crashes. `SettledIsProved`: a settled run has its durable end and its undo authority. `SettledAnswerIsFinal`: a settled answer is given only when the gate is open. `JobsEnd`: every admitted job ends, or is left for the next start behind a shut gate. |
| `batch_history` | 528,660 | `HumanWorkKept`, `ReplacesWhatItSaw`, `TokensOwnTheirText`: no batch, Undo or Redo replaces human work or text that is not the batch's own. |
| `champion_engine` | 701,135 | `PhaseIsTruth`: registry and pointer are what the recorded phase says, whatever crashed between an effect and its record. `PointerIsPublished`: what a recovery of the file finds is what was published last, and with the fence open it names the champion. `EndsOnFreshProof`: no outcome rests on a pass from before a crash. `OrdinaryStartsAreFenced`: loop and button start nothing while a promotion is unresolved. `StartsAreBounded`, `GivesUp`: the breaker lets a dead engine be started a fixed number of times, and then ends. `RecoverySettles`: a recovery ends, or is left behind a shut fence. |
| `couch` | 1,284,733 | Sessions without a pool and in one (`MCCouchSessions` has both as initial states). `NoVerdictReplaced`, `VerdictOnServedText`: nobody replaces another's verdict, and a verdict is of the revision the phone showed. `SavedOnce`: what a phone was told is saved is recorded once. `PayFollowsStandingWork`: the balance is the rate of the judgement that stands. `PoolHistoryLoads`: an opinion rests on a standing first judgement of someone else, one per person, as `review_pool::load` demands at a start. `CanonicalRefusalIsTrue`: the late copy of a recorded decision is acknowledged, not refused. |
| `champion_unverified`, `couch_undo`, `couch_wedged`, `restore_strays` | | the findings below: TLC finds the counterexample. |

States are distinct states; those of `review_draft`, `writer_fence` and `couch` are counted
up to symmetry. The module's type invariant is part of the run `admission`, where it bounds the read
pool; the type invariants of the other modules document their variables.

### Bounds

- `admission`: three threads are a restore, a holder of the writer and a waiter, the smallest set in which
  both lock orders, a drain and a sleeping writer meet. Two generations let two restores follow each other
  with a token captured before either. Two permits and three threads fill the pool. The proofs remove
  these bounds.
- `writer_fence`: three callers, all gates, no other bound: a writer that holds the flag, one that finds
  it taken and one in the counter, or three overlapping ones. Proved for any number.
- `review_draft`: two operation ids and one segment, because reservations of different segments touch
  only at the one mutex; one restore, which is enough for a call from before it to come after it. Proved for
  any number.
- `named_restore`: three files and three library generations, two of which are incomparable in authority
  one way (`g0` drops reviews of `g2`); a complete and a legacy snapshot; one kept pin and two taken, so
  that pruning happens; three faults, which are an error, a crash in its retry and a crash in the recovery,
  or a failed sync, what goes on over it, and the power loss that brings the strays back; one edit or
  replaced snapshot.
- `batch_job`: one job over one or both of two segments, polled; one edit, two faults, one crash: one item
  either side of a disturbance, a fault in the worker and one in its guard, or one of them and a crash.
  Jobs follow each other and share no items, so one is enough here. `batch_history`: one segment, two
  batches on it, three edits, revisions up to 6, so that both batches can be applied, undone and redone
  with a person between.
- `champion_engine`: two crashes, so that a recovery is interrupted and the recovery of that one too; one
  click and one toggle, each of which can fall between any two steps of saga and loop. The policy is the
  smallest in which every rule differs from its neighbour: two failures to a trip, two trips, a backoff
  that doubles once and is capped, a warm-up of two ticks. A failure of every file, database and engine
  operation is possible at any time and needs no bound.
- `couch`: two phones, two threads, one clip; two decisions, two page loads, one undo and
  one lost answer or failed write. One clip, because leases, rows, receipts and pay of different clips
  share only the undo stack, which `couch_undo` has two clips for. A session without a pool
  has a foreign write and a restart, with all three acts; one in a pool has a decision at the desktop, which
  gives a clip three judges, but only the acts edit and skip: three judgements of three minds, and judgements
  of different rates, do not meet in it. `PayFollows` is proved for any acts and rates.
- `restore_strays` uses the instance of `named_restore`, the other violation runs the same
  instances with fewer faults and edits.

`BatchJob` and `CouchReview` are checked without deadlock detection: once all operation ids and bounds are
used the application idles. The other modules are checked with it.

### Fairness

`RestoreAdmission`: weak fairness of `Continue(t)` for each thread. A call is a synchronous function on a
thread of its own, which runs to its end; nothing forces a caller to start one, to take the writer under
its guard, or to arm. Nothing is assumed about who wins a contended mutex, because the standard library
promises nothing; `RestoreResolves` holds without it because a pending restore stops new arrivals.

`NamedRestore`: weak fairness of `Start` and `Continue`: a process that runs goes on, and a person starts
the app again. Requests, edits and faults have none.

`BatchJob`: weak fairness of `Worker` and `Start`, for the same reasons. The renderer need not poll, and
nobody has to cancel or undo.

`ChampionEngine`: weak fairness of `FinishSetup`, `Saga`, `Sync` and `Loop`: startup, the recovery thread
and the supervision loop are threads of a running process. The engine need not answer, the owner need not
click, and the app need not be started. `GivesUp` is about a loop that stays enabled, behind an open fence,
with an engine that never answers.

`CouchReview`, for `HeldWorkSettles` only: weak fairness of `Serve(t)`, a thread finishes the request it
has accepted, and strong fairness of `Flush(r)`, because the page flushes its outbox on a timer, when it
comes back online and at every load (`assets/couch.html`). The counterexample needs neither a lost answer
nor a restart.

## Findings

1. **An unverified rollback serves after a restart** (`champion_unverified`, `lib.rs:1755`). A recovery
   that can verify neither model ends its row as `ROLLBACK_UNVERIFIED` and keeps the fence shut. The fence
   is a variable of the process: the next start finds no running row, does not look at the terminal one,
   publishes the pointer and opens the fence, and the loop or the button starts the model. The comment on
   the fence (`engine_runtime.rs:492`) says what it is there to prevent: "Starting a model in that state
   would turn an explicitly unverified rollback into a silently serving deployment."
2. **Undo pressed twice takes back two decisions** (`couch_undo`, `couch/decisions.rs:1860`). The token is
   popped before the transaction and retained after it (`:1914`). A page that gives up after 15 seconds,
   while the transaction waits for the writer, offers Undo again; the second request finds the token below
   and reverses an older decision, against "the bodyless retry must replay this exact idempotent undo
   instead of falling through to an older decision" (`:1912`).
3. **An outbox that never drains** (`couch_wedged`, `couch/decisions.rs:766`). A reviewer's decision is
   held offline while two other judgements resolve the clip. `record_decision` refuses it
   (`review_pool.rs:1648`) and the route answers 500, which the page takes for a server that is unwell: it
   retries the operation for ever and flushes nothing behind it. The page's rule is to drop what "will
   never land" (`assets/couch.html:1552`).

4. **A retry publishes behind a barrier that is not durable** (`restore_strays`, `recovery.rs:239`). The
   directory sync after the marker fails: the marker is visible, the command fails and the admission parks.
   The retry finds the marker, takes the pin and the target from it and publishes the database, with no sync
   of the directory before it. Until the sync that ends the publication, a power loss leaves the new database
   among the old files and no marker; the next start opens it. "Both paths keep the durable marker until DB +
   all required config have committed" (`restore_service/orchestration.rs:158`). A strict sync of the
   directory wherever a marker is taken over would be enough.

### Observations

Consequences of the code met while modelling it. No run checks these; each is named with its line so that
it can be judged.

Restores and batches:

- The marker is unlinked and the strict sync of its directory fails (`recovery.rs:590`). The reservation,
  still armed, parks the admission; the next restore finds no marker, takes the ordinary path and is told
  to retry the recorded snapshot, of which there is no record any more. The library stays shut until the
  app is restarted.
- After the same failure the next start finds no marker and opens the library, again without a sync. A power
  loss after an edit of the database may bring the completed marker back; its digest is not that of the
  database any more, so the recovery takes the completion back and publishes the target over the edit. In
  `NamedRestore` this is a relapse, fifteen steps long. The comment on the completion (`recovery.rs:308`) says
  that "startup clears the barrier without replaying or rolling back an already-coherent generation". It takes
  an edit that survives the power loss while the older unlink does not, which a file system may but need not
  allow.
- A bare restore that fails after its pages were copied returns before the undo history is cleared, and
  its reservation reopens the library (`commands/recovery_ipc.rs:200`).
- A person edits a segment that a batch has already applied, before the batch records its undo token.
  Building the token fails for the worker and for the guard (`db/batch_jobs/history.rs:32`), and the gate
  stays shut with no worker behind it until the app is restarted.
- A poll that reads the tracker while a start is being claimed, and reads again after the start was
  refused, reports invalid evidence instead of a refusal (`commands/batch_status.rs:98`).
- Two batches on one segment: after the later one is undone, the earlier one's token expects a revision
  that is gone. It stays on top of the undo stack and blocks what is below it.
- When a crash interrupts a batch and one of its applied segments was edited before, the start after it
  reconciles the journal but refuses to come up, once; the next start succeeds.
- A fault in `finish_batch_job_v1` makes the guard end the job as PANICKED, whatever the intended code.
- Three failed writes in a row (worker, guard, lease) leave a job running until the next start, behind a
  shut gate.

Engine:

- The loop takes `EXTERNAL_START_PENDING` before its probe of up to three seconds; a Start click during
  the probe is not adopted until the next tick, and a restart decided by this one replaces the engine the
  click has started (`engine_runtime.rs:956`).
- `ensure_start_allowed` is a check before the act: a start that passed it just before `begin_shutdown`
  still spawns, and it is the job object that ends that engine.

Couch Review:

- Two copies of one opinion at once: the second may be answered 409 although the first is recorded, and
  the page retires the operation as one that did not commit (`assets/couch.html:2303`). This is why
  `CanonicalRefusalIsTrue` speaks of decisions. A skip whose second copy takes the pool's path is refused
  in the same way.
- The undo of an opinion leases the clip to its reviewer even when someone else holds it.
- A skip after one's own decision makes the decision's undo impossible: the skip is the newest entry of
  the work, and the reversal of pay refuses (500).
- A late answer to an old operation can make an older opinion the phone's target of Undo; the server then
  refuses, since it reverses only the latest.

## Proofs

`RestoreAdmissionProofs` proves the safety properties of the run `admission` for every finite set of
threads, every last generation and every pool size (`ThreadsAssumption`, `BoundsAssumption`). None of
them is inductive. The invariant `IInv` adds what they rest on:

- `Counted`: the two counters equal the numbers of threads that hold captures and mutations. Without it a
  restore that finds zero mutations would know nothing about the guards that exist.
- `FlagFollowsPhase`: `pending` is the phase seen as a flag.
- `RestorerAlone`, `AdmissionKept`: at most one thread is on the restore path, its generation is current
  and its phase active; a thread keeps the admission mutex only while no restore is pending.
- `TokensFresh`, `GuardsFresh`: a token of the current generation was captured on the live database, and
  it falls behind as soon as a restore is reserved. This is what carries a captured generation across any
  number of restores.
- `ReservationSpent`: a committed reservation that is not yet dropped no longer owns the admission, so its
  drop cannot disturb a restore that came after it.

`Invariant` proves `Spec => []IInv` with one step per action; the theorems `TypeCorrect`, `Exclusion`,
`OneGeneration`, `NoWakeupLost` and `NoInversion` follow, and `ParkedShut` is the action property derived
from the same invariant. The counting lemmas come from the cardinality theorems for finite sets.

`WriterFenceProofs` proves `FenceExact` and `FenceHolds` for any finite set of callers
(`CallersAssumption`). The strengthening is `ProbedStaysIdle`: while a restore probes, each source it has
already passed stays idle. A gate stays idle because it checks the reservation under its own lock; the
flag and the counter, because a late registration re-reads the reservation before it runs; and the counter
only because no import can run, and so hand over to an alignment thread, once the import gate was passed
before it. A registered caller that has yet to recheck is allowed.

`ReviewDraftProofs` proves the safety of the run `review_draft` for any number of threads, operations and
segments (`DraftAssumption`). `DraftsRefineAdmission` comes first, since it lets `IInv` be used for draft
calls as it is: each step of the draft store is a step of `RestoreAdmission` or leaves its variables alone.
The only step where this is not immediate is the entry of a draft write with a generation reserved earlier;
it needs `ReservedTokens`, that a reservation holds a generation the admission handed out. `DraftIInv` then
says what a call may rely on:

- `CallGuarded`: inside its mutation a call's operation is still the one reserved, for the database it was
  admitted to. With `GuardsFresh` of the admission this is `LateDraftRefused`: a call that lands is the
  newest for its segment and its database is the live one.
- `DecidedBehind`: a decided revision is behind the current one, so that a save, which checks the revision,
  cannot bring its draft back (`DecidedStaysGone`).

`NamedRestoreProofs` proves the six safety properties of the run `named_restore`, the refinement among them,
for every set of snapshots, coupled files and generations and any number of faults, crashes and edits
(`FilesAssumption`, `GenerationsAssumption`, `SnapshotsAssumption`, `RestoreBoundsAssumption`). None
has another hypothesis. `UntilRelapse` says that the invariant `RestoreInv` holds unless a power loss has
brought strays back, which is the condition the properties themselves carry. `RestoreInv` has three layers:

- `Disk`, true wherever the process stands. The marker and what a power loss would leave of it name one
  restore (`SameRestore`); the pin they name is the library as it was (`Original`), a file that the
  snapshot does not bind has not been touched (`Preserved`), and a completion recorded with a digest is
  true of the live library (`Proved`).
- `Sheltered`: unless both the visible and the durable marker are there, the library is whole, that is,
  settled on the disk and the outcome of one snapshot. All of crash safety is here: between the first page
  and the last file both markers stand, and a power loss can only bring back one that was there.
- `At`, what each step of a restore has reached: which barrier stands, where the private copy comes from
  and what has become of its snapshot since (`AtCopy`), and which files are installed (`AtFile`). The
  retry needs `AtCopy` to speak about the original, not about the live pages.

`RestoresAtomic` maps each step to `Edit`, `Shut`, `Reopen` or a stutter of `AtomicRestore`. The library
opens in three places only: the end of a command that changed nothing, the commit of a restore, and a
start without a marker; `Sheltered` and `AtLibrary` give the outcome in each.

`BarrierShuts` and the types (`TypesKept`) hold after a relapse too, and rest on a second, weaker invariant,
`Standing`. It knows nothing of the original or of the content of the library, only that each step has the
barrier and the copy it needs, whichever restore they are of: an open library has no marker, visible or on
the disk, since a start that finds one recovers first.

`BatchJobProofs` proves the safety properties of the runs `batch_job` and `batch_history` for any finite set
of segments, any set of jobs and any number of edits, faults and crashes (`BatchAssumption`):

- `JournalAgrees`, from `JobInv`. The header is written by whoever ends the run (worker, guard, lease or the
  next start), so `OwnJob` says what each of them finds: a run in its work has a running row, one past
  `terminalized` a terminal one, and a guard or a lease may find either, but knows which. `Intent` says that
  a target the worker asks for agrees with the items it has seen.
- `SettledProved` and `SettledAnswersFinal`, from `SettleInv`. `Bound`: who may settle has recorded the undo
  authority of what was applied. `PollSaw`: an end that a poll has read under one lock is still an end under
  the next, since no process turns a terminal row back.
- `TokensOwn`, `HumanKept` and `ReplacesSeen`, from `HistInv`: a token of the history, and the after image of
  an applied item, either is behind the segment's revision or finds its own text there, owned by nobody.
  Every writer advances the revision, so a token that fell behind stays behind.

`ChampionEngineProofs` proves the five safety properties of the run `champion_engine`, for every restart
policy, every tick length and any number of crashes, clicks and toggles (`PolicyAssumption`,
`EngineAssumption`):

- `StartsBounded`. The bound counts starts, which the code does not; the invariant `BoundInv` ties them to
  what it does count. `Accounted`: every start but the one that is warming up has been charged as a
  failure. `Charged`: a closed breaker is below its limit and has never tripped; after the first trip each
  failure is a trip, so `failures = MaxFailures + trips - 1`; an open or given-up breaker has no start
  warming up. `StartIsWarm`: a start that was decided and not yet made is warming up, so that one which is
  refused or fails at once is charged exactly once. One lemma per operation of the policy carries the
  account through it.
- `StartsFenced`. A start is made a step after its check, so the invariant `FenceInv` has to say what cannot
  happen in between: no promotion runs against a start that has passed the check (`PassedUnfenced`), because
  an unresolved promotion has the fence shut (`FenceShut`), only startup without a promotion and a
  promotion that ended open it, and a row that ended never runs again (`StampedEnds`).
- `PhaseTruth`, `PointerPublished` and `FreshProof`. The truth of a phase has to survive a crash in the middle
  of the two renames, so `TruthInv` speaks of what `recover_interrupted_replace` will find in the file
  (`PointedBy`), not of the file: `SyncFile` gives this for each point of a replacement, with any number of
  backups of other processes beside it. `StampTrue` says what an effect has made true before the
  compare-and-swap records it, and `SagaRuns` that only one recovery makes effects.

`CouchReviewProofs` proves the six safety properties of the run `couch` for any sets of
reviewers, clips and server threads and any number of decisions, undos, lost answers, foreign writes and
restarts, in a pool or without one (`CouchAssumption`). A request reads the row, the receipts and the pool
in one step and writes in a later one, with no lock across them but the commit guard, so the invariant
`CouchInv` has to say what of a read is still true:

- `Revisions`: every write of a row is a new revision, the decisions of a clip have rising revisions, and no
  phone is ahead of its row. A clip whose revision is the one served is therefore unchanged since.
- `Receipts`: a phone's effect, skip or opinion names one operation, and no operation has two of them, by
  whichever route. `Told`: what a phone was told is saved has its receipt. Together they are
  `OperationsSavedOnce`.
- `Threading`: what each thread knows after each step (`Fork`, `CanonicalPath`, `PoolPath`, `Claim`). All of
  it has one shape: what the thread has read holds still, or the clip has a new revision, in which case the
  commit refuses. This is why the code may read before it takes the guard. With it `NoVerdictReplaced` and
  `VerdictOnServedText` are preserved; they are conjuncts of `CouchInv` themselves (`VerdictsStand`,
  `VerdictsFitTheText`).
- `Beside`: a standing opinion is of another reviewer than the first judgement, and of each reviewer at most
  one. With `Receipts` this is `HistoryLoads`.

`RefusalsAreTrue` needs, besides, that every answer is true at the moment it is given (`Truthful`), step by
step of the routes: `Threading` tells what a route that refuses has found missing among the receipts.

`PayFollows` is the property of the ledger over the whole history, and takes an invariant of its own: in
`PayInv` the conjunct `Entries` says that every entry tops up what the judgement before it was worth, so
that a reversal of the last one leaves exactly that. An undo takes back only the last decision of a clip
on which no opinion rests, which keeps the entries of the others right.

### What is only model-checked

- Liveness (`RestoreResolves`, `InterruptionEnds`, `JobsEnd`, `GivesUp`, `RecoverySettles`), which this prover
  cannot do.
- The runs that end in a violation need no proof.

## Not modelled

Most of the repository's lines hold no protocol state. The bulk is SQL text, migrations and their tests
(`migrations/mod.rs`), in-file test modules (about half of `couch.rs`, `review_pool.rs`, `snapshot.rs` and
others), numeric and model-bound code, the renderer and command-line tools. What remains and is stateful:

- The components listed as "to be modelled" above: Couch sessions, pilots, campaigns, reopened rounds,
  flags, the import flow, snapshot rotation, the eviction of history entries.
- In the Couch routes: playback evidence, hidden checks, reviewer policies and dialects, duplicate
  families, redo rounds, trusted reviewers. Each refuses requests or reorders the queue; none writes a row
  the model has, except the redo round, in which a reviewer judges a clip of their own again.
- `start_promotion` and the scoring of candidates: no caller reaches them in the program.
- The jury's verdicts: since schema 60 the database layer refuses them (`db/decisions.rs:267`).
- SQLite, below the level of a committed or failed transaction; the schema and its migrations, except for
  the revision trigger and the index that allows one live batch.
- Transcription, audio, text normalization, scoring and exports: numeric code and file formats without
  protocol state.
- The desktop renderer. Its calls may come in any order; the coordinators that reconcile lost answers are
  not modelled. The phone's page is modelled as far as its outbox, cards and undo button go.
- The operations scripts, which run outside the application.
- Spurious wake-ups of a condition variable: the code re-tests its condition, and every such wake-up
  followed by another sleep leaves the state as it was.
- Poisoned locks: the code recovers the guard and goes on.
