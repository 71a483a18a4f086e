--------------------------- MODULE ChampionEngine ---------------------------
(***************************************************************************)
(* The champion speech engine of the app: a promotion that a crash         *)
(* interrupted is recovered at the next start (champion_promotion.rs,      *)
(* champion_promotion_runtime.rs, lib.rs), champion.json mirrors the       *)
(* registry's champion through a replacement of two renames                *)
(* (registry.rs, atomic_file.rs), and the supervision loop and the Start   *)
(* button start the engine from it (engine_runtime.rs), unless the         *)
(* recovery has the fence shut.                                            *)
(*                                                                         *)
(* A promotion has no caller in the program: `start_promotion` is reached  *)
(* by tests alone.  The journal row it would leave is an initial state.    *)
(***************************************************************************)
EXTENDS SupervisorPolicy, Sequences, FiniteSets

CONSTANTS
    Incumbent,      \* identity of the deployment to be replaced
    Candidate,      \* identity of the deployment to be promoted
    None,           \* no file, no child
    TickLength,     \* the sleep between two ticks, in units of the policy
    MaxCrashes,     \* bound: ends of the process
    MaxClicks,      \* bound: clicks on Start
    MaxToggles      \* bound: switches of the supervision setting

ASSUME EngineAssumption ==
    /\ Incumbent # Candidate
    /\ None \notin {Incumbent, Candidate}
    /\ TickLength \in Nat \ {0}
    /\ MaxCrashes \in Nat
    /\ MaxClicks \in Nat
    /\ MaxToggles \in Nat

VARIABLES
    job,        \* the promotion's row: state, phase and error code
    rival,      \* is there a second running promotion row?
    db,         \* the champion the registry names
    file,       \* champion.json and its replacement backups, oldest first
    app,        \* the process: down, setting up, or up
    active,     \* PROMOTION_ACTIVE, the lease
    blocked,    \* PROMOTION_RECOVERY_BLOCKED, the fence
    pending,    \* EXTERNAL_START_PENDING
    stopping,   \* SHUTTING_DOWN
    saga,       \* the recovery thread: where it is and its last result
    sync,       \* the replacement of champion.json under way
    child,      \* the engine process the app owns
    loop,       \* the supervision loop: where it is, its sample, was_enabled
    sup,        \* its SupervisionState
    button,     \* the Start command
    enabled,    \* the setting champion_supervision_enabled
    last,       \* what champion.json was last made to name
    proof,      \* the identity verified last by this process
    starts,     \* failed or running starts of the loop since health or reset
    crashes,    \* used of MaxCrashes
    clicks,     \* used of MaxClicks
    toggles     \* used of MaxToggles

saga_vars == <<job, rival, db, proof>>
fence == <<active, blocked>>
loop_vars == <<loop, sup, starts>>
owner_vars == <<button, enabled, clicks, toggles>>
vars == <<saga_vars, file, last, app, fence, pending, stopping, saga, sync, child,
          loop_vars, owner_vars, crashes>>

Models == {Incumbent, Candidate}

Forward == {"Prepared", "CandidateDbActivated", "CandidatePointerPublished",
            "CandidateRestarted", "CandidateVerified"}

Backward == {"RollbackPending", "RollbackDbRestored", "RollbackPointerRestored",
             "RollbackRestarted", "RollbackVerified"}

Phases == Forward \cup Backward \cup {"Completed", "RollbackUnverified"}

\* The phase that records the success of the effect of a phase.
NextPhase ==
    [Prepared                  |-> "CandidateDbActivated",
     CandidateDbActivated      |-> "CandidatePointerPublished",
     CandidatePointerPublished |-> "CandidateRestarted",
     CandidateRestarted        |-> "CandidateVerified",
     CandidateVerified         |-> "Completed",
     RollbackPending           |-> "RollbackDbRestored",
     RollbackDbRestored        |-> "RollbackPointerRestored",
     RollbackPointerRestored   |-> "RollbackRestarted",
     RollbackRestarted         |-> "RollbackVerified",
     RollbackVerified          |-> "RollbackVerified"]

\* The deployment a phase works towards.
Target == IF job.phase \in Forward THEN Candidate ELSE Incumbent

Running == job.state = "running"

Children ==
    {None} \cup [model : Models, fate : {"loading", "serving", "dead"},
                 by : {"loop", "button", "saga"}]

-----------------------------------------------------------------------------
(* champion.json: replace_file in its Windows form, two renames with the   *)
(* old file set aside as a backup that carries the process id.             *)

\* Variant: recovery takes the oldest backup.
RecoverOldest(f) ==
    IF f.main # None \/ f.backups = <<>> THEN f
    ELSE [main |-> f.backups[1].model, backups |-> Tail(f.backups)]

\* What recover_interrupted_replace makes of the file: the newest backup
\* takes the place of a file that is missing.
RecoverInterruptedReplace(f) ==
    IF f.main # None \/ f.backups = <<>> THEN f
    ELSE [main    |-> f.backups[Len(f.backups)].model,
          backups |-> SubSeq(f.backups, 1, Len(f.backups) - 1)]

\* The old file becomes the newest backup; one this process left, the newest
\* so far, is removed first.
RemoveOwn(f) ==
    LET n == Len(f.backups)
    IN  IF n > 0 /\ f.backups[n].mine THEN [f EXCEPT !.backups = SubSeq(@, 1, n - 1)] ELSE f

SetAside(f) ==
    [main    |-> None,
     backups |-> Append(RemoveOwn(f).backups, [model |-> f.main, mine |-> TRUE])]

\* A new process has a new id.
Disown(f) ==
    [f EXCEPT !.backups = [i \in DOMAIN @ |-> [@[i] EXCEPT !.mine = FALSE]]]

-----------------------------------------------------------------------------

\* A promotion that a crash interrupted, right after its row was written or
\* before there was one.
Init ==
    /\ job \in [state : {"none", "running"}, phase : {"Prepared"}, code : {"none"}]
    /\ rival \in {FALSE, Running}
    /\ db = Incumbent
    /\ file = [main |-> Incumbent, backups |-> <<>>]
    /\ last = Incumbent
    /\ app = "down"
    /\ active = FALSE
    /\ blocked = FALSE
    /\ pending = FALSE
    /\ stopping = FALSE
    /\ saga = [at |-> "off", ok |-> TRUE]
    /\ sync = [at |-> "off", by |-> "boot"]
    /\ child = None
    /\ loop = [at |-> "off", healthy |-> FALSE, was |-> FALSE]
    /\ sup = NewState
    /\ button = "idle"
    /\ enabled \in BOOLEAN
    /\ proof = None
    /\ starts = 0
    /\ crashes = 0
    /\ clicks = 0
    /\ toggles = 0

TypeOK ==
    /\ job \in [state : {"none", "running", "succeeded", "failed"}, phase : Phases,
                code : {"none", "PROMOTION_FAILED", "ROLLBACK_UNVERIFIED"}]
    /\ rival \in BOOLEAN
    /\ db \in Models
    /\ file.main \in Models \cup {None}
    /\ file.backups \in Seq([model : Models, mine : BOOLEAN])
    /\ last \in Models
    /\ app \in {"down", "setup", "up"}
    /\ {active, blocked, pending, stopping, enabled} \subseteq BOOLEAN
    /\ saga \in [at : {"off", "lease", "drive", "stamp", "final"}, ok : BOOLEAN]
    /\ sync \in [at : {"off", "aside", "promote", "clean"}, by : {"boot", "saga", "final"}]
    /\ child \in Children
    /\ loop \in [at : {"off", "sleep", "probe", "decide", "start", "spawn"},
                 healthy : BOOLEAN, was : BOOLEAN]
    /\ sup \in SupervisionStates
    /\ button \in {"idle", "spawn", "note"}
    /\ proof \in Models \cup {None}
    /\ starts \in Nat
    /\ crashes \in 0 .. MaxCrashes
    /\ clicks \in 0 .. MaxClicks
    /\ toggles \in 0 .. MaxToggles

-----------------------------------------------------------------------------
(* sync_champion_pointer, called at startup, by the saga and after it.     *)

\* Variant: a failed publication is reported to the saga as done.
PublishedAnyway(by, ok) ==
    /\ sync' = [sync EXCEPT !.at = "off"]
    /\ \/ by = "boot" /\ blocked' = ~ok /\ UNCHANGED saga
       \/ by = "saga" /\ saga' = [at |-> "stamp", ok |-> TRUE] /\ UNCHANGED blocked
       \/ by = "final" /\ saga' = [saga EXCEPT !.at = "off"]
          /\ blocked' = IF ok THEN FALSE ELSE blocked

\* The outcome of a publication goes back to its caller: startup opens the
\* fence or shuts it, the saga records the result, and the recovery opens
\* the fence only if its last publication succeeded.
Published(by, ok) ==
    /\ sync' = [sync EXCEPT !.at = "off"]
    /\ \/ /\ by = "boot"
          /\ blocked' = ~ok
          /\ UNCHANGED saga
       \/ /\ by = "saga"
          /\ saga' = [at |-> "stamp", ok |-> ok]
          /\ UNCHANGED blocked
       \/ /\ by = "final"
          /\ saga' = [saga EXCEPT !.at = "off"]
          /\ blocked' = IF ok THEN FALSE ELSE blocked

\* The call up to the first rename: recover, compare, write the temporary
\* file.  An unchanged file is left alone.
SyncChampionPointer(by) ==
    \/ /\ file' = RecoverInterruptedReplace(file)
       /\ IF file'.main = db
          THEN Published(by, TRUE)
          ELSE /\ sync' = [at |-> IF file'.main = None THEN "promote" ELSE "aside", by |-> by]
               /\ UNCHANGED <<saga, blocked>>
    \/ /\ file' \in {file, RecoverInterruptedReplace(file)}
       /\ Published(by, FALSE)

SyncAside ==
    /\ sync.at = "aside"
    /\ \/ /\ file' = SetAside(file)
          /\ sync' = [sync EXCEPT !.at = "promote"]
          /\ UNCHANGED <<saga, blocked>>
       \/ /\ file' \in {file, RemoveOwn(file)}
          /\ Published(sync.by, FALSE)
    /\ UNCHANGED <<saga_vars, last, app, active, pending, stopping, child, loop_vars,
                   owner_vars, crashes>>

\* The second rename; if it fails, the backup is renamed back, if it can be.
SyncPromote ==
    /\ sync.at = "promote"
    /\ \/ /\ file' = [file EXCEPT !.main = db]
          /\ last' = db
          /\ sync' = [sync EXCEPT !.at = "clean"]
          /\ UNCHANGED <<saga, blocked>>
       \/ /\ file' \in {file, RecoverInterruptedReplace(file)}
          /\ Published(sync.by, FALSE)
          /\ UNCHANGED last
    /\ UNCHANGED <<saga_vars, app, active, pending, stopping, child, loop_vars,
                   owner_vars, crashes>>

\* The backup may stay behind: its removal is best-effort cleanup.  The saga
\* reads the file back and may fail to.
SyncClean ==
    /\ sync.at = "clean"
    /\ file' \in {file, RemoveOwn(file)}
    /\ \E ok \in (IF sync.by = "saga" THEN BOOLEAN ELSE {TRUE}) : Published(sync.by, ok)
    /\ UNCHANGED <<saga_vars, last, app, active, pending, stopping, child, loop_vars,
                   owner_vars, crashes>>

-----------------------------------------------------------------------------
(* The process starts and ends.                                            *)

\* Startup.  Without a running promotion the pointer is published before
\* anything else; with one the fence is shut and a thread takes it over.
Boot ==
    /\ app = "down"
    /\ \/ /\ blocked' = TRUE        \* no data directory, or no inventory
          /\ app' = "setup"
          /\ UNCHANGED <<file, sync, saga>>
       \/ /\ ~Running
          /\ app' = "setup"
          /\ SyncChampionPointer("boot")
       \/ /\ Running
          /\ app' = "setup"
          /\ blocked' = TRUE
          \* the thread needs the admission of the database runtime
          /\ saga' \in {saga, [at |-> "lease", ok |-> TRUE]}
          /\ UNCHANGED <<file, sync>>
    /\ UNCHANGED <<saga_vars, last, active, pending, stopping, child, loop_vars,
                   owner_vars, crashes>>

\* The last act of setup is the supervision loop.
FinishSetup ==
    /\ app = "setup"
    /\ ~(sync.at # "off" /\ sync.by = "boot")
    /\ app' = "up"
    /\ loop' = [loop EXCEPT !.at = "sleep"]
    /\ UNCHANGED <<saga_vars, file, last, fence, pending, stopping, saga, sync, child,
                   sup, starts, owner_vars, crashes>>

\* The exit hook: no further starts, and the child is killed.
BeginShutdown ==
    /\ app = "up" /\ ~stopping
    /\ stopping' = TRUE
    /\ child' = None
    /\ UNCHANGED <<saga_vars, file, last, app, fence, pending, saga, sync, loop_vars,
                   owner_vars, crashes>>

\* The process ends, in order or not.  The job object takes the child along.
ProcessEnds ==
    /\ app # "down" /\ crashes < MaxCrashes
    /\ crashes' = crashes + 1
    /\ app' = "down"
    /\ active' = FALSE /\ blocked' = FALSE /\ pending' = FALSE /\ stopping' = FALSE
    /\ saga' = [at |-> "off", ok |-> TRUE]
    /\ sync' = [at |-> "off", by |-> "boot"]
    /\ file' = Disown(file)
    /\ child' = None
    /\ loop' = [at |-> "off", healthy |-> FALSE, was |-> FALSE]
    /\ sup' = NewState
    /\ button' = "idle"
    /\ proof' = None
    /\ starts' = 0
    /\ UNCHANGED <<job, rival, db, last, enabled, clicks, toggles>>

-----------------------------------------------------------------------------
(* Starting the engine.                                                    *)

\* Variant: an ordinary start looks at the lease alone.
LeaseAlone(duringPromotion) == ~stopping /\ (duringPromotion \/ ~active)

EnsureStartAllowed(duringPromotion) ==
    /\ ~stopping
    /\ duringPromotion \/ (~active /\ ~blocked)

\* start_child past its check: the child is killed, the pointer recovered and
\* read, the new process spawned.  The server loads what the pointer names.
\* Storing the child drops, and so kills, one that another start has stored.
StartChild(by, ok) ==
    /\ file' \in {RecoverInterruptedReplace(file)} \cup (IF ok THEN {} ELSE {file})
    /\ ok => file'.main # None
    /\ child' = IF ok THEN [model |-> file'.main, fate |-> "loading", by |-> by] ELSE None

\* The engine has loaded its model, or is gone.
ChildReady ==
    /\ child # None /\ child.fate = "loading"
    /\ child' = [child EXCEPT !.fate = "serving"]
    /\ UNCHANGED <<saga_vars, file, last, app, fence, pending, stopping, saga, sync,
                   loop_vars, owner_vars, crashes>>

ChildDies ==
    /\ child # None /\ child.fate # "dead"
    /\ child' = [child EXCEPT !.fate = "dead"]
    /\ UNCHANGED <<saga_vars, file, last, app, fence, pending, stopping, saga, sync,
                   loop_vars, owner_vars, crashes>>

Loaded(model) == child # None /\ child.fate = "serving" /\ child.model = model

\* The Start button, in its steps: check, start, and the note to the loop.
ButtonCheck ==
    /\ app = "up" /\ button = "idle" /\ clicks < MaxClicks
    /\ clicks' = clicks + 1
    /\ button' = IF EnsureStartAllowed(FALSE) THEN "spawn" ELSE "idle"
    /\ UNCHANGED <<saga_vars, file, last, app, fence, pending, stopping, saga, sync, child,
                   loop_vars, enabled, toggles, crashes>>

ButtonSpawn ==
    /\ button = "spawn"
    /\ \E ok \in BOOLEAN :
          /\ StartChild("button", ok)
          /\ button' = IF ok THEN "note" ELSE "idle"
    /\ UNCHANGED <<saga_vars, last, app, fence, pending, stopping, saga, sync, loop_vars,
                   enabled, clicks, toggles, crashes>>

ButtonNote ==
    /\ button = "note"
    /\ pending' = TRUE
    /\ button' = "idle"
    /\ UNCHANGED <<saga_vars, file, last, app, fence, stopping, saga, sync, child, loop_vars,
                   enabled, clicks, toggles, crashes>>

ToggleSupervision ==
    /\ app = "up" /\ toggles < MaxToggles
    /\ toggles' = toggles + 1
    /\ enabled' = ~enabled
    /\ UNCHANGED <<saga_vars, file, last, app, fence, pending, stopping, saga, sync, child,
                   loop_vars, button, clicks, crashes>>

-----------------------------------------------------------------------------
(* The supervision loop.                                                   *)

\* A tick up to its probe: behind the fence nothing happens; a setting that
\* was turned off stops the engine; a start from elsewhere is adopted.
LoopWakes ==
    /\ loop.at = "sleep"
    /\ LET s == Elapsed(sup, TickLength)
       IN  \/ /\ active \/ blocked
              /\ sup' = s
              /\ UNCHANGED <<loop, pending, child, starts>>
           \/ /\ ~active /\ ~blocked /\ ~enabled
              /\ sup' = IF loop.was THEN NewState ELSE s
              /\ child' = IF loop.was THEN None ELSE child
              /\ starts' = IF loop.was THEN 0 ELSE starts
              /\ loop' = [loop EXCEPT !.was = FALSE]
              /\ UNCHANGED pending
           \/ /\ ~active /\ ~blocked /\ enabled
              /\ sup' = IF pending THEN ManualStart(s) ELSE s
              /\ starts' = IF pending THEN 0 ELSE starts
              /\ pending' = FALSE
              /\ loop' = [loop EXCEPT !.at = "probe", !.was = TRUE]
              /\ UNCHANGED child
    /\ UNCHANGED <<saga_vars, file, last, app, fence, stopping, saga, sync, owner_vars, crashes>>

\* exact_champion_ready, on another thread.
LoopProbes ==
    /\ loop.at = "probe"
    /\ loop' = [loop EXCEPT !.at = "decide",
                            !.healthy = ~active /\ ~blocked /\ Loaded(db)]
    /\ UNCHANGED <<saga_vars, file, last, app, fence, pending, stopping, saga, sync, child, sup,
                   starts, owner_vars, crashes>>

LoopDecides ==
    /\ loop.at = "decide"
    /\ LET decision == TickDecision(sup, loop.healthy)
       IN  /\ sup' = TickState(sup, loop.healthy)
           /\ starts' = CASE decision = "Idle"    -> 0
                          [] decision = "Restart" -> starts + 1
                          [] OTHER                -> starts
           /\ loop' = [loop EXCEPT !.at = IF decision = "Restart" THEN "start" ELSE "sleep"]
    /\ UNCHANGED <<saga_vars, file, last, app, fence, pending, stopping, saga, sync, child,
                   owner_vars, crashes>>

LoopChecks ==
    /\ loop.at = "start"
    /\ LET allowed == EnsureStartAllowed(FALSE)
       IN  /\ loop' = [loop EXCEPT !.at = IF allowed THEN "spawn" ELSE "sleep"]
           /\ sup' = IF allowed THEN sup ELSE OnStartFailed(sup)
    /\ UNCHANGED <<saga_vars, file, last, app, fence, pending, stopping, saga, sync, child, starts,
                   owner_vars, crashes>>

LoopSpawns ==
    /\ loop.at = "spawn"
    /\ \E ok \in BOOLEAN :
          /\ StartChild("loop", ok)
          /\ sup' = IF ok THEN sup ELSE OnStartFailed(sup)
    /\ loop' = [loop EXCEPT !.at = "sleep"]
    /\ UNCHANGED <<saga_vars, last, app, fence, pending, stopping, saga, sync, starts, owner_vars,
                   crashes>>

Loop == LoopWakes \/ LoopProbes \/ LoopDecides \/ LoopChecks \/ LoopSpawns

-----------------------------------------------------------------------------
(* The recovery thread.                                                    *)

\* The thread is done: the runtime drops its lease.
SagaEnds(shut) ==
    /\ saga' = [saga EXCEPT !.at = "off"]
    /\ active' = FALSE
    /\ blocked' = (blocked \/ shut)

SagaResult(ok) == saga' = [at |-> "stamp", ok |-> ok]

\* recover_running_promotions: one row is resumed, more are ambiguous, and a
\* read of the database may fail.
SagaLease ==
    /\ saga.at = "lease"
    /\ \/ SagaEnds(FALSE)
       \/ /\ rival
          /\ SagaEnds(TRUE)
       \/ /\ ~rival
          /\ active' = TRUE
          /\ saga' = [saga EXCEPT !.at = "drive"]
          /\ UNCHANGED blocked
    /\ UNCHANGED <<saga_vars, file, last, app, pending, stopping, sync, child, loop_vars,
                   owner_vars, crashes>>

\* A failure may come after the swap, from the check that reads it back.
SetDatabaseChampion ==
    /\ saga.at = "drive" /\ job.phase \in {"Prepared", "RollbackPending"}
    /\ \/ db' = Target /\ SagaResult(TRUE)
       \/ db' \in {db, Target} /\ SagaResult(FALSE)
    /\ UNCHANGED <<job, rival, proof, file, last, app, fence, pending, stopping, sync, child,
                   loop_vars, owner_vars, crashes>>

PublishChampionPointer ==
    /\ saga.at = "drive" /\ sync.at = "off"
    /\ job.phase \in {"CandidateDbActivated", "RollbackDbRestored"}
    /\ \/ db # Target /\ SagaResult(FALSE) /\ UNCHANGED <<file, sync, blocked>>
       \/ db = Target /\ SyncChampionPointer("saga")
    /\ UNCHANGED <<saga_vars, last, app, active, pending, stopping, child, loop_vars,
                   owner_vars, crashes>>

RestartChampion ==
    /\ saga.at = "drive"
    /\ job.phase \in {"CandidatePointerPublished", "RollbackPointerRestored"}
    /\ \/ /\ ~(active /\ EnsureStartAllowed(TRUE))
          /\ SagaResult(FALSE)
          /\ UNCHANGED <<file, child, pending>>
       \/ /\ active /\ EnsureStartAllowed(TRUE)
          /\ \E ok \in BOOLEAN :
                /\ StartChild("saga", ok)
                /\ SagaResult(ok)
                /\ pending' = (pending \/ ok)
    /\ UNCHANGED <<saga_vars, last, app, fence, stopping, sync, loop_vars, owner_vars, crashes>>

\* Variant: a pass recorded before is taken for a pass.
TrustRecordedPass ==
    /\ saga.at = "drive"
    /\ job.phase \in {"CandidateRestarted", "CandidateVerified",
                      "RollbackRestarted", "RollbackVerified"}
    /\ \/ /\ Loaded(Target)
          /\ proof' = Target
          /\ SagaResult(TRUE)
       \/ /\ SagaResult(job.phase \in {"CandidateVerified", "RollbackVerified"})
          /\ UNCHANGED proof
    /\ UNCHANGED <<job, rival, db, file, last, app, fence, pending, stopping, sync, child,
                   loop_vars, owner_vars, crashes>>

\* The engine is polled until it answers with the identity, then the canary
\* suite is run; a deadline, a drifted suite or a wrong answer is a failure.
VerifyExactAndCanary ==
    /\ saga.at = "drive"
    /\ job.phase \in {"CandidateRestarted", "CandidateVerified",
                      "RollbackRestarted", "RollbackVerified"}
    /\ \/ /\ Loaded(Target)
          /\ proof' = Target
          /\ SagaResult(TRUE)
       \/ /\ SagaResult(FALSE)
          /\ UNCHANGED proof
    /\ UNCHANGED <<job, rival, db, file, last, app, fence, pending, stopping, sync, child,
                   loop_vars, owner_vars, crashes>>

\* Variant: a failed rollback is begun again.
StampedRetrying ==
    IF saga.ok
    THEN CASE job.phase = "CandidateVerified" ->
                  [state |-> "succeeded", phase |-> "Completed", code |-> "none"]
           [] job.phase = "RollbackVerified" ->
                  [state |-> "failed", phase |-> "RollbackVerified", code |-> "PROMOTION_FAILED"]
           [] OTHER -> [job EXCEPT !.phase = NextPhase[job.phase]]
    ELSE [job EXCEPT !.phase = "RollbackPending"]

\* How a running row goes on: the next phase, the first phase of the rollback,
\* or its end.
Stamped ==
    IF saga.ok
    THEN CASE job.phase = "CandidateVerified" ->
                  [state |-> "succeeded", phase |-> "Completed", code |-> "none"]
           [] job.phase = "RollbackVerified" ->
                  [state |-> "failed", phase |-> "RollbackVerified", code |-> "PROMOTION_FAILED"]
           [] OTHER -> [job EXCEPT !.phase = NextPhase[job.phase]]
    ELSE IF job.phase \in Forward
         THEN [job EXCEPT !.phase = "RollbackPending"]
         ELSE [state |-> "failed", phase |-> "RollbackUnverified",
               code |-> "ROLLBACK_UNVERIFIED"]

\* The journal is written by compare-and-swap, or not at all.
Stamp ==
    /\ saga.at = "stamp"
    /\ \/ /\ SagaEnds(TRUE)
          /\ UNCHANGED job
       \/ /\ job' = Stamped
          /\ \/ /\ job'.state = "running"
                /\ saga' = [saga EXCEPT !.at = "drive"]
                /\ UNCHANGED fence
             \/ /\ job'.code = "ROLLBACK_UNVERIFIED"
                /\ SagaEnds(TRUE)
             \/ /\ job'.state # "running" /\ job'.code # "ROLLBACK_UNVERIFIED"
                /\ saga' = [saga EXCEPT !.at = "final"]
                /\ active' = FALSE
                /\ UNCHANGED blocked
    /\ UNCHANGED <<rival, db, proof, file, last, app, pending, stopping, sync, child, loop_vars,
                   owner_vars, crashes>>

\* The pointer is published once more before the fence opens.
FinalSync ==
    /\ saga.at = "final" /\ sync.at = "off"
    /\ \/ SagaEnds(FALSE) /\ UNCHANGED <<file, sync>>
       \/ SyncChampionPointer("final") /\ UNCHANGED active
    /\ UNCHANGED <<saga_vars, last, app, pending, stopping, child, loop_vars, owner_vars, crashes>>

Saga == SagaLease \/ SetDatabaseChampion \/ PublishChampionPointer \/ RestartChampion
        \/ VerifyExactAndCanary \/ Stamp \/ FinalSync

Sync == SyncAside \/ SyncPromote \/ SyncClean

Next ==
    \/ Boot \/ FinishSetup \/ BeginShutdown \/ ProcessEnds
    \/ ChildReady \/ ChildDies
    \/ ButtonCheck \/ ButtonSpawn \/ ButtonNote \/ ToggleSupervision
    \/ LoopWakes \/ LoopProbes \/ LoopDecides \/ LoopChecks \/ LoopSpawns
    \/ SagaLease \/ SetDatabaseChampion \/ PublishChampionPointer \/ RestartChampion
    \/ VerifyExactAndCanary \/ Stamp \/ FinalSync
    \/ SyncAside \/ SyncPromote \/ SyncClean

Spec == Init /\ [][Next]_vars

\* Setup, the recovery thread and the loop are threads that run on their own;
\* the engine, the owner and the end of the process owe nothing.
Fairness ==
    /\ WF_vars(FinishSetup)
    /\ WF_vars(Saga)
    /\ WF_vars(Sync)
    /\ WF_vars(Loop)

FairSpec == Spec /\ Fairness

-----------------------------------------------------------------------------
(* Properties.                                                             *)

\* What recovery will find at champion.json.
Pointed == RecoverInterruptedReplace(file).main

\* A recorded phase stands for effects that are still there: the registry and
\* champion.json agree with the row, whatever crashed between an effect and
\* its record, and a row that ended as promoted or rolled back is true of both
\* (champion_promotion.rs, "Last side effect durably known to have completed").
PhaseIsTruth ==
    /\ job.phase \in (Forward \ {"Prepared"}) \cup {"Completed"} => db = Candidate
    /\ job.phase \in Backward \ {"RollbackPending"} => db = Incumbent
    /\ job.phase \in {"CandidatePointerPublished", "CandidateRestarted",
                      "CandidateVerified", "Completed"} => Pointed = Candidate
    /\ job.phase \in {"RollbackPointerRestored", "RollbackRestarted",
                      "RollbackVerified"} => Pointed = Incumbent

\* A promotion ends as promoted, or as rolled back, only on a verification of
\* that very deployment made by the same process: a pass from before a crash is
\* never turned into an outcome (the re-verification in `drive`).
EndsOnFreshProof ==
    [][(Running /\ job'.state # "running" /\ job'.code # "ROLLBACK_UNVERIFIED")
       => proof = db]_vars

\* The loop and the Start button never start an engine while a promotion is
\* unresolved (PROMOTION_ACTIVE and PROMOTION_RECOVERY_BLOCKED at the one choke
\* point of every start).
OrdinaryStartsAreFenced ==
    [][(child' # child /\ child' # None /\ child'.by # "saga" /\ child'.fate = "loading")
       => ~Running]_vars

\* A replacement that a crash interrupted costs nothing: what recovery finds is
\* what was published last, also when an older backup was left behind.  And with
\* the fence open nobody is between the two renames and champion.json names the
\* registry's champion, so an ordinary start loads it.
PointerIsPublished ==
    /\ Pointed = last
    /\ (app = "up" /\ ~blocked /\ ~active) => (file.main = db /\ sync.at = "off")

\* Without an answer from the engine the loop starts it at most this often
\* before it gives up: the failures up to the first trip, then one per trip
\* (on_failure, whose counters, trips and half-open probe meet at their limits).
StartsAreBounded == starts <= MaxFailures + MaxTrips - 1

\* A loop left alone with an engine that never answers gives up: neither the
\* backoff, nor a cooldown, nor the half-open probe holds it for ever.
GivesUp ==
    <>[](loop.at # "off" /\ enabled /\ ~blocked /\ ~active /\ ~loop.healthy)
        => <>(sup.breaker = "GaveUp")

\* An interrupted promotion that startup found is resolved, or its thread has
\* ended with the fence shut; it never goes round for ever (drive, whose
\* rollback is never begun twice).
RecoverySettles ==
    (app = "up" /\ Running)
        ~> (~Running \/ app = "down" \/ (saga.at = "off" /\ blocked))

\* "Starting a model in that state would turn an explicitly unverified rollback
\* into a silently serving deployment" (engine_runtime.rs, on the fence).
UnverifiedNeverServes ==
    job.code = "ROLLBACK_UNVERIFIED" => (child = None \/ child.by = "saga")

=============================================================================
