---------------------------- MODULE NamedRestore ----------------------------
(***************************************************************************)
(* Restoring a named snapshot: one database and several configuration      *)
(* files are replaced as one transaction behind a durable marker (the      *)
(* restore barrier), across errors, crashes and power loss.  Models        *)
(* recovery.rs, restore_service/orchestration.rs, the restore commands of  *)
(* commands/recovery_ipc.rs and the recovery before startup.               *)
(*                                                                         *)
(* One restore runs at a time (RestoreAdmission!RestoreExclusion), so the  *)
(* model has one program counter.  A database or a file is identified with *)
(* the generation its bytes come from; a digest is the generation itself.  *)
(* A write into the data directory is one of three outcomes: "ok", visible *)
(* but the directory not synchronized, or nothing written.  No attempt and *)
(* no start synchronizes what an earlier one has left so, and the sync     *)
(* after an ordinary replacement is best effort: until the next sync a     *)
(* power loss can bring the entries of then back (`strays`).               *)
(***************************************************************************)
EXTENDS Naturals, Sequences, FiniteSets

CONSTANTS
  Generations,     \* origins of database and configuration bytes
  Files,           \* configuration files, in the order of their installation
  Named,           \* selectors of the rotating snapshots
  Manifest,        \* what each named snapshot holds
  Swapped,         \* what a replaced snapshot directory may hold instead
  Supersets,       \* <<f, t>>: t keeps all human authority of f
  Reviewed,        \* generations with durable review activity or a pilot policy
  KeepPins,        \* take_mandatory_pre_restore_snapshot keeps this many pins
  MaxPins,         \* bound on the pins taken
  MaxFaults,       \* bound on I/O errors, cancellations and crashes
  MaxEdits,        \* bound on ordinary edits and changes of the snapshot tree
  None,            \* nothing recorded, nothing staged
  Gone,            \* no such snapshot
  Preserve         \* a legacy snapshot does not bind this file

FileNames == {Files[i] : i \in DOMAIN Files}
Contents == [db : Generations, config : [FileNames -> Generations]]
Snapshots == [db : Generations, config : [FileNames -> Generations \cup {Preserve}]]
Pins == 1 .. MaxPins
Selectors == Named \cup Pins
Markers ==
  [source : Selectors, pin : Selectors, target : Generations \cup {None},
   completed : Selectors \cup {None}, digest : Generations \cup {None}]

ASSUME FilesAssumption == Files \in Seq(FileNames)
ASSUME GenerationsAssumption ==
  /\ Supersets \subseteq Generations \X Generations
  /\ \A g \in Generations : <<g, g>> \in Supersets
  /\ Reviewed \subseteq Generations
  /\ Preserve \notin Generations /\ None \notin Generations
ASSUME SnapshotsAssumption ==
  /\ Manifest \in [Named -> Snapshots]
  /\ Swapped \subseteq Contents
  /\ Named \cap Pins = {} /\ None \notin Selectors
  /\ Gone \notin Snapshots /\ None \notin Snapshots /\ None \notin Markers
ASSUME RestoreBoundsAssumption ==
  /\ KeepPins \in Nat \ {0}
  /\ MaxPins \in Nat /\ MaxFaults \in Nat /\ MaxEdits \in Nat

VARIABLES
  proc,         \* the process: "down", "starting" or "up"
  phase,        \* the phase of its RestoreAdmission
  pc,           \* where the restore is
  sel,          \* the selector it restores
  staged,       \* its private copy of that snapshot
  step,         \* how many files it has installed
  db,           \* the live database
  config,       \* the live configuration files
  configDisk,   \* as last synchronized, edited, or found by an attempt or a start
  marker,       \* the restore barrier file
  markerDisk,   \* as last synchronized, or found by an attempt or a start
  strays,       \* what was on the disk when one went on over something else
  snaps,        \* the snapshot tree
  lastPin,      \* timestamp of the newest pre-restore pin
  history,      \* undo history: empty, of this database, or of an earlier one
  faults, edits,
  floor,        \* observer: the library when it was last open
  past,         \* observer: the libraries before all restores so far
  relapsed      \* observer: a power loss has brought strays back

process == <<proc, phase, pc, sel, staged, step>>
files == <<config, configDisk, marker, markerDisk, strays>>
bounds == <<faults, edits>>
observers == <<floor, past, relapsed>>
vars == <<process, db, files, snaps, lastPin, history, bounds, observers>>

Library == [db |-> db, config |-> config]
Open == proc = "up" /\ phase = "Idle"

\* What installing snapshot c makes of library l.
Apply(c, l) ==
  [db |-> c.db,
   config |-> [f \in FileNames |-> IF c.config[f] = Preserve THEN l.config[f] ELSE c.config[f]]]

\* A marker that an earlier release left: schema 1 or 2, without digests.
LegacyMarker(s, p, completed) ==
  [source |-> s, pin |-> p, target |-> None, completed |-> completed, digest |-> None]

\* The first start of this release: no restore is pending, or an earlier release
\* was interrupted between any two files, or before it removed its marker.
Init ==
  /\ proc = "down" /\ phase = "Idle" /\ pc = "none"
  /\ sel = None /\ staged = None /\ step = 0
  /\ history = "empty" /\ faults = 0 /\ edits = 0
  /\ \E g \in Generations : floor = [db |-> g, config |-> [f \in FileNames |-> g]]
  /\ past = {floor} /\ strays = {} /\ relapsed = FALSE
  /\ \/ /\ marker = None /\ lastPin = 0
        /\ db = floor.db /\ config = floor.config
        /\ snaps = [s \in Selectors |-> IF s \in Named THEN Manifest[s] ELSE Gone]
     \/ \E s \in Named :
          /\ MaxPins > 0 /\ lastPin = 1
          /\ <<floor.db, Manifest[s].db>> \in Supersets
          /\ snaps = [x \in Selectors |-> IF x \in Named THEN Manifest[x] ELSE IF x = 1 THEN floor ELSE Gone]
          /\ \/ /\ marker = LegacyMarker(s, 1, None)
                /\ \/ db = floor.db /\ config = floor.config
                   \/ \E i \in 0 .. Len(Files) :
                        /\ db = Manifest[s].db
                        /\ config = [f \in FileNames |->
                             IF \E j \in 1 .. i : Files[j] = f
                               THEN Apply(Manifest[s], floor).config[f] ELSE floor.config[f]]
             \/ /\ marker = LegacyMarker(s, 1, s)
                /\ db = Manifest[s].db /\ config = Apply(Manifest[s], floor).config
  /\ configDisk = config /\ markerDisk = marker

-----------------------------------------------------------------------------
(* Building blocks. *)

Results == {"ok", "unsynced", "failed"}
Fault(result) ==
  /\ result # "ok" => faults < MaxFaults
  /\ faults' = IF result = "ok" THEN faults ELSE faults + 1

\* atomic_write_restore_state and remove_live_restore_state: a rename or an unlink
\* in the data directory, then the strict sync of that directory.
WriteData(newMarker, newConfig, result) ==
  /\ Fault(result)
  /\ marker' = IF result = "failed" THEN marker ELSE newMarker
  /\ config' = IF result = "failed" THEN config ELSE newConfig
  /\ IF result = "ok"
       THEN markerDisk' = newMarker /\ configDisk' = newConfig /\ strays' = {}
       ELSE UNCHANGED <<markerDisk, configDisk, strays>>

\* The restore goes on only after the strict sync; the mutant is content with the
\* best-effort one that other writers of the application use.
BestEffort(result) == result # "failed"
Strict(result) == result = "ok"

\* load_named_restore_pending at the beginning of an attempt and of a start: it takes
\* the directory as it is, synchronized or not.
TakeAsFound ==
  /\ markerDisk' = marker /\ configDisk' = config
  /\ strays' = IF markerDisk = marker /\ configDisk = config THEN strays
               ELSE strays \cup {[marker |-> markerDisk, config |-> configDisk]}
  /\ UNCHANGED <<config, marker>>

Goto(label) == pc' = label /\ UNCHANGED <<proc, phase, sel, staged, step>>

\* The restore holds a reservation of phase p and drops it.  An armed one parks
\* the admission; the mutant reopens it.
ReopenOnDrop(p) == "Idle"
PhaseAfterDrop(p) == IF p = "ActiveArmed" THEN "Parked" ELSE "Idle"

Forget == pc' = "none" /\ sel' = None /\ staged' = None /\ step' = 0

\* A command fails: its reservation, in phase p, is dropped.
Refuse(p) == phase' = PhaseAfterDrop(p) /\ Forget /\ UNCHANGED proc

\* The recovery before startup gives the target up; the mutant has no fallback.
NoFallback == FALSE
FallsBack == pc \in {"target", "publish", "install"} /\ sel = marker.source

\* A failed restore: a command drops its reservation; the recovery before startup
\* falls back from the target to the original pin, or blocks startup.
Abort ==
  IF proc = "up" THEN Refuse(phase)
  ELSE IF FallsBack THEN Goto("rollback")
  ELSE proc' = "down" /\ phase' = "Idle" /\ Forget

\* The floor a target must keep the human authority of: the original pin of the
\* pending restore, else the live database.  The mutant always takes the latter.
LiveFloor == db
FloorDatabase == IF marker = None THEN db ELSE snaps[marker.pin].db

\* require_restore_authority_superset, the policy binding and target semantics.
Admissible(target) == <<FloorDatabase, target>> \in Supersets

\* The recorded digest admits this target; the mutant takes the selector's word.
AnyTarget(target) == TRUE
RecordedTarget(target) == marker.target \in {None, target}

\* A legacy marker is bound to the target's digest before anything is published;
\* otherwise only reading the snapshots can fail here.
BindTarget(target, result) ==
  IF marker.target = None
    THEN WriteData([marker EXCEPT !.target = target], config, result)
    ELSE Fault(result) /\ UNCHANGED files

\* prune_same_label_pins_best_effort: the new pin and the newest of the others.
\* The mutant keeps the oldest.
OldestPins(pins, new) == {p \in pins : Cardinality({q \in pins : q < p}) < KeepPins}
NewestPins(pins, new) == {p \in pins : Cardinality({q \in pins : q > p}) < KeepPins}

\* take_mandatory_pre_restore_snapshot; pruning is best effort.
TakePin ==
  /\ lastPin' = lastPin + 1
  /\ LET pins == {p \in Pins : snaps[p] # Gone} \cup {lastPin + 1}
     IN \E kept \in {pins, NewestPins(pins, lastPin + 1)} :
          snaps' = [s \in Selectors |->
                      IF s \in Pins \ kept THEN Gone ELSE IF s = lastPin + 1 THEN Library ELSE snaps[s]]

\* commit_staged_restore and the digest check after it: the copy is one SQLite
\* transaction, but the checkpoint, the sync of the directory or the check may
\* fail after it.
CommitStaged(result) ==
  /\ WriteData(marker, config, result)
  /\ db' = IF result = "failed" THEN db ELSE staged.db
  /\ history' = IF result = "failed" \/ history = "empty" THEN history ELSE "stale"

Observe ==
  /\ floor' = IF Open THEN Library ELSE floor
  /\ past' = IF Open THEN past \cup {Library} ELSE past
  /\ UNCHANGED relapsed

-----------------------------------------------------------------------------
(* restore_db_from_snapshot. *)

\* prepare_restore: a marker is claimed for recovery, else a new restore begins.
RequestNamed(s) ==
  /\ proc = "up" /\ pc = "none" /\ snaps[s] # Gone
  /\ IF marker # None THEN phase \in {"Idle", "Parked"} ELSE phase = "Idle" /\ lastPin < MaxPins
  /\ phase' = IF marker # None THEN "ActiveArmed" ELSE "ActiveNew"
  /\ pc' = "reserved" /\ sel' = s
  /\ TakeAsFound /\ Observe
  /\ UNCHANGED <<proc, staged, step, db, snaps, lastPin, history, bounds>>

\* completed_named_restore_matches_live; the mutant never trusts a completion.
NeverMatches == FALSE
MatchesLive == marker.digest = db

\* Only the cleanup of this very restore may still run.
CleanUp ==
  /\ pc = "reserved" /\ marker # None /\ marker.completed # None
  /\ IF marker.completed = sel /\ MatchesLive THEN Goto("clear") ELSE Refuse(phase)
  /\ UNCHANGED <<db, files, snaps, lastPin, history, bounds, observers>>

\* prepare_and_restore_named_transaction up to the pin, with no restore pending.
PrepareFirst(result) ==
  /\ pc = "reserved" /\ marker = None
  /\ IF snaps[sel] # Gone /\ Admissible(snaps[sel].db) /\ result = "ok"
       THEN /\ TakePin
            /\ staged' = snaps[sel] /\ pc' = "pinned"
            /\ UNCHANGED <<proc, phase, sel, step, faults>>
       ELSE Refuse(phase) /\ Fault(result) /\ UNCHANGED <<snaps, lastPin>>
  /\ UNCHANGED <<db, files, history, edits, observers>>

\* The commit boundary of begin_named_restore_transaction: arm, then write the
\* marker; disarm only when no marker can be there.
RecordMarker(result) ==
  /\ pc = "pinned"
  /\ WriteData([source |-> sel, pin |-> lastPin, target |-> staged.db,
                completed |-> None, digest |-> None], config, result)
  /\ IF Strict(result)
       THEN phase' = "ActiveArmed" /\ pc' = "publish" /\ UNCHANGED <<proc, sel, staged, step>>
       ELSE Refuse(IF result = "failed" THEN "ActiveNew" ELSE "ActiveArmed")
  /\ UNCHANGED <<db, snaps, lastPin, history, edits, observers>>

\* The retry of an interrupted restore: the same selector and the same recorded
\* target, the original pin reused; a legacy marker is bound to the target first.
PrepareRetry(result) ==
  /\ pc = "reserved" /\ marker # None /\ marker.completed = None
  /\ IF /\ marker.source = sel /\ snaps[sel] # Gone
        /\ Admissible(snaps[sel].db) /\ RecordedTarget(snaps[sel].db)
       THEN /\ BindTarget(snaps[sel].db, result)
            /\ IF result = "ok"
                 THEN staged' = snaps[sel] /\ pc' = "publish" /\ UNCHANGED <<proc, phase, sel, step>>
                 ELSE Refuse(phase)
       ELSE Refuse(phase) /\ UNCHANGED <<files, faults>>
  /\ UNCHANGED <<db, snaps, lastPin, history, edits, observers>>

Publish(result) ==
  /\ pc = "publish"
  /\ CommitStaged(result)
  /\ IF Strict(result) THEN Goto(IF proc = "up" THEN "history" ELSE "install") ELSE Abort
  /\ UNCHANGED <<snaps, lastPin, edits, observers>>

\* The command resumes after its worker and clears the undo history; a cancelled
\* command drops its reservation instead.
ClearHistory(cancelled) ==
  /\ pc = "history"
  /\ IF cancelled
       THEN Abort /\ Fault("failed") /\ UNCHANGED history
       ELSE history' = "empty" /\ Goto("install") /\ UNCHANGED faults
  /\ UNCHANGED <<db, files, snaps, lastPin, edits, observers>>

\* What the plan makes of one file: a legacy snapshot preserves the files it does
\* not bind.
Planned(f) == IF staged.config[f] = Preserve THEN config[f] ELSE staged.config[f]

\* install_snapshot_restore_plan, one file a step.
InstallFile(result) ==
  /\ pc = "install" /\ step < Len(Files)
  /\ LET f == Files[step + 1]
     IN IF staged.config[f] = Preserve /\ f # "settings"
          THEN result = "ok" /\ UNCHANGED <<files, faults>>
          ELSE WriteData(marker, [config EXCEPT ![f] = Planned(f)], result)
  /\ IF Strict(result)
       THEN /\ step' = step + 1
            /\ pc' = IF step + 1 = Len(Files) THEN "mark" ELSE "install"
            /\ UNCHANGED <<proc, phase, sel, staged>>
       ELSE Abort
  /\ UNCHANGED <<db, snaps, lastPin, history, edits, observers>>

\* mark_named_restore_completed.
MarkCompleted(result) ==
  /\ pc = "mark"
  /\ WriteData([marker EXCEPT !.target = IF @ = None THEN staged.db ELSE @,
                              !.completed = sel, !.digest = staged.db], config, result)
  /\ IF Strict(result) THEN Goto("clear") ELSE Abort
  /\ UNCHANGED <<db, snaps, lastPin, history, edits, observers>>

\* clear_review_pilot_restore_pending.
ClearMarker(result) ==
  /\ pc = "clear"
  /\ WriteData(None, config, result)
  /\ IF Strict(result) THEN Goto("commit") ELSE Abort
  /\ UNCHANGED <<db, snaps, lastPin, history, edits, observers>>

\* commit_named_restore and the drop; after a recovery, normal startup goes on.
Commit ==
  /\ pc = "commit"
  /\ proc' = "up" /\ phase' = "Idle" /\ Forget
  /\ UNCHANGED <<db, files, snaps, lastPin, history, bounds, observers>>

-----------------------------------------------------------------------------
(* db_restore: a bare database, refused wherever configuration is coupled to it. *)

RequestBare(g) ==
  /\ proc = "up" /\ pc = "none" /\ phase = "Idle" /\ marker = None /\ lastPin < MaxPins
  /\ "pilot" \in FileNames => config["pilot"] \notin Reviewed
  /\ {db, g} \cap Reviewed = {} /\ Admissible(g)
  /\ phase' = "ActiveNew" /\ pc' = "barePin"
  /\ staged' = [db |-> g, config |-> [f \in FileNames |-> Preserve]]
  /\ Observe
  /\ UNCHANGED <<proc, sel, step, db, files, snaps, lastPin, history, bounds>>

BarePin(result) ==
  /\ pc = "barePin"
  /\ IF result = "ok"
       THEN TakePin /\ Goto("barePublish") /\ UNCHANGED faults
       ELSE Refuse(phase) /\ Fault(result) /\ UNCHANGED <<snaps, lastPin>>
  /\ UNCHANGED <<db, files, history, edits, observers>>

BarePublish(result) ==
  /\ pc = "barePublish"
  /\ CommitStaged(result)
  /\ IF Strict(result) THEN Goto("bareHistory") ELSE Refuse(phase)
  /\ UNCHANGED <<snaps, lastPin, edits, observers>>

BareHistory ==
  /\ pc = "bareHistory"
  /\ history' = "empty"
  /\ Refuse(phase)
  /\ UNCHANGED <<db, files, snaps, lastPin, bounds, observers>>

-----------------------------------------------------------------------------
(* Startup: recover_interrupted_named_restore_with_admission. *)

Start ==
  /\ proc = "down"
  /\ IF marker = None
       THEN proc' = "up" /\ UNCHANGED <<phase, pc>>
       ELSE proc' = "starting" /\ phase' = "ActiveArmed" /\ pc' = "recover"
  /\ TakeAsFound
  /\ UNCHANGED <<sel, staged, step, db, snaps, lastPin, history, bounds, observers>>

\* A completion that matches the live database leaves only the cleanup; any other
\* one is reopened as incomplete.
Recover(result) ==
  /\ pc = "recover"
  /\ IF marker.completed # None /\ MatchesLive
       THEN /\ Fault(result) /\ UNCHANGED files
            /\ IF Strict(result) THEN Goto("clear") ELSE Abort
       ELSE /\ IF marker.completed # None
                 THEN WriteData([marker EXCEPT !.completed = None, !.digest = None], config, result)
                 ELSE Fault(result) /\ UNCHANGED files
            /\ IF result = "ok" /\ snaps[marker.pin] # Gone
                 THEN pc' = "target" /\ sel' = marker.source /\ UNCHANGED <<proc, phase, staged, step>>
                 ELSE Abort
  /\ UNCHANGED <<db, snaps, lastPin, history, edits, observers>>

\* The target is retried first, bound to the recorded digest.
RetryTarget(result) ==
  /\ pc = "target"
  /\ IF snaps[sel] # Gone /\ Admissible(snaps[sel].db) /\ RecordedTarget(snaps[sel].db)
       THEN /\ BindTarget(snaps[sel].db, result)
            /\ IF result = "ok"
                 THEN staged' = snaps[sel] /\ pc' = "publish" /\ UNCHANGED <<proc, phase, sel, step>>
                 ELSE Abort
       ELSE Abort /\ UNCHANGED <<files, faults>>
  /\ UNCHANGED <<db, snaps, lastPin, history, edits, observers>>

\* Otherwise the original pin is restored in full.
RollBack ==
  /\ pc = "rollback"
  /\ sel' = marker.pin /\ staged' = snaps[marker.pin] /\ step' = 0 /\ pc' = "publish"
  /\ UNCHANGED <<proc, phase, db, files, snaps, lastPin, history, bounds, observers>>

-----------------------------------------------------------------------------
(* The environment. *)

\* Ordinary work changes the database or replaces a configuration file, after which
\* the directory is synchronized as well as can be.
Edit(g) ==
  /\ Open /\ edits < MaxEdits
  /\ edits' = edits + 1
  /\ \/ /\ db' = g /\ history' = (IF history = "stale" THEN "stale" ELSE "current")
        /\ UNCHANGED <<config, configDisk, strays>>
     \/ \E f \in FileNames, synced \in BOOLEAN :
          /\ config' = [config EXCEPT ![f] = g] /\ configDisk' = config'
          /\ strays' = IF synced THEN {} ELSE strays \cup {[marker |-> markerDisk, config |-> configDisk]}
          /\ UNCHANGED <<db, history>>
  /\ UNCHANGED <<process, marker, markerDisk, snaps, lastPin, faults, observers>>

\* A named snapshot disappears (rotation, a person) or its directory is replaced.
ChangeSnapshot(s) ==
  /\ edits < MaxEdits
  /\ edits' = edits + 1
  /\ \E c \in Swapped \cup {Gone} : snaps' = [snaps EXCEPT ![s] = c]
  /\ UNCHANGED <<process, db, files, lastPin, history, faults, observers>>

\* The process dies: what it has written stays visible.
ProcessEnds ==
  /\ proc # "down"
  /\ Fault("failed")
  /\ proc' = "down" /\ phase' = "Idle" /\ Forget
  /\ history' = "empty"
  /\ Observe
  /\ UNCHANGED <<db, files, snaps, lastPin, edits>>

\* What a power loss can leave of the data directory: of entries that were not
\* synchronized since, each may be any that was there, those over which an attempt,
\* a start or an edit has gone on included.
Leaves(m, c) ==
  /\ m \in {marker, markerDisk}
  /\ \A f \in FileNames : c[f] \in {config[f], configDisk[f]}
Returns(m, c) ==
  /\ m \in {marker, markerDisk} \cup {d.marker : d \in strays}
  /\ \A f \in FileNames : c[f] \in {config[f], configDisk[f]} \cup {d.config[f] : d \in strays}

PowerLoss ==
  /\ proc # "down" \/ marker # markerDisk \/ config # configDisk \/ strays # {}
  /\ Fault("failed")
  /\ proc' = "down" /\ phase' = "Idle" /\ Forget
  /\ history' = "empty"
  /\ marker' \in {marker, markerDisk} \cup {d.marker : d \in strays}
  /\ config' \in {c \in [FileNames -> Generations] : Returns(marker', c)}
  /\ markerDisk' = marker' /\ configDisk' = config' /\ strays' = {}
  /\ floor' = (IF Open THEN Library ELSE floor)
  /\ past' = (IF Open THEN past \cup {Library} ELSE past)
  /\ relapsed' = (relapsed \/ ~Leaves(marker', config'))
  /\ UNCHANGED <<db, snaps, lastPin, edits>>

\* A restore that has begun goes on.
Continue ==
  \/ CleanUp
  \/ \E result \in Results :
       \/ result # "unsynced" /\ PrepareFirst(result)
       \/ RecordMarker(result)
       \/ PrepareRetry(result)
       \/ Publish(result)
       \/ InstallFile(result)
       \/ MarkCompleted(result)
       \/ ClearMarker(result)
       \/ result # "unsynced" /\ BarePin(result)
       \/ BarePublish(result)
       \/ Recover(result)
       \/ RetryTarget(result)
  \/ \E cancelled \in BOOLEAN : ClearHistory(cancelled)
  \/ Commit
  \/ BareHistory
  \/ RollBack

Request ==
  \/ \E s \in Selectors : RequestNamed(s)
  \/ \E g \in Generations : RequestBare(g)

Environment ==
  \/ \E g \in Generations : Edit(g)
  \/ \E s \in Named : ChangeSnapshot(s)
  \/ ProcessEnds
  \/ PowerLoss

\* Between restores the process waits for a request.
Wait == proc = "up" /\ pc = "none" /\ UNCHANGED vars

Next == Start \/ Continue \/ Request \/ Environment \/ Wait

Spec == Init /\ [][Next]_vars

\* A started process runs and a person starts it again: the only fairness.
FairSpec == Spec /\ WF_vars(Start) /\ WF_vars(Continue)

-----------------------------------------------------------------------------
(* Properties. *)

TypeOK ==
  /\ proc \in {"down", "starting", "up"}
  /\ phase \in {"Idle", "ActiveNew", "ActiveArmed", "Parked"}
  /\ sel \in Selectors \cup {None}
  /\ staged \in Snapshots \cup {None}
  /\ step \in 0 .. Len(Files)
  /\ db \in Generations
  /\ config \in [FileNames -> Generations] /\ configDisk \in [FileNames -> Generations]
  /\ marker \in Markers \cup {None} /\ markerDisk \in Markers \cup {None}
  /\ strays \subseteq [marker : Markers \cup {None}, config : [FileNames -> Generations]]
  /\ snaps \in [Selectors -> Snapshots \cup {Gone}]
  /\ lastPin \in 0 .. MaxPins
  /\ history \in {"empty", "current", "stale"}
  /\ floor \in past /\ past \subseteq Contents /\ relapsed \in BOOLEAN

\* What a restore may make of library l: nothing, or one snapshot that keeps its
\* human authority, installed in full; `old` are the libraries that were pinned.
BareDatabases == [db : Generations \ Reviewed, config : [FileNames -> {Preserve}]]
Outcomes(l, old) ==
  LET snapshots == {Manifest[s] : s \in Named} \cup Swapped \cup old \cup BareDatabases
  IN {l} \cup {Apply(c, l) : c \in {c \in snapshots : <<l.db, c.db>> \in Supersets}}

\* Barred or coherent: without a marker, the database and the files are the library
\* as it was last open or what one admissible snapshot makes of it.
BarredOrWhole(m, c) == m # None \/ [db |-> db, config |-> c] \in Outcomes(floor, past)

\* Whatever an error, the end of the process or a power loss would leave in the data
\* directory is barred or coherent, until a power loss brings strays back
\* (`relapsed`).
MixtureIsBarred ==
  ~Open /\ ~relapsed =>
    \A m \in {marker, markerDisk}, c \in [FileNames -> Generations] :
      Leaves(m, c) => BarredOrWhole(m, c)

\* While a barrier exists, now or after a power loss, the pin it names is the
\* library as it was before the first attempt: retries never evict or replace it.
OriginalSurvives ==
  relapsed \/ \A m \in {marker, markerDisk} : m # None => snaps[m.pin] = floor

\* Ordinary work is shut out while a barrier exists.
BarrierShutsLibrary ==
  proc = "up" /\ (marker # None \/ markerDisk # None) => phase \in {"ActiveArmed", "Parked"}

\* A generation whose completion is recorded is only cleaned up after: nothing
\* publishes over it or reopens its transaction, in this process or a later one.
CompletedIsFinal ==
  [][marker # None /\ marker.completed # None /\ marker.digest = db /\ ~relapsed'
       => db' = db /\ config' = config /\ marker' \in {marker, markerDisk, None}]_vars

\* Behind the barrier only the recorded target or the original is published, even
\* if another snapshot has taken the target's place in the snapshot tree.
PublishesRecorded ==
  [][pc = "publish" /\ db' # db /\ ~relapsed => db' \in {floor.db, marker.target}]_vars

Abstract == INSTANCE AtomicRestore
  WITH open <- Open, library <- IF Open THEN Library ELSE floor

\* Seen by ordinary work, a restore is one step: the library reopens as it was or
\* as one snapshot makes it, after any errors, cancellations, crashes and retries,
\* and it keeps the human authority of the library it replaces.  The promise ends
\* when a power loss brings strays back.
RestoresAreAtomic == Abstract!Spec

\* After an interruption the process always gets up again without the barrier:
\* the target is completed or the original rolled back, and nothing that may have
\* happened to the target snapshot can block that.
InterruptionEnds == proc = "down" ~> Open \/ relapsed

\* "Both paths keep the durable marker until DB + all required config have committed"
\* (recover_interrupted_named_restore_with_admission): once the database of an
\* unfinished restore is published, no power loss can take its barrier away.
BarrierIsDurable ==
  marker # None /\ marker.completed = None /\ db # floor.db =>
    None \notin {markerDisk} \cup {d.marker : d \in strays}
=============================================================================
