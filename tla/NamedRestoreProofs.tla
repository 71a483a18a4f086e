------------------------ MODULE NamedRestoreProofs ------------------------
(***************************************************************************)
(* Theorems about NamedRestore, for any generations, files and snapshots,  *)
(* and any number of faults, edits and pins: the barrier, the original and *)
(* the library it protects, what a completion and a recorded target bind,  *)
(* and that the restore implements AtomicRestore.                          *)
(*                                                                         *)
(* They hold until a power loss brings back directory entries over which   *)
(* an attempt, a start or an edit has gone on without a sync (`relapsed`), *)
(* and so for good where the power does not fail; that ordinary work is    *)
(* shut out holds even then.                                               *)
(***************************************************************************)
EXTENDS NamedRestore, FiniteSetTheorems, SequenceTheorems, TLAPS

-----------------------------------------------------------------------------
(* The inductive invariant.                                                *)

PCs == {"none", "reserved", "pinned", "publish", "history", "install", "mark", "clear", "commit",
        "barePin", "barePublish", "bareHistory", "recover", "target", "rollback"}

\* Steps of a restore: before its barrier, under it, and while it installs a copy.
Bare     == {"barePin", "barePublish", "bareHistory"}
Copying  == {"publish", "history", "install", "mark"}
Barred   == Copying \cup {"clear", "recover", "target", "rollback"}
Recovers == {"recover", "target", "rollback"}
Selected == {"reserved", "pinned", "target"} \cup Copying

FileSets == [FileNames -> Generations]

ProcTyped ==
  /\ proc \in {"down", "starting", "up"} /\ pc \in PCs
  /\ phase \in {"Idle", "ActiveNew", "ActiveArmed", "Parked"}
  /\ sel \in Selectors \cup {None} /\ staged \in Snapshots \cup {None} /\ step \in Nat

DataTyped ==
  /\ db \in Generations /\ config \in FileSets /\ configDisk \in FileSets
  /\ marker \in Markers \cup {None} /\ markerDisk \in Markers \cup {None}
  /\ snaps \in [Selectors -> Snapshots \cup {Gone}] /\ lastPin \in 0 .. MaxPins
  /\ floor \in past /\ past \subseteq Contents

\* Where the process stands, and what its admission says.
Where ==
  /\ proc = "down" => pc = "none" /\ phase = "Idle"
  /\ proc = "starting" =>
       pc \in Recovers \cup {"publish", "install", "mark", "clear", "commit"}
  /\ proc = "up" => pc \notin Recovers
  /\ pc = "none" => phase \in {"Idle", "Parked"}
  /\ pc \in Bare \cup {"pinned"} => phase = "ActiveNew"
  /\ pc = "reserved" => phase = IF marker = None THEN "ActiveNew" ELSE "ActiveArmed"
  /\ pc \in Barred \cup {"commit"} => phase = "ActiveArmed"
  /\ pc \in Selected => sel \in Selectors

-----------------------------------------------------------------------------
(* What the disk says, wherever the process stands.                        *)

\* The barrier and what a power loss would leave of it name the same restore.
SameRestore ==
  marker # None /\ markerDisk # None =>
    marker.pin = markerDisk.pin /\ marker.source = markerDisk.source

\* Where the snapshots come from.
Tree ==
  /\ \A s \in Named : snaps[s] \in {Manifest[s], Gone} \cup Swapped
  /\ \A p \in Pins : snaps[p] \in past \cup {Gone}
  /\ \A p \in Pins : snaps[p] # Gone => p <= lastPin

\* The pin of the pending restore is the library it found.
Original ==
  \A m \in {marker, markerDisk} : m # None => m.pin \in Pins /\ snaps[m.pin] = floor

\* A file that a snapshot does not bind is as it was.
Untouched(c) ==
  \A f \in FileNames : c.config[f] = Preserve =>
      config[f] = floor.config[f] /\ configDisk[f] = floor.config[f]

Preserved ==
  \A m \in {marker, markerDisk} :
    m # None => (snaps[m.source] # Gone => Untouched(snaps[m.source]))

\* The library is settled on the disk, and what one snapshot makes of the original.
Whole == config = configDisk /\ Library \in Outcomes(floor, past)

\* A completion that is recorded with its digest is true.
Proved ==
  \A m \in {marker, markerDisk} :
    m # None => (m.digest # None => m.completed # None /\ m.digest = db /\ Whole)

Disk == SameRestore /\ Tree /\ Original /\ Preserved /\ Proved

\* Wherever no barrier protects the library, it is whole.
Sheltered ==
  IF Open THEN marker = None /\ markerDisk = None /\ config = configDisk
          ELSE marker = None \/ markerDisk = None => Whole

-----------------------------------------------------------------------------
(* What a restore has reached.                                             *)

AtBarrier ==
  /\ pc \in Bare \cup {"pinned", "commit"} => marker = None /\ markerDisk = None
  /\ pc \in Barred => marker # None /\ markerDisk # None
  /\ pc \in {"reserved", "recover", "target"} => marker = markerDisk
  /\ pc \in Copying \cup {"target", "rollback"} =>
       marker.completed = None /\ marker.digest = None /\ markerDisk.digest = None

AtPin ==
  /\ pc = "barePin" \/ (pc = "reserved" /\ marker = None) => lastPin < MaxPins
  /\ pc = "pinned" => lastPin \in Pins /\ snaps[lastPin] = floor

\* What can be installed.
Known == {Manifest[s] : s \in Named} \cup Swapped \cup past

\* The private copy, and what has become of its snapshot.
AtCopy ==
  /\ pc \in {"pinned"} \cup Copying =>
       staged \in Known /\ <<floor.db, staged.db>> \in Supersets
  /\ pc = "pinned" => snaps[sel] \in {staged, Gone} \cup Swapped
  /\ pc \in Copying =>
       \/ staged = floor
       \/ /\ sel = marker.source /\ marker.target = staged.db
          /\ snaps[sel] \in {staged, Gone} \cup Swapped
  /\ pc \in Copying => Untouched(staged)
  /\ pc \in Bare => staged \in BareDatabases /\ <<floor.db, staged.db>> \in Supersets
  /\ pc = "target" => sel = marker.source

\* How far the database and the files are.
AtFile ==
  /\ pc \in {"none", "reserved", "pinned", "recover", "target", "publish", "history"} \cup Bare =>
       step = 0
  /\ pc \in {"history", "install", "mark"} => config = configDisk /\ db = staged.db
  /\ pc = "mark" => step = Len(Files)
  /\ pc \in {"install", "mark"} =>
       \A i \in 1 .. step : config[Files[i]] = Apply(staged, floor).config[Files[i]]

AtLibrary ==
  /\ pc \in {"pinned", "barePin", "barePublish"} \/ (pc = "reserved" /\ marker = None) =>
       Library = floor
  /\ pc = "bareHistory" => Library = Apply(staged, floor)
  /\ pc = "clear" => Whole

At == AtBarrier /\ AtPin /\ AtCopy /\ AtFile /\ AtLibrary

RestoreInv ==
  ProcTyped /\ DataTyped /\ Where /\ Disk /\ Sheltered /\ At

-----------------------------------------------------------------------------
(* Libraries and snapshots.                                                *)

\* The live library and the original are contents of a library.
LEMMA LibraryTyped ==
    ASSUME DataTyped
    PROVE  Library \in Contents /\ floor \in Contents /\ Contents \subseteq Snapshots
  BY DEF DataTyped, Library, Contents, Snapshots, FileSets

\* A barrier is not the absence of one.
LEMMA MarkerTyped ==
    ASSUME NEW m \in Markers \cup {None}, m # None
    PROVE  /\ m \in Markers /\ m.source \in Selectors /\ m.pin \in Selectors
           /\ m.target \in Generations \cup {None} /\ m.digest \in Generations \cup {None}
           /\ m.completed \in Selectors \cup {None}
  BY DEF Markers

\* The original, and what a known snapshot makes of it, are outcomes.
LEMMA OutcomesOf ==
    /\ floor \in Outcomes(floor, past)
    /\ \A c \in Known \cup BareDatabases :
         <<floor.db, c.db>> \in Supersets => Apply(c, floor) \in Outcomes(floor, past)
  BY DEF Outcomes, Known

\* A known snapshot is a snapshot.
LEMMA KnownTyped ==
    ASSUME DataTyped
    PROVE  Known \subseteq Snapshots
  BY SnapshotsAssumption, LibraryTyped DEF DataTyped, Known

\* Every snapshot of the tree is a known one.
LEMMA TreeKnown ==
    ASSUME DataTyped, Tree, NEW s \in Selectors, snaps[s] # Gone
    PROVE  snaps[s] \in Known /\ snaps[s] \in Snapshots
  BY DEF DataTyped, Tree, Known, Selectors

\* A full library and a replaced snapshot bind every file.
LEMMA FullUntouched ==
    ASSUME DataTyped
    PROVE  \A c \in Contents : Untouched(c)
  BY GenerationsAssumption DEF Untouched, Contents

-----------------------------------------------------------------------------
(* The end of an attempt.                                                  *)

\* The attempt is over, whatever it had reached.
LEMMA Ends ==
    ASSUME DataTyped', Disk', Sheltered',
           pc' = "none", step' = 0, sel' = None, staged' = None,
           \/ proc' = "up" /\ phase' \in {"Idle", "Parked"}
           \/ proc' = "down" /\ phase' = "Idle"
    PROVE  RestoreInv'
<1>1. ProcTyped'
  BY DEF ProcTyped, PCs
<1>2. Where'
  BY DEF Where, Recovers, Bare, Barred, Selected, Copying
<1>3. At'
  BY DEF At, AtBarrier, AtPin, AtCopy, AtFile, AtLibrary, Bare, Barred, Copying
<1> QED BY <1>1, <1>2, <1>3 DEF RestoreInv

\* A restore is refused or fails before its barrier exists.
LEMMA NewEnds ==
    ASSUME DataTyped', Disk', Refuse("ActiveNew"), proc = "up",
           marker' = None, markerDisk' = None, config' = configDisk'
    PROVE  RestoreInv'
<1>1. pc' = "none" /\ step' = 0 /\ sel' = None /\ staged' = None /\ proc' = "up" /\ phase' = "Idle"
  BY DEF Refuse, Forget, PhaseAfterDrop
<1>2. Sheltered'
  BY <1>1 DEF Sheltered, Open
<1> QED BY <1>1, <1>2, Ends

\* A command fails behind the barrier: the admission is parked.
LEMMA ArmedEnds ==
    ASSUME DataTyped', Disk', Refuse("ActiveArmed"), proc = "up",
           marker' = None \/ markerDisk' = None => Whole'
    PROVE  RestoreInv'
<1>1. /\ pc' = "none" /\ step' = 0 /\ sel' = None /\ staged' = None /\ proc' = "up"
      /\ phase' = "Parked"
  BY DEF Refuse, Forget, PhaseAfterDrop
<1>2. Sheltered'
  BY <1>1 DEF Sheltered, Open
<1> QED BY <1>1, <1>2, Ends

\* An attempt fails behind the barrier: the command is parked, the recovery falls
\* back to the original or the start is blocked.
LEMMA Aborts ==
    ASSUME RestoreInv, DataTyped', Disk', Abort, pc \in Barred,
           marker' = None \/ markerDisk' = None => Whole',
           pc \in {"target", "publish", "install"} =>
             /\ marker' # None /\ markerDisk' # None
             /\ marker'.completed = None /\ marker'.digest = None /\ markerDisk'.digest = None
    PROVE  RestoreInv'
<1>1. phase = "ActiveArmed" /\ proc \in {"starting", "up"}
  BY DEF RestoreInv, Where, ProcTyped, Barred, Recovers, Copying
<1>2. CASE proc = "up"
  BY <1>1, <1>2, ArmedEnds DEF Abort
<1>3. CASE proc # "up" /\ FallsBack
  <2>1. /\ pc' = "rollback" /\ proc' = "starting" /\ phase' = "ActiveArmed"
        /\ sel' = sel /\ staged' = staged /\ step' = step /\ pc \in {"target", "publish", "install"}
    BY <1>1, <1>3 DEF Abort, Goto, FallsBack
  <2>2. ProcTyped'
    BY <2>1 DEF RestoreInv, ProcTyped, PCs
  <2>3. Where'
    BY <2>1 DEF Where, Recovers, Bare, Barred, Selected, Copying
  <2>4. Sheltered'
    BY <2>1 DEF Sheltered, Open
  <2>5. At'
    BY <2>1 DEF At, AtBarrier, AtPin, AtCopy, AtFile, AtLibrary, Bare, Barred, Copying
  <2> QED BY <1>1, <2>2, <2>3, <2>4, <2>5 DEF RestoreInv
<1>4. CASE proc # "up" /\ ~FallsBack
  <2>1. /\ pc' = "none" /\ step' = 0 /\ sel' = None /\ staged' = None /\ proc' = "down"
        /\ phase' = "Idle"
    BY <1>4 DEF Abort, Forget
  <2>2. Sheltered'
    BY <2>1 DEF Sheltered, Open
  <2> QED BY <1>1, <2>1, <2>2, Ends
<1> QED BY <1>2, <1>3, <1>4

-----------------------------------------------------------------------------
(* What the writes leave on the disk.                                      *)

\* A write into the data directory, in each of its outcomes.
LEMMA Writes ==
    ASSUME NEW m, NEW c, NEW result \in Results, WriteData(m, c, result)
    PROVE  /\ result = "ok" => marker' = m /\ markerDisk' = m /\ config' = c /\ configDisk' = c
           /\ result = "unsynced" =>
                marker' = m /\ markerDisk' = markerDisk /\ config' = c /\ configDisk' = configDisk
           /\ result = "failed" => UNCHANGED <<marker, markerDisk, config, configDisk>>
  BY DEF WriteData, Results

\* The barrier that a step leaves is one that was there, or none.
Inherits(m) ==
  m = None \/ \E o \in {marker, markerDisk} : o # None /\ m.pin = o.pin /\ m.source = o.source

\* A step that writes no file and takes no pin leaves the disk as good as it was.
LEMMA DiskKept ==
    ASSUME DataTyped, Disk, UNCHANGED <<snaps, lastPin, floor, past>>,
           \A m \in {marker', markerDisk'} : Inherits(m),
           \A f \in FileNames : {config'[f], configDisk'[f]} \subseteq {config[f], configDisk[f]},
           Proved'
    PROVE  Disk'
<1>1. SameRestore'
  BY DEF Disk, SameRestore, Inherits
<1>2. Tree'
  BY DEF Disk, Tree
<1>3. Original'
  BY DEF Disk, Original, Inherits
<1>4. Preserved'
  <2> SUFFICES ASSUME NEW m \in {marker', markerDisk'}, m # None, snaps[m.source] # Gone,
                      NEW f \in FileNames, snaps[m.source].config[f] = Preserve
               PROVE  config'[f] = floor.config[f] /\ configDisk'[f] = floor.config[f]
    BY DEF Preserved, Untouched
  <2>1. PICK o \in {marker, markerDisk} : o # None /\ m.source = o.source
    BY DEF Inherits
  <2>2. config[f] = floor.config[f] /\ configDisk[f] = floor.config[f]
    BY <2>1 DEF Disk, Preserved, Untouched
  <2> QED BY <2>2
<1> QED BY <1>1, <1>2, <1>3, <1>4 DEF Disk

\* A step that touches nothing on the disk.
LEMMA DiskSame ==
    ASSUME DataTyped, Disk,
           UNCHANGED <<db, config, configDisk, marker, markerDisk, snaps, lastPin, floor, past>>
    PROVE  DataTyped' /\ Disk' /\ Whole' = Whole /\ Library' = Library
<1>1. Whole' = Whole /\ Library' = Library
  BY DEF Whole, Library, Outcomes
<1>2. Proved'
  BY <1>1 DEF Disk, Proved
<1>3. Disk'
  BY <1>2, DiskKept DEF Inherits
<1> QED BY <1>1, <1>3 DEF DataTyped

-----------------------------------------------------------------------------
(* One lemma per step of a restore.                                        *)

\* An attempt goes on behind the barrier.
LEMMA GoesOn ==
    ASSUME ProcTyped', DataTyped', Disk', Where', At', pc' \in Barred
    PROVE  RestoreInv'
<1>1. phase' = "ActiveArmed" /\ marker' # None /\ markerDisk' # None
  BY DEF Where, At, AtBarrier
<1>2. Sheltered'
  BY <1>1 DEF Sheltered, Open
<1> QED BY <1>2 DEF RestoreInv

\* Where a command is that has a reservation.
LEMMA ReservedFacts ==
    ASSUME RestoreInv, pc = "reserved"
    PROVE  /\ proc = "up" /\ marker = markerDisk /\ sel \in Selectors /\ step = 0
           /\ phase = IF marker = None THEN "ActiveNew" ELSE "ActiveArmed"
           /\ marker = None => lastPin < MaxPins /\ Library = floor /\ Whole
<1>1. proc = "up"
  BY DEF RestoreInv, ProcTyped, Where, Recovers
<1>2. /\ sel \in Selectors /\ marker = markerDisk /\ step = 0
      /\ phase = IF marker = None THEN "ActiveNew" ELSE "ActiveArmed"
      /\ marker = None => lastPin < MaxPins /\ Library = floor
  BY DEF RestoreInv, Where, Selected, At, AtBarrier, AtPin, AtFile, AtLibrary
<1>3. marker = None => Whole
  BY <1>2 DEF RestoreInv, Sheltered, Open
<1> QED BY <1>1, <1>2, <1>3

\* The cleanup after a recorded completion.
LEMMA CleanUpKeeps ==
    ASSUME RestoreInv, CleanUp
    PROVE  RestoreInv'
<1>1. /\ pc = "reserved" /\ marker # None /\ marker.completed # None /\ DataTyped /\ Disk
      /\ UNCHANGED <<db, config, configDisk, marker, markerDisk, snaps, lastPin, floor, past>>
  BY DEF CleanUp, RestoreInv, files, observers
<1>2. DataTyped' /\ Disk' /\ Whole' = Whole
  BY <1>1, DiskSame
<1>3. proc = "up" /\ marker = markerDisk /\ phase = "ActiveArmed" /\ sel \in Selectors
  BY <1>1, ReservedFacts
<1>4. CASE Refuse(phase)
  BY <1>1, <1>2, <1>3, <1>4, ArmedEnds
<1>5. CASE MatchesLive /\ Goto("clear")
  <2>1. Whole
    BY <1>1, <1>5, GenerationsAssumption DEF MatchesLive, Disk, Proved, DataTyped
  <2>2. /\ pc' = "clear" /\ proc' = "up" /\ phase' = "ActiveArmed" /\ sel' = sel
        /\ staged' = staged /\ step' = step
    BY <1>3, <1>5 DEF Goto
  <2>3. ProcTyped'
    BY <2>2 DEF RestoreInv, ProcTyped, PCs
  <2>4. Where'
    BY <2>2 DEF Where, Recovers, Bare, Barred, Selected, Copying
  <2>5. At'
    BY <1>1, <1>2, <1>3, <2>1, <2>2
       DEF At, AtBarrier, AtPin, AtCopy, AtFile, AtLibrary, Bare, Barred, Copying
  <2> QED BY <1>1, <1>2, <2>2, <2>3, <2>4, <2>5, GoesOn DEF Barred
<1> QED BY <1>1, <1>4, <1>5 DEF CleanUp

\* Pruning keeps the new pin, which is the library as it is.
LEMMA PinTaken ==
    ASSUME DataTyped, Tree, TakePin, lastPin < MaxPins, Library = floor, past' = past
    PROVE  /\ snaps' \in [Selectors -> Snapshots \cup {Gone}] /\ lastPin' \in Pins
           /\ snaps'[lastPin'] = floor /\ Tree'
           /\ \A s \in Selectors : snaps[s] # Gone => snaps'[s] \in {snaps[s], Gone}
<1> DEFINE new == lastPin + 1
           pins == {p \in Pins : snaps[p] # Gone} \cup {new}
<1>1. lastPin' = new /\ new \in Pins /\ new \in Selectors /\ lastPin \in Nat /\ Pins \subseteq Nat
  BY RestoreBoundsAssumption DEF DataTyped, TakePin, Pins, Selectors
<1>2. new \in pins /\ new \in Nat /\ \A p \in pins : p \in Nat /\ p <= new
  <2>1. \A p \in Pins : snaps[p] # Gone => p <= lastPin
    BY DEF Tree
  <2>2. ASSUME NEW p \in pins PROVE p \in Nat /\ p <= new
    <3>1. CASE p = new
      BY <1>1, <3>1
    <3>2. CASE p \in Pins /\ snaps[p] # Gone
      BY <1>1, <2>1, <3>2
    <3> QED BY <3>1, <3>2
  <2> QED BY <1>1, <2>2
<1>3. PICK kept \in {pins, NewestPins(pins, new)} :
        snaps' = [s \in Selectors |->
                    IF s \in Pins \ kept THEN Gone ELSE IF s = new THEN Library ELSE snaps[s]]
  BY DEF TakePin
<1> HIDE DEF new, pins
<1>4. new \in kept
  <2>1. {q \in pins : q > new} = {}
    <3>1. \A q \in pins : ~(q > new)
      BY <1>2
    <3> QED BY <3>1
  <2>2. Cardinality({q \in pins : q > new}) < KeepPins
    BY <2>1, FS_EmptySet, RestoreBoundsAssumption
  <2>3. new \in NewestPins(pins, new)
    BY <1>2, <2>2 DEF NewestPins
  <2> QED BY <1>2, <1>3, <2>3
<1>5. floor \in Snapshots /\ floor \in past
  BY LibraryTyped DEF DataTyped
<1>6. snaps'[new] = floor
  BY <1>1, <1>3, <1>4
<1>7. snaps' \in [Selectors -> Snapshots \cup {Gone}]
  BY <1>3, <1>5 DEF DataTyped
<1>8. snaps[new] = Gone
  BY <1>1 DEF Tree, DataTyped, new
<1>9. \A s \in Selectors : s # new => snaps'[s] \in {snaps[s], Gone}
  BY <1>3
<1>10. \A s \in Named : s \notin Pins /\ snaps'[s] = snaps[s]
  BY <1>1, <1>3, SnapshotsAssumption DEF Selectors
<1>11. Tree'
  <2>1. \A p \in Pins : snaps'[p] \in past \cup {Gone}
    BY <1>5, <1>6, <1>9 DEF Tree, Selectors
  <2>2. \A p \in Pins : snaps'[p] # Gone => p <= lastPin'
    BY <1>1, <1>9 DEF Tree, Selectors, new
  <2> QED BY <1>10, <2>1, <2>2 DEF Tree
<1> QED BY <1>1, <1>6, <1>7, <1>8, <1>9, <1>11

\* The disk before a barrier: a new pin disturbs nothing.
LEMMA PinDisk ==
    ASSUME DataTyped, Disk, TakePin, lastPin < MaxPins, Library = floor, marker = None,
           markerDisk = None, UNCHANGED <<db, config, configDisk, marker, markerDisk, floor, past>>
    PROVE  DataTyped' /\ Disk'
<1>1. Tree' /\ snaps' \in [Selectors -> Snapshots \cup {Gone}] /\ lastPin' \in Pins
  BY PinTaken DEF Disk
<1>2. DataTyped'
  BY <1>1, RestoreBoundsAssumption DEF DataTyped, Pins
<1>3. SameRestore' /\ Original' /\ Preserved' /\ Proved'
  BY DEF SameRestore, Original, Preserved, Proved
<1> QED BY <1>1, <1>2, <1>3 DEF Disk

\* The pin and the copy of a new restore.
LEMMA PrepareFirstKeeps ==
    ASSUME RestoreInv, NEW result, PrepareFirst(result)
    PROVE  RestoreInv'
<1>1. /\ pc = "reserved" /\ marker = None /\ DataTyped /\ Disk
      /\ UNCHANGED <<db, config, configDisk, marker, markerDisk, floor, past>>
  BY DEF PrepareFirst, RestoreInv, files, observers
<1>2. /\ proc = "up" /\ markerDisk = None /\ phase = "ActiveNew" /\ sel \in Selectors /\ step = 0
      /\ lastPin < MaxPins /\ Library = floor /\ Whole
  BY <1>1, ReservedFacts
<1>3. CASE Refuse(phase) /\ UNCHANGED <<snaps, lastPin>>
  <2>1. DataTyped' /\ Disk' /\ Whole' = Whole
    BY <1>1, <1>3, DiskSame
  <2> QED BY <1>1, <1>2, <1>3, <2>1, NewEnds DEF Whole
<1>4. CASE /\ snaps[sel] # Gone /\ Admissible(snaps[sel].db) /\ TakePin
           /\ staged' = snaps[sel] /\ pc' = "pinned" /\ UNCHANGED <<proc, phase, sel, step>>
  <2>1. DataTyped' /\ Disk'
    BY <1>1, <1>2, <1>4, PinDisk
  <2>2. /\ lastPin' \in Pins /\ snaps'[lastPin'] = floor
        /\ \A s \in Selectors : snaps[s] # Gone => snaps'[s] \in {snaps[s], Gone}
    BY <1>1, <1>2, <1>4, PinTaken DEF Disk
  <2>3. snaps[sel] \in Known /\ snaps[sel] \in Snapshots /\ <<floor.db, snaps[sel].db>> \in Supersets
    <3>1. <<db, snaps[sel].db>> \in Supersets /\ db = floor.db
      BY <1>1, <1>2, <1>4 DEF Admissible, FloorDatabase, Library
    <3> QED BY <1>1, <1>2, <1>4, <3>1, TreeKnown DEF Disk
  <2>4. ProcTyped'
    BY <1>4, <2>3 DEF RestoreInv, ProcTyped, PCs
  <2>5. Where'
    BY <1>2, <1>4 DEF Where, Recovers, Bare, Barred, Selected, Copying
  <2>6. Library' = Library /\ Whole' = Whole /\ Known' = Known
    BY <1>1 DEF Library, Whole, Outcomes, Known
  <2>7. Sheltered'
    BY <1>2, <1>4, <2>6 DEF Sheltered, Open
  <2>8. AtBarrier' /\ AtPin' /\ AtFile' /\ AtLibrary'
    BY <1>1, <1>2, <1>4, <2>2, <2>6
       DEF AtBarrier, AtPin, AtFile, AtLibrary, Bare, Barred, Copying
  <2>9. AtCopy'
    BY <1>1, <1>2, <1>4, <2>2, <2>3, <2>6 DEF AtCopy, Bare, Copying
  <2> QED BY <1>1, <2>1, <2>4, <2>5, <2>7, <2>8, <2>9 DEF RestoreInv, At
<1> QED BY <1>1, <1>3, <1>4 DEF PrepareFirst

\* The barrier of a new restore is written, seen but not safe, or not written.
LEMMA RecordMarkerKeeps ==
    ASSUME RestoreInv, NEW result \in Results, RecordMarker(result)
    PROVE  RestoreInv'
<1> DEFINE new == [source |-> sel, pin |-> lastPin, target |-> staged.db,
                   completed |-> None, digest |-> None]
<1>1. /\ pc = "pinned" /\ DataTyped /\ Disk /\ WriteData(new, config, result)
      /\ UNCHANGED <<db, snaps, lastPin, floor, past>>
  BY DEF RecordMarker, RestoreInv, observers
<1>2. /\ proc = "up" /\ phase = "ActiveNew" /\ marker = None /\ markerDisk = None /\ step = 0
      /\ sel \in Selectors /\ staged \in Known /\ <<floor.db, staged.db>> \in Supersets
      /\ lastPin \in Pins /\ snaps[lastPin] = floor /\ Library = floor
      /\ snaps[sel] \in {staged, Gone} \cup Swapped
  BY <1>1 DEF RestoreInv, ProcTyped, Where, Selected, Recovers, At, AtBarrier, AtPin, AtCopy, AtFile,
              AtLibrary
<1>3. Whole /\ config = configDisk /\ config = floor.config
  BY <1>1, <1>2 DEF RestoreInv, Sheltered, Open, Whole, Library
<1>4. staged \in Snapshots /\ staged.db \in Generations
  BY <1>1, <1>2, KnownTyped DEF Snapshots
<1>5. /\ new \in Markers /\ new # None /\ new.source = sel /\ new.pin = lastPin
      /\ new.target = staged.db /\ new.completed = None /\ new.digest = None
  BY <1>2, <1>4, SnapshotsAssumption DEF Markers, Selectors
<1> HIDE DEF new
<1>6. config' = config /\ configDisk' = config /\ Library' = Library /\ Whole' = Whole
      /\ Known' = Known
  BY <1>1, <1>3, Writes DEF Results, Library, Whole, Outcomes, Known
<1>7. CASE result = "failed"
  <2>1. DataTyped' /\ Disk' /\ marker' = None /\ markerDisk' = None
    BY <1>1, <1>2, <1>7, Writes, DiskSame
  <2> QED BY <1>1, <1>2, <1>6, <1>7, <2>1, NewEnds DEF RecordMarker, Strict
<1>8. CASE result # "failed"
  <2>1. marker' = new /\ markerDisk' \in {new, None} /\ (result = "ok" => markerDisk' = new)
    BY <1>1, <1>2, <1>8, Writes DEF Results
  <2>2. DataTyped'
    BY <1>1, <1>3, <1>5, <1>6, <2>1 DEF DataTyped
  <2>3. Untouched(staged)'
    BY <1>1, <1>3, <1>6 DEF Untouched
  <2>4. Disk'
    <3>1. SameRestore' /\ Tree'
      BY <1>1, <2>1 DEF SameRestore, Disk, Tree
    <3>2. Original'
      BY <1>1, <1>2, <1>5, <2>1 DEF Original
    <3>3. Preserved'
      BY <1>1, <1>3, <1>6 DEF Preserved, Untouched
    <3>4. Proved'
      BY <1>5, <2>1 DEF Proved
    <3> QED BY <3>1, <3>2, <3>3, <3>4 DEF Disk
  <2>5. CASE result = "unsynced"
    BY <1>1, <1>2, <1>3, <1>6, <2>2, <2>4, <2>5, ArmedEnds DEF RecordMarker, Strict
  <2>6. CASE result = "ok"
    <3>1. /\ phase' = "ActiveArmed" /\ pc' = "publish" /\ UNCHANGED <<proc, sel, staged, step>>
      BY <2>6 DEF RecordMarker, Strict
    <3>2. ProcTyped'
      BY <3>1 DEF RestoreInv, ProcTyped, PCs
    <3>3. Where'
      BY <1>2, <3>1 DEF Where, Recovers, Bare, Barred, Selected, Copying
    <3>4. AtBarrier' /\ AtPin' /\ AtFile' /\ AtLibrary'
      BY <1>2, <1>5, <2>1, <2>6, <3>1 DEF AtBarrier, AtPin, AtFile, AtLibrary, Bare, Barred, Copying
    <3>5. AtCopy'
      BY <1>1, <1>2, <1>5, <1>6, <2>1, <2>3, <3>1 DEF AtCopy, Bare, Copying
    <3> QED BY <1>1, <2>2, <2>4, <3>1, <3>2, <3>3, <3>4, <3>5, GoesOn DEF At, Barred, Copying
  <2> QED BY <1>8, <2>5, <2>6 DEF Results
<1> QED BY <1>7, <1>8

\* A barrier is bound to the target before anything is published.
LEMMA Binds ==
    ASSUME DataTyped, Disk, marker # None, markerDisk = marker, marker.completed = None,
           NEW t \in Generations, RecordedTarget(t), NEW result \in Results, BindTarget(t, result),
           UNCHANGED <<db, snaps, lastPin, floor, past>>
    PROVE  /\ DataTyped' /\ Disk' /\ config' = config /\ configDisk' \in {config, configDisk}
           /\ marker' # None /\ markerDisk' # None /\ marker'.source = marker.source
           /\ marker'.completed = None /\ marker'.digest = None /\ markerDisk'.digest = None
           /\ result = "ok" => marker'.target = t
<1> DEFINE new == [marker EXCEPT !.target = t]
<1>1. marker \in Markers /\ marker.digest = None
  BY MarkerTyped DEF DataTyped, Disk, Proved
<1>2. /\ new \in Markers /\ new.source = marker.source /\ new.pin = marker.pin
      /\ new.completed = None /\ new.digest = None /\ new.target = t
  BY <1>1 DEF Markers
<1>3. new # None
  BY <1>2, SnapshotsAssumption
<1>4. /\ marker' \in {marker, new} /\ markerDisk' \in {marker, new} /\ config' = config
      /\ configDisk' \in {config, configDisk} /\ (result = "ok" => marker'.target = t)
  <2>1. CASE marker.target = None
    <3>1. WriteData(new, config, result)
      BY <2>1 DEF BindTarget
    <3> HIDE DEF new
    <3> QED BY <1>2, <3>1, Writes DEF Results
  <2>2. CASE marker.target # None
    BY <2>2 DEF BindTarget, RecordedTarget, files
  <2> QED BY <2>1, <2>2
<1> HIDE DEF new
<1>5. /\ marker' # None /\ markerDisk' # None /\ marker'.source = marker.source
      /\ marker'.completed = None /\ marker'.digest = None /\ markerDisk'.digest = None
  BY <1>1, <1>2, <1>3, <1>4
<1>6. DataTyped'
  BY <1>1, <1>2, <1>4 DEF DataTyped
<1>7. Proved'
  BY <1>5 DEF Proved
<1>8. Disk'
  BY <1>2, <1>4, <1>7, DiskKept DEF Inherits
<1> QED BY <1>4, <1>5, <1>6, <1>8

\* The copy of a target that is tried again behind its barrier.
LEMMA CopyTaken ==
    ASSUME RestoreInv, DataTyped', Disk', marker # None, sel = marker.source,
           sel \in Selectors, snaps[sel] # Gone, Admissible(snaps[sel].db), step = 0,
           UNCHANGED <<db, snaps, lastPin, floor, past>>, marker' # None, markerDisk' # None,
           marker'.source = marker.source, marker'.target = snaps[sel].db,
           marker'.completed = None, marker'.digest = None, markerDisk'.digest = None,
           staged' = snaps[sel], pc' = "publish", UNCHANGED <<proc, phase, sel, step>>,
           phase = "ActiveArmed", proc \in {"starting", "up"}
    PROVE  RestoreInv'
<1>1. DataTyped /\ Disk
  BY DEF RestoreInv
<1>2. snaps[sel] \in Known /\ snaps[sel] \in Snapshots
  BY <1>1, TreeKnown DEF Disk
<1>3. snaps[marker.pin] = floor
  BY <1>1 DEF Disk, Original
<1>4. <<floor.db, staged'.db>> \in Supersets
  BY <1>3 DEF Admissible, FloorDatabase
<1>5. Untouched(staged)'
  <2>1. snaps'[marker'.source] = staged' /\ staged' # Gone
    OBVIOUS
  <2> QED BY <2>1 DEF Disk, Preserved, Untouched
<1>6. Known' = Known
  BY DEF Known
<1>7. ProcTyped'
  BY <1>2 DEF RestoreInv, ProcTyped, PCs
<1>8. Where'
  BY DEF Where, Recovers, Bare, Barred, Selected, Copying
<1>9. AtBarrier' /\ AtPin' /\ AtFile' /\ AtLibrary'
  BY DEF AtBarrier, AtPin, AtFile, AtLibrary, Bare, Barred, Copying
<1>10. AtCopy'
  BY <1>2, <1>4, <1>5, <1>6 DEF AtCopy, Bare, Copying
<1> QED BY <1>1, <1>7, <1>8, <1>9, <1>10, GoesOn DEF At, Barred, Copying

\* The retry of an interrupted restore.
LEMMA PrepareRetryKeeps ==
    ASSUME RestoreInv, NEW result \in Results, PrepareRetry(result)
    PROVE  RestoreInv'
<1>1. /\ pc = "reserved" /\ marker # None /\ marker.completed = None /\ DataTyped /\ Disk
      /\ UNCHANGED <<db, snaps, lastPin, floor, past>>
  BY DEF PrepareRetry, RestoreInv, observers
<1>2. /\ proc = "up" /\ markerDisk = marker /\ phase = "ActiveArmed" /\ sel \in Selectors
      /\ step = 0
  BY <1>1, ReservedFacts
<1>3. CASE Refuse(phase) /\ UNCHANGED files
  <2>1. DataTyped' /\ Disk'
    BY <1>1, <1>3, DiskSame DEF files
  <2> QED BY <1>1, <1>2, <1>3, <2>1, ArmedEnds DEF files
<1>4. CASE /\ marker.source = sel /\ snaps[sel] # Gone
           /\ Admissible(snaps[sel].db) /\ RecordedTarget(snaps[sel].db)
           /\ BindTarget(snaps[sel].db, result)
  <2>1. snaps[sel].db \in Generations
    BY <1>1, <1>2, <1>4, TreeKnown DEF Disk, Snapshots
  <2>2. /\ DataTyped' /\ Disk' /\ marker' # None /\ markerDisk' # None
        /\ marker'.source = marker.source /\ marker'.completed = None /\ marker'.digest = None
        /\ markerDisk'.digest = None /\ (result = "ok" => marker'.target = snaps[sel].db)
    BY <1>1, <1>2, <1>4, <2>1, Binds
  <2>3. CASE result = "ok"
    <3>1. staged' = snaps[sel] /\ pc' = "publish" /\ UNCHANGED <<proc, phase, sel, step>>
      BY <1>4, <2>3 DEF PrepareRetry
    <3> QED BY <1>1, <1>2, <1>4, <2>2, <2>3, <3>1, CopyTaken
  <2>4. CASE result # "ok"
    BY <1>1, <1>2, <1>4, <2>2, <2>4, ArmedEnds DEF PrepareRetry
  <2> QED BY <2>3, <2>4
<1> QED BY <1>1, <1>3, <1>4 DEF PrepareRetry

\* The recovery before startup retries the target.
LEMMA RetryTargetKeeps ==
    ASSUME RestoreInv, NEW result \in Results, RetryTarget(result)
    PROVE  RestoreInv'
<1>1. /\ pc = "target" /\ DataTyped /\ Disk
      /\ UNCHANGED <<db, snaps, lastPin, floor, past>>
  BY DEF RetryTarget, RestoreInv, observers
<1>2. /\ marker # None /\ markerDisk = marker /\ marker.completed = None /\ sel = marker.source
      /\ marker.digest = None /\ sel \in Selectors /\ step = 0 /\ phase = "ActiveArmed"
      /\ proc \in {"starting", "up"}
  BY <1>1 DEF RestoreInv, ProcTyped, Where, Selected, Recovers, Barred, At, AtBarrier, AtCopy, AtFile
<1>3. CASE Abort /\ UNCHANGED files
  <2>1. DataTyped' /\ Disk'
    BY <1>1, <1>3, DiskSame DEF files
  <2> QED BY <1>1, <1>2, <1>3, <2>1, Aborts DEF files, Barred
<1>4. CASE /\ snaps[sel] # Gone /\ Admissible(snaps[sel].db) /\ RecordedTarget(snaps[sel].db)
           /\ BindTarget(snaps[sel].db, result)
  <2>1. snaps[sel].db \in Generations
    BY <1>1, <1>2, <1>4, TreeKnown DEF Disk, Snapshots
  <2>2. /\ DataTyped' /\ Disk' /\ marker' # None /\ markerDisk' # None
        /\ marker'.source = marker.source /\ marker'.completed = None /\ marker'.digest = None
        /\ markerDisk'.digest = None /\ (result = "ok" => marker'.target = snaps[sel].db)
    BY <1>1, <1>2, <1>4, <2>1, Binds
  <2>3. CASE result = "ok"
    <3>1. staged' = snaps[sel] /\ pc' = "publish" /\ UNCHANGED <<proc, phase, sel, step>>
      BY <1>4, <2>3 DEF RetryTarget
    <3> QED BY <1>1, <1>2, <1>4, <2>2, <2>3, <3>1, CopyTaken
  <2>4. CASE result # "ok"
    BY <1>1, <1>2, <1>4, <2>2, <2>4, Aborts DEF RetryTarget, Barred
  <2> QED BY <2>3, <2>4
<1> QED BY <1>1, <1>3, <1>4 DEF RetryTarget

\* Where an attempt is that has its private copy.
LEMMA CopyingFacts ==
    ASSUME RestoreInv, pc \in Copying
    PROVE  /\ DataTyped /\ Disk /\ phase = "ActiveArmed" /\ proc \in {"starting", "up"}
           /\ marker # None /\ markerDisk # None /\ marker \in Markers
           /\ marker.completed = None /\ marker.digest = None /\ markerDisk.digest = None
           /\ sel \in Selectors /\ staged \in Known /\ staged \in Snapshots
           /\ <<floor.db, staged.db>> \in Supersets /\ Untouched(staged)
           /\ \/ staged = floor
              \/ /\ sel = marker.source /\ marker.target = staged.db
                 /\ snaps[sel] \in {staged, Gone} \cup Swapped
<1>1. DataTyped /\ Disk /\ phase = "ActiveArmed" /\ sel \in Selectors
  BY DEF RestoreInv, Where, Selected, Barred
<1>2. proc \in {"starting", "up"}
  BY DEF RestoreInv, ProcTyped, Where, Copying
<1>3. /\ marker # None /\ markerDisk # None
      /\ marker.completed = None /\ marker.digest = None /\ markerDisk.digest = None
  BY DEF RestoreInv, At, AtBarrier, Barred
<1>4. /\ staged \in Known /\ <<floor.db, staged.db>> \in Supersets /\ Untouched(staged)
      /\ \/ staged = floor
         \/ /\ sel = marker.source /\ marker.target = staged.db
            /\ snaps[sel] \in {staged, Gone} \cup Swapped
  BY DEF RestoreInv, At, AtCopy
<1> QED BY <1>1, <1>2, <1>3, <1>4, KnownTyped, MarkerTyped DEF DataTyped

\* The database is published: in full, without its sync, or not at all.
LEMMA PublishKeeps ==
    ASSUME RestoreInv, NEW result \in Results, Publish(result)
    PROVE  RestoreInv'
<1>1. /\ pc = "publish" /\ WriteData(marker, config, result)
      /\ db' = IF result = "failed" THEN db ELSE staged.db
      /\ UNCHANGED <<snaps, lastPin, floor, past>>
  BY DEF Publish, CommitStaged, observers
<1>2. /\ DataTyped /\ Disk /\ phase = "ActiveArmed" /\ proc \in {"starting", "up"}
      /\ marker # None /\ markerDisk # None /\ marker \in Markers
      /\ marker.completed = None /\ marker.digest = None /\ markerDisk.digest = None
      /\ sel \in Selectors /\ staged \in Known /\ staged \in Snapshots /\ step = 0
      /\ <<floor.db, staged.db>> \in Supersets /\ Untouched(staged)
      /\ \/ staged = floor
         \/ /\ sel = marker.source /\ marker.target = staged.db
            /\ snaps[sel] \in {staged, Gone} \cup Swapped
  BY <1>1, CopyingFacts DEF Copying, RestoreInv, At, AtFile
<1>3. /\ marker' = marker /\ markerDisk' \in {marker, markerDisk} /\ config' = config
      /\ configDisk' \in {config, configDisk} /\ (result = "ok" => configDisk' = config)
  BY <1>1, Writes DEF Results
<1>4. db' \in Generations
  BY <1>1, <1>2 DEF DataTyped, Snapshots
<1>5. DataTyped'
  BY <1>1, <1>2, <1>3, <1>4 DEF DataTyped
<1>6. Proved'
  BY <1>2, <1>3 DEF Proved
<1>7. Disk'
  BY <1>1, <1>2, <1>3, <1>6, DiskKept DEF Inherits
<1>8. CASE Abort
  BY <1>1, <1>2, <1>3, <1>5, <1>7, <1>8, Aborts DEF Barred, Copying
<1>9. CASE result = "ok" /\ Goto(IF proc = "up" THEN "history" ELSE "install")
  <2>1. /\ pc' = (IF proc = "up" THEN "history" ELSE "install")
        /\ UNCHANGED <<proc, phase, sel, staged, step>>
    BY <1>9 DEF Goto
  <2>2. ProcTyped'
    BY <2>1 DEF RestoreInv, ProcTyped, PCs
  <2>3. Where'
    BY <1>2, <2>1 DEF Where, Recovers, Bare, Barred, Selected, Copying
  <2>4. AtBarrier' /\ AtPin' /\ AtLibrary'
    BY <1>2, <1>3, <2>1 DEF AtBarrier, AtPin, AtLibrary, Bare, Barred, Copying
  <2>5. AtFile'
    BY <1>1, <1>2, <1>3, <1>9, <2>1 DEF AtFile, Bare
  <2>6. Untouched(staged)' /\ Known' = Known
    BY <1>1, <1>2, <1>3, <1>9, <2>1 DEF Untouched, Known
  <2>7. AtCopy'
    BY <1>1, <1>2, <1>3, <2>1, <2>6 DEF AtCopy, Bare, Copying
  <2>8. pc' \in Barred
    BY <2>1 DEF Barred, Copying
  <2> QED BY <1>2, <1>5, <1>7, <2>2, <2>3, <2>4, <2>5, <2>7, <2>8, GoesOn DEF At
<1> QED BY <1>8, <1>9 DEF Publish, Strict

\* The undo history is cleared, or the command is cancelled.
LEMMA ClearHistoryKeeps ==
    ASSUME RestoreInv, NEW cancelled, ClearHistory(cancelled)
    PROVE  RestoreInv'
<1>1. /\ pc = "history"
      /\ UNCHANGED <<db, config, configDisk, marker, markerDisk, snaps, lastPin, floor, past>>
  BY DEF ClearHistory, files, observers
<1>2. /\ DataTyped /\ Disk /\ phase = "ActiveArmed" /\ proc \in {"starting", "up"}
      /\ marker # None /\ markerDisk # None
      /\ sel \in Selectors /\ step = 0 /\ config = configDisk /\ db = staged.db
  BY <1>1, CopyingFacts DEF Copying, RestoreInv, At, AtFile
<1>3. DataTyped' /\ Disk' /\ Whole' = Whole
  BY <1>1, <1>2, DiskSame
<1>4. CASE Abort
  BY <1>1, <1>2, <1>3, <1>4, Aborts DEF Barred, Copying
<1>5. CASE Goto("install")
  <2>1. pc' = "install" /\ UNCHANGED <<proc, phase, sel, staged, step>>
    BY <1>5 DEF Goto
  <2>2. ProcTyped'
    BY <2>1 DEF RestoreInv, ProcTyped, PCs
  <2>3. Where'
    BY <1>2, <2>1 DEF Where, Recovers, Bare, Barred, Selected, Copying
  <2>4. AtBarrier' /\ AtPin' /\ AtLibrary' /\ AtFile'
    BY <1>1, <1>2, <2>1
       DEF RestoreInv, At, AtBarrier, AtPin, AtLibrary, AtFile, Bare, Barred, Copying
  <2>5. Untouched(staged)' = Untouched(staged) /\ Known' = Known
    BY <1>1, <2>1 DEF Untouched, Known
  <2>6. AtCopy'
    BY <1>1, <2>1, <2>5 DEF RestoreInv, At, AtCopy, Bare, Copying
  <2> QED BY <1>2, <1>3, <2>1, <2>2, <2>3, <2>4, <2>6, GoesOn DEF At, Barred, Copying
<1> QED BY <1>4, <1>5 DEF ClearHistory

\* A file of the copy is installed, left alone, or its write fails.
LEMMA InstallFileKeeps ==
    ASSUME RestoreInv, NEW result \in Results, InstallFile(result)
    PROVE  RestoreInv'
<1> DEFINE f == Files[step + 1]
           new == [config EXCEPT ![f] = Planned(f)]
<1>1. /\ pc = "install" /\ step < Len(Files) /\ UNCHANGED <<db, snaps, lastPin, floor, past>>
  BY DEF InstallFile, observers
<1>2. /\ DataTyped /\ Disk /\ phase = "ActiveArmed" /\ proc \in {"starting", "up"}
      /\ marker # None /\ markerDisk # None /\ marker \in Markers
      /\ marker.completed = None /\ marker.digest = None /\ markerDisk.digest = None
      /\ sel \in Selectors /\ staged \in Known /\ staged \in Snapshots
      /\ <<floor.db, staged.db>> \in Supersets /\ Untouched(staged)
      /\ \/ staged = floor
         \/ /\ sel = marker.source /\ marker.target = staged.db
            /\ snaps[sel] \in {staged, Gone} \cup Swapped
  BY <1>1, CopyingFacts DEF Copying
<1>3. /\ config = configDisk /\ db = staged.db /\ step \in Nat
      /\ \A i \in 1 .. step : config[Files[i]] = Apply(staged, floor).config[Files[i]]
  BY <1>1 DEF RestoreInv, ProcTyped, At, AtFile
<1>4. /\ f \in FileNames /\ config \in FileSets
      /\ staged.config \in [FileNames -> Generations \cup {Preserve}]
      /\ floor.config \in FileSets
  BY <1>1, <1>2, <1>3, FilesAssumption, LenProperties, ElementOfSeq, LibraryTyped
     DEF DataTyped, Snapshots, Contents, FileSets
<1>5. Planned(f) = Apply(staged, floor).config[f] /\ Planned(f) \in Generations
  BY <1>2, <1>3, <1>4 DEF Planned, Apply, Untouched, FileSets
<1>6. /\ new \in FileSets /\ new[f] = Apply(staged, floor).config[f]
      /\ \A g \in FileNames : g # f => new[g] = config[g]
  BY <1>4, <1>5 DEF FileSets
<1>7. staged.config[f] = Preserve => new = config
  BY <1>4 DEF Planned, FileSets
<1> HIDE DEF f, new
<1>8. /\ marker' = marker /\ markerDisk' \in {marker, markerDisk}
      /\ config' \in {config, new} /\ configDisk' \in {config, new}
      /\ result = "ok" => config' = new /\ configDisk' = new
  <2>1. CASE UNCHANGED files /\ staged.config[f] = Preserve
    BY <1>3, <1>7, <2>1 DEF files
  <2>2. CASE WriteData(marker, new, result)
    BY <1>3, <2>2, Writes DEF Results
  <2> QED BY <2>1, <2>2 DEF InstallFile, f, new
<1>9. DataTyped'
  BY <1>1, <1>2, <1>4, <1>6, <1>8 DEF DataTyped
\* A file that a snapshot of this restore does not bind stays as it was.
<1>10. ASSUME NEW c, staged = floor \/ c.config[f] # Preserve \/ new = config
       PROVE  Untouched(c) => Untouched(c)'
  <2> SUFFICES ASSUME Untouched(c), NEW g \in FileNames, c.config[g] = Preserve
               PROVE  config'[g] = floor.config[g] /\ configDisk'[g] = floor.config[g]
    BY <1>1 DEF Untouched
  <2>1. config[g] = floor.config[g]
    BY DEF Untouched
  <2>2. new[g] = floor.config[g]
    <3>1. CASE staged = floor
      <4>1. Apply(floor, floor).config[f] = floor.config[f]
        BY <1>4 DEF Apply
      <4> QED BY <1>6, <2>1, <3>1, <4>1
    <3>2. CASE staged # floor
      BY <1>6, <1>10, <2>1, <3>2
    <3> QED BY <3>1, <3>2
  <2> QED BY <1>8, <2>1, <2>2
<1>11. Disk'
  <2>1. SameRestore' /\ Tree' /\ Original'
    BY <1>1, <1>2, <1>8 DEF Disk, SameRestore, Tree, Original
  <2>2. Proved'
    BY <1>2, <1>8 DEF Proved
  <2>3. Preserved'
    <3> SUFFICES ASSUME NEW s, s = marker.source PROVE Preserved'
      OBVIOUS
    <3>1. marker'.source = s /\ markerDisk'.source = s
      BY <1>2, <1>8 DEF Disk, SameRestore
    <3>2. snaps[s] # Gone => Untouched(snaps[s])
      BY <1>2 DEF Disk, Preserved
    <3>3. ASSUME snaps[s] # Gone PROVE Untouched(snaps[s])'
      <4>1. staged = floor \/ snaps[s] = staged \/ snaps[s] \in Swapped
        BY <1>2, <3>3
      <4>2. snaps[s] \in Swapped => snaps[s].config[f] # Preserve
        BY <1>4, SnapshotsAssumption, GenerationsAssumption DEF Contents
      <4>3. staged = floor \/ snaps[s].config[f] # Preserve \/ new = config
        BY <1>7, <4>1, <4>2
      <4>4. \A c : c = snaps[s] => Untouched(c)'
        BY <1>10, <3>2, <3>3, <4>3
      <4> QED BY <1>1, <4>4 DEF Untouched
    <3> QED BY <1>1, <3>1, <3>3 DEF Preserved, Untouched
  <2> QED BY <2>1, <2>2, <2>3 DEF Disk
<1>12. CASE Abort
  BY <1>1, <1>2, <1>8, <1>9, <1>11, <1>12, Aborts DEF Barred, Copying
<1>13. CASE /\ result = "ok" /\ step' = step + 1
            /\ pc' = (IF step + 1 = Len(Files) THEN "mark" ELSE "install")
            /\ UNCHANGED <<proc, phase, sel, staged>>
  <2>1. ProcTyped'
    BY <1>3, <1>13 DEF RestoreInv, ProcTyped, PCs
  <2>2. Where'
    BY <1>2, <1>13 DEF Where, Recovers, Bare, Barred, Selected, Copying
  <2>3. AtBarrier' /\ AtPin' /\ AtLibrary'
    BY <1>2, <1>8, <1>13 DEF AtBarrier, AtPin, AtLibrary, Bare, Barred, Copying
  <2>4. AtFile'
    <3>1. Apply(staged, floor)' = Apply(staged, floor)
      BY <1>1, <1>13 DEF Apply
    <3>2. \A i \in 1 .. step + 1 : Files[i] \in FileNames
      BY <1>1, <1>3, FilesAssumption, LenProperties, ElementOfSeq
    <3>3. \A i \in 1 .. step + 1 : new[Files[i]] = Apply(staged, floor).config[Files[i]]
      BY <1>3, <1>6, <3>2 DEF f
    <3> QED BY <1>1, <1>3, <1>8, <1>13, <3>1, <3>3 DEF AtFile, Bare
  <2>5. Untouched(staged)' /\ Known' = Known
    <3>1. \A c : c = staged => Untouched(c)'
      BY <1>2, <1>7, <1>10
    <3> QED BY <1>1, <1>13, <3>1 DEF Untouched, Known
  <2>6. AtCopy'
    BY <1>1, <1>2, <1>8, <1>13, <2>5 DEF AtCopy, Bare, Copying
  <2>7. pc' \in Barred
    BY <1>13 DEF Barred, Copying
  <2> QED BY <1>2, <1>9, <1>11, <2>1, <2>2, <2>3, <2>4, <2>6, <2>7, GoesOn DEF At
<1> QED BY <1>12, <1>13 DEF InstallFile, Strict

\* When every file of the copy is installed, the library is what the copy makes of
\* the original.
LEMMA Installed ==
    ASSUME RestoreInv, pc = "mark"
    PROVE  Library = Apply(staged, floor) /\ Whole
<1>1. /\ DataTyped /\ staged \in Known /\ <<floor.db, staged.db>> \in Supersets
  BY CopyingFacts DEF Copying
<1>2. /\ config = configDisk /\ db = staged.db
      /\ \A i \in 1 .. Len(Files) : config[Files[i]] = Apply(staged, floor).config[Files[i]]
  BY DEF RestoreInv, At, AtFile
<1>3. FileNames = {Files[i] : i \in 1 .. Len(Files)}
  BY FilesAssumption, LenProperties DEF FileNames
<1>4. config = Apply(staged, floor).config
  <2>1. \A g \in FileNames : config[g] = Apply(staged, floor).config[g]
    BY <1>2, <1>3
  <2>2. Apply(staged, floor).config = [g \in FileNames |-> Apply(staged, floor).config[g]]
    BY DEF Apply
  <2>3. config = [g \in FileNames |-> config[g]]
    BY <1>1 DEF DataTyped, FileSets
  <2> QED BY <2>1, <2>2, <2>3
<1>5. Library = Apply(staged, floor)
  BY <1>2, <1>4 DEF Library, Apply
<1> QED BY <1>1, <1>2, <1>5, OutcomesOf DEF Whole

\* The completion is recorded.
LEMMA MarkCompletedKeeps ==
    ASSUME RestoreInv, NEW result \in Results, MarkCompleted(result)
    PROVE  RestoreInv'
<1> DEFINE new == [marker EXCEPT !.target = IF @ = None THEN staged.db ELSE @,
                                 !.completed = sel, !.digest = staged.db]
<1>1. /\ pc = "mark" /\ WriteData(new, config, result)
      /\ UNCHANGED <<db, snaps, lastPin, floor, past>>
  BY DEF MarkCompleted, observers
<1>2. /\ DataTyped /\ Disk /\ phase = "ActiveArmed" /\ proc \in {"starting", "up"}
      /\ marker # None /\ markerDisk # None /\ marker \in Markers
      /\ marker.digest = None /\ markerDisk.digest = None /\ sel \in Selectors
      /\ staged \in Snapshots /\ config = configDisk /\ db = staged.db
  BY <1>1, CopyingFacts DEF Copying, RestoreInv, At, AtFile
<1>3. Whole
  BY <1>1, Installed
<1>4. staged.db \in Generations
  BY <1>2 DEF Snapshots
<1>5. /\ new \in Markers /\ new.source = marker.source /\ new.pin = marker.pin
      /\ new.completed = sel /\ new.digest = db
  BY <1>2, <1>4 DEF Markers
<1>6. new # None /\ new.completed # None
  BY <1>2, <1>5, SnapshotsAssumption
<1> HIDE DEF new
<1>7. /\ marker' \in {marker, new} /\ markerDisk' \in {markerDisk, new}
      /\ config' = config /\ configDisk' = config
      /\ result = "ok" => marker' = new /\ markerDisk' = new
  BY <1>1, <1>2, Writes DEF Results
<1>8. Library' = Library /\ Whole' = Whole
  BY <1>1, <1>2, <1>7 DEF Library, Whole, Outcomes
<1>9. DataTyped'
  BY <1>1, <1>2, <1>5, <1>7 DEF DataTyped
<1>10. Proved'
  BY <1>1, <1>2, <1>3, <1>5, <1>6, <1>7, <1>8 DEF Proved
<1>11. Disk'
  BY <1>1, <1>2, <1>5, <1>7, <1>10, DiskKept DEF Inherits
<1>12. CASE Abort
  BY <1>1, <1>2, <1>3, <1>8, <1>9, <1>11, <1>12, Aborts DEF Barred, Copying
<1>13. CASE result = "ok" /\ Goto("clear")
  <2>1. pc' = "clear" /\ UNCHANGED <<proc, phase, sel, staged, step>>
    BY <1>13 DEF Goto
  <2>2. ProcTyped'
    BY <2>1 DEF RestoreInv, ProcTyped, PCs
  <2>3. Where'
    BY <1>2, <2>1 DEF Where, Recovers, Bare, Barred, Selected, Copying
  <2>4. At'
    BY <1>3, <1>6, <1>7, <1>8, <1>13, <2>1
       DEF At, AtBarrier, AtPin, AtCopy, AtFile, AtLibrary, Bare, Barred, Copying
  <2> QED BY <1>2, <1>9, <1>11, <2>1, <2>2, <2>3, <2>4, GoesOn DEF Barred
<1> QED BY <1>12, <1>13 DEF MarkCompleted, Strict

\* The barrier is removed.
LEMMA ClearMarkerKeeps ==
    ASSUME RestoreInv, NEW result \in Results, ClearMarker(result)
    PROVE  RestoreInv'
<1>1. /\ pc = "clear" /\ WriteData(None, config, result)
      /\ UNCHANGED <<db, snaps, lastPin, floor, past>>
  BY DEF ClearMarker, observers
<1>2. /\ DataTyped /\ Disk /\ phase = "ActiveArmed" /\ proc \in {"starting", "up"}
      /\ marker # None /\ markerDisk # None /\ Whole /\ config = configDisk
  BY <1>1 DEF RestoreInv, ProcTyped, Where, Barred, At, AtBarrier, AtLibrary, Whole
<1>3. /\ marker' \in {marker, None} /\ markerDisk' \in {markerDisk, None}
      /\ config' = config /\ configDisk' = config
      /\ result = "ok" => marker' = None /\ markerDisk' = None
  BY <1>1, <1>2, Writes DEF Results
<1>4. Library' = Library /\ Whole' = Whole
  BY <1>1, <1>2, <1>3 DEF Library, Whole, Outcomes
<1>5. DataTyped'
  BY <1>1, <1>2, <1>3 DEF DataTyped
<1>6. Proved'
  BY <1>1, <1>2, <1>3, <1>4 DEF Disk, Proved
<1>7. Disk'
  BY <1>1, <1>2, <1>3, <1>6, DiskKept DEF Inherits
<1>8. CASE Abort
  BY <1>1, <1>2, <1>4, <1>5, <1>7, <1>8, Aborts DEF Barred
<1>9. CASE result = "ok" /\ Goto("commit")
  <2>1. pc' = "commit" /\ UNCHANGED <<proc, phase, sel, staged, step>>
    BY <1>9 DEF Goto
  <2>2. ProcTyped'
    BY <2>1 DEF RestoreInv, ProcTyped, PCs
  <2>3. Where'
    BY <1>2, <2>1 DEF Where, Recovers, Bare, Barred, Selected, Copying
  <2>4. At'
    BY <1>3, <1>9, <2>1 DEF At, AtBarrier, AtPin, AtCopy, AtFile, AtLibrary, Bare, Barred, Copying
  <2>5. Sheltered'
    BY <1>2, <1>4, <2>1 DEF Sheltered, Open
  <2> QED BY <1>2, <1>5, <1>7, <2>2, <2>3, <2>4, <2>5 DEF RestoreInv
<1> QED BY <1>8, <1>9 DEF ClearMarker, Strict

\* The restore is over and the library opens.
LEMMA CommitKeeps ==
    ASSUME RestoreInv, Commit
    PROVE  RestoreInv'
<1>1. /\ pc = "commit" /\ proc' = "up" /\ phase' = "Idle" /\ pc' = "none" /\ step' = 0
      /\ sel' = None /\ staged' = None
      /\ UNCHANGED <<db, config, configDisk, marker, markerDisk, snaps, lastPin, floor, past>>
  BY DEF Commit, Forget, files, observers
<1>2. /\ DataTyped /\ Disk /\ marker = None /\ markerDisk = None
      /\ phase = "ActiveArmed"
  BY <1>1 DEF RestoreInv, Where, At, AtBarrier
<1>3. Whole
  BY <1>2 DEF RestoreInv, Sheltered, Open
<1>4. DataTyped' /\ Disk'
  BY <1>1, <1>2, DiskSame
<1>5. Sheltered'
  BY <1>1, <1>2, <1>3 DEF Sheltered, Open, Whole
<1> QED BY <1>1, <1>2, <1>4, <1>5, Ends

\* The pin of a bare restore.
LEMMA BarePinKeeps ==
    ASSUME RestoreInv, NEW result, BarePin(result)
    PROVE  RestoreInv'
<1>1. /\ pc = "barePin" /\ UNCHANGED <<db, config, configDisk, marker, markerDisk, floor, past>>
  BY DEF BarePin, files, observers
<1>2. /\ DataTyped /\ Disk /\ marker = None /\ markerDisk = None /\ proc = "up"
      /\ phase = "ActiveNew" /\ lastPin < MaxPins /\ Library = floor /\ step = 0
      /\ staged \in BareDatabases /\ <<floor.db, staged.db>> \in Supersets
  BY <1>1 DEF RestoreInv, ProcTyped, Where, Bare, Recovers, At, AtBarrier, AtPin, AtFile, AtCopy,
              AtLibrary
<1>3. Whole
  BY <1>2 DEF RestoreInv, Sheltered, Open
<1>4. CASE Refuse(phase) /\ UNCHANGED <<snaps, lastPin>>
  <2>1. DataTyped' /\ Disk'
    BY <1>1, <1>2, <1>4, DiskSame
  <2> QED BY <1>1, <1>2, <1>3, <1>4, <2>1, NewEnds DEF Whole
<1>5. CASE TakePin /\ Goto("barePublish")
  <2>1. DataTyped' /\ Disk'
    BY <1>1, <1>2, <1>5, PinDisk
  <2>2. pc' = "barePublish" /\ UNCHANGED <<proc, phase, sel, staged, step>>
    BY <1>5 DEF Goto
  <2>3. ProcTyped'
    BY <2>2 DEF RestoreInv, ProcTyped, PCs
  <2>4. Where'
    BY <1>2, <2>2 DEF Where, Recovers, Bare, Barred, Selected, Copying
  <2>5. Library' = Library /\ Whole' = Whole
    BY <1>1 DEF Library, Whole, Outcomes
  <2>6. Sheltered'
    BY <1>2, <1>3, <2>2, <2>5 DEF Sheltered, Open
  <2>7. At'
    BY <1>1, <1>2, <2>2, <2>5
       DEF At, AtBarrier, AtPin, AtCopy, AtFile, AtLibrary, Bare, Barred, Copying
  <2> QED BY <1>2, <2>1, <2>3, <2>4, <2>6, <2>7 DEF RestoreInv
<1> QED BY <1>4, <1>5 DEF BarePin

\* The library that a bare database makes.
LEMMA BareLibrary ==
    ASSUME DataTyped, Library = floor, NEW c \in BareDatabases, NEW d, d = c.db
    PROVE  [db |-> d, config |-> config] = Apply(c, floor) /\ d \in Generations
<1>1. \A f \in FileNames : c.config[f] = Preserve
  BY DEF BareDatabases
<1>2. config = floor.config /\ config = [f \in FileNames |-> config[f]]
  BY DEF Library, DataTyped, FileSets
<1>3. Apply(c, floor).config = config
  BY <1>1, <1>2 DEF Apply
<1> QED BY <1>3 DEF Apply, BareDatabases

\* The bare database is published.
LEMMA BarePublishKeeps ==
    ASSUME RestoreInv, NEW result \in Results, BarePublish(result)
    PROVE  RestoreInv'
<1>1. /\ pc = "barePublish" /\ WriteData(marker, config, result)
      /\ db' = IF result = "failed" THEN db ELSE staged.db
      /\ UNCHANGED <<snaps, lastPin, floor, past>>
  BY DEF BarePublish, CommitStaged, observers
<1>2. /\ DataTyped /\ Disk /\ marker = None /\ markerDisk = None /\ proc = "up"
      /\ phase = "ActiveNew" /\ Library = floor /\ step = 0
      /\ staged \in BareDatabases /\ <<floor.db, staged.db>> \in Supersets
  BY <1>1 DEF RestoreInv, ProcTyped, Where, Bare, Recovers, At, AtBarrier, AtFile, AtCopy, AtLibrary
<1>3. Whole /\ config = configDisk
  BY <1>2 DEF RestoreInv, Sheltered, Open, Whole
<1>4. marker' = None /\ markerDisk' = None /\ config' = config /\ configDisk' = config
  BY <1>1, <1>2, <1>3, Writes DEF Results
<1>5. [db |-> staged.db, config |-> config] = Apply(staged, floor) /\ staged.db \in Generations
  BY <1>2, BareLibrary
<1>6. DataTyped'
  BY <1>1, <1>2, <1>4, <1>5 DEF DataTyped
<1>7. Disk'
  <2>1. Proved'
    BY <1>4 DEF Proved
  <2> QED BY <1>1, <1>2, <1>3, <1>4, <2>1, DiskKept DEF Inherits
<1>8. CASE Refuse(phase)
  BY <1>2, <1>4, <1>6, <1>7, <1>8, NewEnds
<1>9. CASE result = "ok" /\ Goto("bareHistory")
  <2>1. pc' = "bareHistory" /\ UNCHANGED <<proc, phase, sel, staged, step>>
    BY <1>9 DEF Goto
  <2>2. Library' = Apply(staged, floor)
    BY <1>1, <1>4, <1>5, <1>9 DEF Library
  <2>3. Whole'
    BY <1>1, <1>2, <1>4, <2>2, OutcomesOf DEF Whole, Outcomes
  <2>4. ProcTyped'
    BY <2>1 DEF RestoreInv, ProcTyped, PCs
  <2>5. Where'
    BY <1>2, <2>1 DEF Where, Recovers, Bare, Barred, Selected, Copying
  <2>6. Sheltered'
    BY <1>2, <2>1, <2>3 DEF Sheltered, Open
  <2>7. At'
    <3>1. Apply(staged, floor)' = Apply(staged, floor)
      BY <1>1, <2>1 DEF Apply
    <3> QED BY <1>1, <1>2, <1>4, <2>1, <2>2, <3>1
       DEF At, AtBarrier, AtPin, AtCopy, AtFile, AtLibrary, Bare, Barred, Copying
  <2> QED BY <1>2, <1>6, <1>7, <2>4, <2>5, <2>6, <2>7 DEF RestoreInv
<1> QED BY <1>8, <1>9 DEF BarePublish, Strict

\* The bare restore is over.
LEMMA BareHistoryKeeps ==
    ASSUME RestoreInv, BareHistory
    PROVE  RestoreInv'
<1>1. /\ pc = "bareHistory" /\ Refuse(phase)
      /\ UNCHANGED <<db, config, configDisk, marker, markerDisk, snaps, lastPin, floor, past>>
  BY DEF BareHistory, files, observers
<1>2. /\ DataTyped /\ Disk /\ marker = None /\ markerDisk = None /\ proc = "up"
      /\ phase = "ActiveNew"
  BY <1>1 DEF RestoreInv, ProcTyped, Where, Bare, Recovers, At, AtBarrier
<1>3. config = configDisk
  BY <1>2 DEF RestoreInv, Sheltered, Open, Whole
<1>4. DataTyped' /\ Disk'
  BY <1>1, <1>2, DiskSame
<1> QED BY <1>1, <1>2, <1>3, <1>4, NewEnds

\* The process starts: normally, or in the recovery of an interrupted restore.
LEMMA StartKeeps ==
    ASSUME RestoreInv, Start
    PROVE  RestoreInv'
<1>1. /\ proc = "down" /\ DataTyped /\ Disk /\ pc = "none" /\ phase = "Idle" /\ step = 0
      /\ config' = config /\ configDisk' = config /\ marker' = marker /\ markerDisk' = marker
      /\ UNCHANGED <<sel, staged, step, db, snaps, lastPin, floor, past>>
  BY DEF Start, TakeAsFound, observers, RestoreInv, Where, At, AtFile
<1>2. DataTyped'
  BY <1>1 DEF DataTyped
<1>3. Library' = Library /\ (Whole => Whole')
  BY <1>1 DEF Library, Whole, Outcomes
<1>4. Disk'
  <2>1. Proved'
    BY <1>1, <1>3 DEF Disk, Proved
  <2> QED BY <1>1, <2>1, DiskKept DEF Inherits
<1>5. CASE marker = None
  <2>1. proc' = "up" /\ phase' = "Idle" /\ pc' = "none"
    BY <1>1, <1>5 DEF Start
  <2>2. ProcTyped'
    BY <1>1, <2>1 DEF RestoreInv, ProcTyped
  <2>3. Where'
    BY <2>1 DEF Where, Recovers, Bare, Barred, Selected, Copying
  <2>4. Sheltered'
    BY <1>1, <1>5, <2>1 DEF Sheltered, Open
  <2>5. At'
    BY <1>1, <2>1 DEF At, AtBarrier, AtPin, AtCopy, AtFile, AtLibrary, Bare, Barred, Copying
  <2> QED BY <1>1, <1>2, <1>4, <2>2, <2>3, <2>4, <2>5 DEF RestoreInv
<1>6. CASE marker # None
  <2>1. proc' = "starting" /\ phase' = "ActiveArmed" /\ pc' = "recover"
    BY <1>6 DEF Start
  <2>2. ProcTyped'
    BY <1>1, <2>1 DEF RestoreInv, ProcTyped, PCs
  <2>3. Where'
    BY <2>1 DEF Where, Recovers, Bare, Barred, Selected, Copying
  <2>4. At'
    BY <1>1, <1>6, <2>1 DEF At, AtBarrier, AtPin, AtCopy, AtFile, AtLibrary, Bare, Barred, Copying
  <2> QED BY <1>1, <1>2, <1>4, <2>1, <2>2, <2>3, <2>4, GoesOn DEF Barred
<1> QED BY <1>5, <1>6

\* The recovery finds a true completion, or goes back to the target.
LEMMA RecoverKeeps ==
    ASSUME RestoreInv, NEW result \in Results, Recover(result)
    PROVE  RestoreInv'
<1> DEFINE new == [marker EXCEPT !.completed = None, !.digest = None]
<1>1. pc = "recover" /\ UNCHANGED <<db, snaps, lastPin, floor, past>>
  BY DEF Recover, observers
<1>2. /\ DataTyped /\ Disk /\ marker # None /\ markerDisk = marker /\ step = 0
      /\ phase = "ActiveArmed" /\ proc = "starting"
  BY <1>1 DEF RestoreInv, ProcTyped, Where, Recovers, Barred, At, AtBarrier, AtFile
<1>3. marker \in Markers
  BY <1>2, MarkerTyped DEF DataTyped
<1>4. CASE marker.completed # None /\ MatchesLive
  <2>1. UNCHANGED <<config, configDisk, marker, markerDisk>>
    BY <1>4 DEF Recover, files
  <2>2. DataTyped' /\ Disk' /\ Whole' = Whole
    BY <1>1, <1>2, <2>1, DiskSame
  <2>3. Whole
    BY <1>2, <1>4, GenerationsAssumption DEF MatchesLive, Disk, Proved, DataTyped
  <2>4. CASE Abort
    BY <1>1, <1>2, <2>2, <2>3, <2>4, Aborts DEF Barred
  <2>5. CASE Goto("clear")
    <3>1. pc' = "clear" /\ UNCHANGED <<proc, phase, sel, staged, step>>
      BY <2>5 DEF Goto
    <3>2. ProcTyped'
      BY <3>1 DEF RestoreInv, ProcTyped, PCs
    <3>3. Where'
      BY <1>2, <3>1 DEF Where, Recovers, Bare, Barred, Selected, Copying
    <3>4. At'
      BY <1>2, <2>1, <2>2, <2>3, <3>1
         DEF At, AtBarrier, AtPin, AtCopy, AtFile, AtLibrary, Bare, Barred, Copying
    <3> QED BY <1>2, <2>2, <3>1, <3>2, <3>3, <3>4, GoesOn DEF Barred
  <2> QED BY <1>4, <2>4, <2>5 DEF Recover
<1>5. CASE ~(marker.completed # None /\ MatchesLive)
  <2>1. marker.digest = None
    BY <1>2, <1>5 DEF Disk, Proved, MatchesLive
  <2>2. /\ new \in Markers /\ new.source = marker.source /\ new.pin = marker.pin
        /\ new.completed = None /\ new.digest = None
    BY <1>3 DEF Markers
  <2>3. new # None
    BY <2>2, SnapshotsAssumption
  <2>4. /\ marker' \in {marker, new} /\ markerDisk' \in {marker, new} /\ config' = config
        /\ configDisk' \in {config, configDisk}
        /\ result = "ok" => marker' = markerDisk' /\ marker'.completed = None
    <3>1. CASE marker.completed # None
      <4>1. WriteData(new, config, result)
        BY <1>5, <3>1 DEF Recover
      <4> HIDE DEF new
      <4> QED BY <1>2, <2>2, <4>1, Writes DEF Results
    <3>2. CASE marker.completed = None
      BY <1>2, <1>5, <3>2 DEF Recover, files
    <3> QED BY <3>1, <3>2
  <2> HIDE DEF new
  <2>5. /\ marker' # None /\ markerDisk' # None /\ marker'.digest = None /\ markerDisk'.digest = None
        /\ marker'.source = marker.source
    BY <1>2, <2>1, <2>2, <2>3, <2>4
  <2>6. DataTyped'
    BY <1>1, <1>2, <1>3, <2>2, <2>4 DEF DataTyped
  <2>7. Disk'
    <3>1. Proved'
      BY <2>5 DEF Proved
    <3> QED BY <1>1, <1>2, <2>2, <2>4, <3>1, DiskKept DEF Inherits
  <2>8. CASE Abort
    BY <1>1, <1>2, <2>5, <2>6, <2>7, <2>8, Aborts DEF Barred
  <2>9. CASE /\ result = "ok" /\ pc' = "target" /\ sel' = marker.source
             /\ UNCHANGED <<proc, phase, staged, step>>
    <3>1. marker.source \in Selectors
      BY <1>3 DEF Markers
    <3>2. ProcTyped'
      BY <2>9, <3>1 DEF RestoreInv, ProcTyped, PCs
    <3>3. Where'
      BY <1>2, <2>9, <3>1 DEF Where, Recovers, Bare, Barred, Selected, Copying
    <3>4. At'
      BY <1>2, <2>4, <2>5, <2>9
         DEF At, AtBarrier, AtPin, AtCopy, AtFile, AtLibrary, Bare, Barred, Copying
    <3> QED BY <1>2, <2>6, <2>7, <2>9, <3>2, <3>3, <3>4, GoesOn DEF Barred
  <2> QED BY <1>5, <2>8, <2>9 DEF Recover
<1> QED BY <1>4, <1>5

\* The recovery takes the original pin.
LEMMA RollBackKeeps ==
    ASSUME RestoreInv, RollBack
    PROVE  RestoreInv'
<1>1. /\ pc = "rollback" /\ sel' = marker.pin /\ staged' = snaps[marker.pin] /\ step' = 0
      /\ pc' = "publish" /\ UNCHANGED <<proc, phase>>
      /\ UNCHANGED <<db, config, configDisk, marker, markerDisk, snaps, lastPin, floor, past>>
  BY DEF RollBack, files, observers
<1>2. /\ DataTyped /\ Disk /\ phase = "ActiveArmed" /\ proc \in {"starting", "up"}
      /\ marker # None /\ markerDisk # None
      /\ marker.completed = None /\ marker.digest = None /\ markerDisk.digest = None
  BY <1>1 DEF RestoreInv, ProcTyped, Where, Barred, At, AtBarrier
<1>3. staged' = floor /\ sel' \in Selectors
  BY <1>1, <1>2, MarkerTyped DEF Disk, Original, DataTyped
<1>4. /\ floor \in Contents /\ floor \in Snapshots /\ floor \in Known /\ floor.db \in Generations
  BY <1>2, LibraryTyped DEF DataTyped, Known, Contents
<1>5. <<floor.db, floor.db>> \in Supersets /\ Untouched(floor)
  BY <1>2, <1>4, GenerationsAssumption, FullUntouched
<1>6. DataTyped' /\ Disk'
  BY <1>1, <1>2, DiskSame
<1>7. ProcTyped'
  BY <1>1, <1>3, <1>4 DEF RestoreInv, ProcTyped, PCs
<1>8. Where'
  BY <1>1, <1>2, <1>3 DEF Where, Recovers, Bare, Barred, Selected, Copying
<1>9. AtBarrier' /\ AtPin' /\ AtFile' /\ AtLibrary'
  BY <1>1, <1>2 DEF AtBarrier, AtPin, AtFile, AtLibrary, Bare, Barred, Copying
<1>10. Untouched(staged)' /\ Known' = Known
  BY <1>1, <1>3, <1>5 DEF Untouched, Known
<1>11. AtCopy'
  BY <1>1, <1>3, <1>4, <1>5, <1>10 DEF AtCopy, Bare, Copying
<1> QED BY <1>1, <1>2, <1>6, <1>7, <1>8, <1>9, <1>11, GoesOn DEF At, Barred, Copying

-----------------------------------------------------------------------------
(* Requests, and everything else that happens.                             *)

\* What is known of an open library.
LEMMA OpenFacts ==
    ASSUME RestoreInv, Open
    PROVE  /\ marker = None /\ markerDisk = None /\ config = configDisk /\ pc = "none" /\ step = 0
           /\ DataTyped /\ Disk
<1>1. marker = None /\ markerDisk = None /\ config = configDisk
  BY DEF RestoreInv, Sheltered
<1>2. pc = "none"
  BY DEF Open, RestoreInv, ProcTyped, Where, PCs, Bare, Barred, Recovers, Copying
<1> QED BY <1>1, <1>2 DEF RestoreInv, At, AtFile

\* The library that is shut becomes the original.
LEMMA Observed ==
    ASSUME RestoreInv, Open, floor' = Library, past' = past \cup {Library},
           UNCHANGED <<db, config, snaps, lastPin>>,
           marker' = None, markerDisk' = None, configDisk' = config
    PROVE  DataTyped' /\ Disk' /\ Library' = floor' /\ Whole'
<1>1. DataTyped /\ Tree /\ Library \in Contents
  BY LibraryTyped DEF RestoreInv, Disk
<1>2. Library' = floor'
  BY <1>1 DEF Library
<1>3. DataTyped'
  BY <1>1 DEF DataTyped
<1>4. Whole'
  <2>1. floor' \in Outcomes(floor', past')
    BY DEF Outcomes
  <2> QED BY <1>2, <2>1 DEF Whole, Outcomes
<1>5. Tree'
  BY <1>1 DEF Tree
<1>6. SameRestore' /\ Original' /\ Preserved' /\ Proved'
  BY DEF SameRestore, Original, Preserved, Proved
<1> QED BY <1>2, <1>3, <1>4, <1>5, <1>6 DEF Disk

\* A named restore is reserved: a new one, or the retry of one that is pending.
LEMMA RequestNamedKeeps ==
    ASSUME RestoreInv, NEW s \in Selectors, RequestNamed(s)
    PROVE  RestoreInv'
<1>1. /\ proc = "up" /\ pc = "none" /\ step = 0 /\ phase \in {"Idle", "Parked"}
      /\ marker = None => phase = "Idle" /\ lastPin < MaxPins
      /\ phase' = (IF marker # None THEN "ActiveArmed" ELSE "ActiveNew")
      /\ pc' = "reserved" /\ sel' = s /\ UNCHANGED <<proc, staged, step, db, snaps, lastPin>>
      /\ config' = config /\ configDisk' = config /\ marker' = marker /\ markerDisk' = marker
      /\ Observe
  BY DEF RequestNamed, TakeAsFound, RestoreInv, At, AtFile
<1>2. ProcTyped'
  BY <1>1 DEF RestoreInv, ProcTyped, PCs
<1>3. Where'
  BY <1>1 DEF Where, Recovers, Bare, Barred, Selected, Copying
<1>4. CASE marker = None
  <2>1. DataTyped' /\ Disk' /\ Library' = floor' /\ Whole'
    BY <1>1, <1>4, Observed DEF Open, Observe
  <2>2. Sheltered'
    BY <1>1, <1>4, <2>1 DEF Sheltered, Open
  <2>3. At'
    BY <1>1, <1>4, <2>1 DEF At, AtBarrier, AtPin, AtCopy, AtFile, AtLibrary, Bare, Barred, Copying
  <2> QED BY <1>1, <1>2, <1>3, <2>1, <2>2, <2>3 DEF RestoreInv
<1>5. CASE marker # None
  <2>1. DataTyped /\ Disk /\ UNCHANGED <<floor, past>>
    BY <1>5, OpenFacts, <1>1 DEF RestoreInv, Observe
  <2>2. DataTyped'
    BY <1>1, <2>1 DEF DataTyped
  <2>3. Disk'
    <3>1. Whole => Whole'
      BY <1>1, <2>1 DEF Whole, Library, Outcomes
    <3>2. Proved'
      BY <1>1, <2>1, <3>1 DEF Disk, Proved
    <3> QED BY <1>1, <2>1, <3>2, DiskKept DEF Inherits
  <2>4. Sheltered'
    BY <1>1, <1>5 DEF Sheltered, Open
  <2>5. At'
    BY <1>1, <1>5 DEF At, AtBarrier, AtPin, AtCopy, AtFile, AtLibrary, Bare, Barred, Copying
  <2> QED BY <1>1, <1>2, <1>3, <2>2, <2>3, <2>4, <2>5 DEF RestoreInv
<1> QED BY <1>4, <1>5

\* A bare restore is reserved.
LEMMA RequestBareKeeps ==
    ASSUME RestoreInv, NEW g \in Generations, RequestBare(g)
    PROVE  RestoreInv'
<1>1. /\ Open /\ marker = None /\ lastPin < MaxPins /\ {db, g} \cap Reviewed = {} /\ Admissible(g)
      /\ phase' = "ActiveNew" /\ pc' = "barePin" /\ UNCHANGED <<proc, sel, step>>
      /\ staged' = [db |-> g, config |-> [f \in FileNames |-> Preserve]]
      /\ Observe /\ UNCHANGED <<db, config, configDisk, marker, markerDisk, snaps, lastPin>>
      /\ proc = "up"
  BY DEF RequestBare, Open, files
<1>2. markerDisk = None /\ config = configDisk /\ step = 0
  BY <1>1, OpenFacts
<1>3. DataTyped' /\ Disk' /\ Library' = floor' /\ Whole'
  BY <1>1, <1>2, Observed DEF Observe
<1>4. staged' \in BareDatabases /\ staged' \in Snapshots /\ staged'.db = g
  BY <1>1 DEF BareDatabases, Snapshots
<1>5. <<floor'.db, g>> \in Supersets
  <2>1. floor'.db = db
    BY <1>1 DEF Observe, Library
  <2> QED BY <1>1, <2>1 DEF Admissible, FloorDatabase
<1>6. ProcTyped'
  BY <1>1, <1>4 DEF RestoreInv, ProcTyped, PCs
<1>7. Where'
  BY <1>1 DEF Where, Recovers, Bare, Barred, Selected, Copying
<1>8. Sheltered'
  BY <1>1, <1>3 DEF Sheltered, Open
<1>9. AtBarrier' /\ AtPin' /\ AtFile' /\ AtLibrary'
  BY <1>1, <1>2, <1>3 DEF AtBarrier, AtPin, AtFile, AtLibrary, Bare, Barred, Copying
<1>10. AtCopy'
  BY <1>1, <1>4, <1>5 DEF AtCopy, Bare, Copying
<1> QED BY <1>2, <1>3, <1>6, <1>7, <1>8, <1>9, <1>10 DEF RestoreInv, At

\* Ordinary work on an open library.
LEMMA EditKeeps ==
    ASSUME RestoreInv, NEW g \in Generations, Edit(g)
    PROVE  RestoreInv'
<1>1. /\ Open /\ UNCHANGED <<proc, phase, pc, sel, staged, step, marker, markerDisk>>
      /\ UNCHANGED <<snaps, lastPin, floor, past>>
  BY DEF Edit, process, observers
<1>2. /\ marker = None /\ markerDisk = None /\ config = configDisk /\ pc = "none" /\ step = 0
      /\ DataTyped /\ Disk
  BY <1>1, OpenFacts
<1>3. db' \in Generations /\ config' \in FileSets /\ configDisk' = config'
  <2>1. CASE db' = g /\ UNCHANGED <<config, configDisk>>
    BY <1>2, <2>1 DEF DataTyped
  <2>2. CASE \E f \in FileNames : /\ config' = [config EXCEPT ![f] = g] /\ configDisk' = config'
                                  /\ UNCHANGED db
    BY <1>2, <2>2 DEF DataTyped, FileSets
  <2> QED BY <2>1, <2>2 DEF Edit
<1>4. DataTyped'
  BY <1>1, <1>2, <1>3 DEF DataTyped
<1>5. Disk'
  BY <1>1, <1>2 DEF Disk, Tree, SameRestore, Original, Preserved, Proved
<1>6. ProcTyped' /\ Where'
  BY <1>1 DEF RestoreInv, ProcTyped, Where
<1>7. Sheltered'
  BY <1>1, <1>2, <1>3 DEF Sheltered, Open
<1>8. At'
  BY <1>1, <1>2 DEF At, AtBarrier, AtPin, AtCopy, AtFile, AtLibrary, Bare, Barred, Copying
<1> QED BY <1>2, <1>4, <1>5, <1>6, <1>7, <1>8 DEF RestoreInv

\* A named snapshot disappears or is replaced.
LEMMA ChangeSnapshotKeeps ==
    ASSUME RestoreInv, NEW s \in Named, ChangeSnapshot(s)
    PROVE  RestoreInv'
<1>1. /\ UNCHANGED <<proc, phase, pc, sel, staged, step, marker, markerDisk>>
      /\ UNCHANGED <<db, config, configDisk, lastPin, floor, past>>
  BY DEF ChangeSnapshot, process, observers, files
<1>2. PICK c \in Swapped \cup {Gone} : snaps' = [snaps EXCEPT ![s] = c]
  BY DEF ChangeSnapshot
<1>3. DataTyped /\ Disk /\ At
  BY DEF RestoreInv
<1>4. /\ c = Gone \/ (c \in Contents /\ c \in Snapshots)
      /\ s \in Selectors /\ s \notin Pins
  BY <1>2, <1>3, SnapshotsAssumption, LibraryTyped DEF Selectors
<1>5. snaps'[s] = c /\ \A x \in Selectors : x # s => snaps'[x] = snaps[x]
  BY <1>2, <1>3, <1>4 DEF DataTyped
<1>6. DataTyped'
  BY <1>1, <1>2, <1>3, <1>4 DEF DataTyped
<1>7. Library' = Library /\ Whole' = Whole /\ Known' = Known
      /\ \A x : Untouched(x)' = Untouched(x)
  BY <1>1 DEF Library, Whole, Outcomes, Known, Untouched
<1>8. Disk'
  <2>1. SameRestore' /\ Proved'
    BY <1>1, <1>3, <1>7 DEF Disk, SameRestore, Proved
  <2>2. \A p \in Pins : snaps'[p] = snaps[p]
    BY <1>4, <1>5 DEF Selectors
  <2>3. Tree'
    BY <1>1, <1>2, <1>3, <1>5, <2>2 DEF Disk, Tree, Selectors
  <2>4. Original'
    BY <1>1, <1>3, <2>2 DEF Disk, Original
  <2>5. Preserved'
    <3> SUFFICES ASSUME NEW m \in {marker, markerDisk}, m # None, snaps'[m.source] # Gone,
                        NEW f \in FileNames, snaps'[m.source].config[f] = Preserve
                 PROVE  config[f] = floor.config[f] /\ configDisk[f] = floor.config[f]
      BY <1>1 DEF Preserved, Untouched
    <3>1. m.source \in Selectors
      BY <1>3, MarkerTyped DEF DataTyped
    <3>2. CASE m.source = s
      BY <1>4, <1>5, <3>2, GenerationsAssumption DEF Contents
    <3>3. CASE m.source # s
      BY <1>3, <1>5, <3>1, <3>3 DEF Disk, Preserved, Untouched
    <3> QED BY <3>2, <3>3
  <2> QED BY <2>1, <2>3, <2>4, <2>5 DEF Disk
<1>9. ProcTyped' /\ Where' /\ Sheltered'
  BY <1>1, <1>7 DEF RestoreInv, ProcTyped, Where, Sheltered, Open
<1>10. AtBarrier' /\ AtFile' /\ AtLibrary'
  <2>1. Apply(staged, floor)' = Apply(staged, floor)
    BY <1>1 DEF Apply
  <2> QED BY <1>1, <1>3, <1>7, <2>1 DEF At, AtBarrier, AtFile, AtLibrary
<1>11. AtPin'
  BY <1>1, <1>3, <1>4, <1>5 DEF At, AtPin, Selectors
<1>12. AtCopy'
  <2>1. \A x \in Selectors : snaps[x] \in {staged, Gone} \cup Swapped =>
                             snaps'[x] \in {staged, Gone} \cup Swapped
    BY <1>2, <1>5
  <2>2. pc \in Copying \cup {"pinned"} => sel \in Selectors
    BY DEF RestoreInv, Where, Selected
  <2>3. Untouched(staged)' = Untouched(staged)
    BY <1>1 DEF Untouched
  <2> QED BY <1>1, <1>3, <1>7, <2>1, <2>2, <2>3 DEF At, AtCopy
<1> QED BY <1>3, <1>6, <1>8, <1>9, <1>10, <1>11, <1>12 DEF RestoreInv, At

\* The process dies: the directory is as it was.
LEMMA ProcessEndsKeeps ==
    ASSUME RestoreInv, ProcessEnds
    PROVE  RestoreInv'
<1>1. /\ proc' = "down" /\ phase' = "Idle" /\ pc' = "none" /\ step' = 0 /\ sel' = None
      /\ staged' = None /\ Observe
      /\ UNCHANGED <<db, config, configDisk, marker, markerDisk, snaps, lastPin>>
  BY DEF ProcessEnds, Forget, files
<1>2. DataTyped /\ Disk
  BY DEF RestoreInv
<1>3. CASE Open
  <2>1. marker' = None /\ markerDisk' = None /\ configDisk' = config
    BY <1>1, <1>3, OpenFacts
  <2>2. DataTyped' /\ Disk' /\ Whole'
    BY <1>1, <1>3, <2>1, Observed DEF Observe
  <2>3. Sheltered'
    BY <1>1, <2>2 DEF Sheltered, Open
  <2> QED BY <1>1, <2>2, <2>3, Ends
<1>4. CASE ~Open
  <2>1. UNCHANGED <<floor, past>>
    BY <1>1, <1>4 DEF Observe
  <2>2. DataTyped' /\ Disk' /\ Whole' = Whole
    BY <1>1, <1>2, <2>1, DiskSame
  <2>3. Sheltered'
    BY <1>1, <1>4, <2>2 DEF RestoreInv, Sheltered, Open
  <2> QED BY <1>1, <2>2, <2>3, Ends
<1> QED BY <1>3, <1>4

\* The power is lost, and no stray comes back.
LEMMA PowerLossKeeps ==
    ASSUME RestoreInv, PowerLoss, ~relapsed'
    PROVE  RestoreInv'
<1>1. /\ proc' = "down" /\ phase' = "Idle" /\ pc' = "none" /\ step' = 0 /\ sel' = None
      /\ staged' = None /\ UNCHANGED <<db, snaps, lastPin>>
      /\ floor' = (IF Open THEN Library ELSE floor)
      /\ past' = (IF Open THEN past \cup {Library} ELSE past)
      /\ marker' \in {marker, markerDisk} /\ markerDisk' = marker' /\ configDisk' = config'
      /\ config' \in FileSets /\ \A f \in FileNames : config'[f] \in {config[f], configDisk[f]}
  BY DEF PowerLoss, Leaves, Forget, FileSets
<1>2. DataTyped /\ Disk
  BY DEF RestoreInv
<1>3. config = configDisk => config' = config
  <2>1. config' = [f \in FileNames |-> config'[f]] /\ config = [f \in FileNames |-> config[f]]
    BY <1>1, <1>2 DEF DataTyped, FileSets
  <2> QED BY <1>1, <2>1
<1>4. CASE Open
  <2>1. marker' = None /\ markerDisk' = None /\ config' = config /\ configDisk' = config
    BY <1>1, <1>3, <1>4, OpenFacts
  <2>2. DataTyped' /\ Disk' /\ Whole'
    BY <1>1, <1>4, <2>1, Observed
  <2>3. Sheltered'
    BY <1>1, <2>2 DEF Sheltered, Open
  <2> QED BY <1>1, <1>2, <2>2, <2>3, Ends
<1>5. CASE ~Open
  <2>1. UNCHANGED <<floor, past>>
    BY <1>1, <1>5
  <2>2. DataTyped'
    BY <1>1, <1>2, <2>1 DEF DataTyped
  <2>3. Whole => Whole'
    BY <1>1, <1>3, <2>1 DEF Whole, Library, Outcomes
  <2>4. Disk'
    <3>1. Proved'
      BY <1>1, <1>2, <2>3 DEF Disk, Proved
    <3> QED BY <1>1, <1>2, <2>1, <3>1, DiskKept DEF Inherits
  <2>5. Sheltered'
    <3>1. marker = None \/ markerDisk = None => Whole
      BY <1>5 DEF RestoreInv, Sheltered
    <3> QED BY <1>1, <2>3, <3>1 DEF Sheltered, Open
  <2> QED BY <1>1, <1>2, <2>2, <2>4, <2>5, Ends
<1> QED BY <1>4, <1>5

-----------------------------------------------------------------------------
(* The invariant, and what follows from it.                                *)

\* The first start, with or without the marker of an earlier release.
LEMMA RestoreInit == Init => RestoreInv
<1> SUFFICES ASSUME Init PROVE RestoreInv
  OBVIOUS
<1>1. /\ proc = "down" /\ phase = "Idle" /\ pc = "none" /\ sel = None /\ staged = None /\ step = 0
      /\ past = {floor} /\ configDisk = config /\ markerDisk = marker
  BY DEF Init
<1>2. /\ floor \in Contents /\ floor.config \in FileSets /\ floor.db \in Generations
      /\ floor \in Snapshots /\ floor = [db |-> floor.db, config |-> floor.config]
  <2>1. PICK g \in Generations : floor = [db |-> g, config |-> [f \in FileNames |-> g]]
    BY DEF Init
  <2> QED BY <2>1 DEF Contents, FileSets, Snapshots
<1>3. ProcTyped /\ Where /\ At
  BY <1>1 DEF ProcTyped, PCs, Where, At, AtBarrier, AtPin, AtCopy, AtFile, AtLibrary, Bare, Barred,
              Copying, Recovers, Selected
<1>4. ASSUME NEW q \in Named PROVE Manifest[q] \in Snapshots /\ q \notin Pins /\ q \in Selectors
  BY SnapshotsAssumption DEF Selectors
<1> DEFINE Fresh == /\ marker = None /\ lastPin = 0 /\ db = floor.db /\ config = floor.config
                    /\ snaps = [s \in Selectors |-> IF s \in Named THEN Manifest[s] ELSE Gone]
<1>5. CASE Fresh
  <2>1. DataTyped
    BY <1>1, <1>2, <1>4, <1>5, RestoreBoundsAssumption DEF DataTyped
  <2>2. Disk
    BY <1>1, <1>4, <1>5, SnapshotsAssumption
       DEF Disk, SameRestore, Tree, Original, Preserved, Proved, Selectors
  <2>3. Library = floor
    BY <1>2, <1>5 DEF Library
  <2>4. Sheltered
    BY <1>1, <2>3, OutcomesOf DEF Sheltered, Open, Whole
  <2> QED BY <1>3, <2>1, <2>2, <2>4 DEF RestoreInv
<1>6. ASSUME NEW s \in Named, MaxPins > 0, lastPin = 1, NEW done \in {None, s},
             snaps = [x \in Selectors |-> IF x \in Named THEN Manifest[x]
                                          ELSE IF x = 1 THEN floor ELSE Gone],
             marker = LegacyMarker(s, 1, done), db \in Generations, config \in FileSets,
             \A f \in FileNames : Manifest[s].config[f] = Preserve => config[f] = floor.config[f]
      PROVE  RestoreInv
  <2>1. 1 \in Pins /\ 1 \in Selectors /\ 1 \notin Named /\ 1 \in 0 .. MaxPins /\ s \in Selectors
    BY <1>4, <1>6, RestoreBoundsAssumption DEF Pins, Selectors
  <2>2. /\ marker \in Markers /\ marker # None /\ marker.source = s /\ marker.pin = 1
        /\ marker.digest = None
    BY <1>6, <2>1, SnapshotsAssumption DEF LegacyMarker, Markers
  <2>3. /\ snaps[1] = floor /\ snaps[s] = Manifest[s]
        /\ \A p \in Pins : p # 1 => snaps[p] = Gone
        /\ \A x \in Named : snaps[x] = Manifest[x]
        /\ snaps \in [Selectors -> Snapshots \cup {Gone}]
    BY <1>2, <1>4, <1>6, <2>1 DEF Selectors
  <2>4. DataTyped
    BY <1>1, <1>2, <1>6, <2>1, <2>2, <2>3 DEF DataTyped
  <2>5. Disk
    <3>1. SameRestore /\ Original /\ Proved
      BY <1>1, <2>1, <2>2, <2>3 DEF SameRestore, Original, Proved
    <3>2. Tree
      BY <1>1, <1>6, <2>3 DEF Tree
    <3>3. Preserved
      BY <1>1, <1>6, <2>2, <2>3 DEF Preserved, Untouched
    <3> QED BY <3>1, <3>2, <3>3 DEF Disk
  <2>6. Sheltered
    BY <1>1, <2>2 DEF Sheltered, Open
  <2> QED BY <1>3, <2>4, <2>5, <2>6 DEF RestoreInv
<1>7. CASE ~Fresh
  <2>1. PICK s \in Named :
          /\ MaxPins > 0 /\ lastPin = 1
          /\ snaps = [x \in Selectors |-> IF x \in Named THEN Manifest[x]
                                          ELSE IF x = 1 THEN floor ELSE Gone]
          /\ \/ /\ marker = LegacyMarker(s, 1, None)
                /\ \/ db = floor.db /\ config = floor.config
                   \/ \E i \in 0 .. Len(Files) :
                        /\ db = Manifest[s].db
                        /\ config = [f \in FileNames |->
                             IF \E j \in 1 .. i : Files[j] = f
                               THEN Apply(Manifest[s], floor).config[f] ELSE floor.config[f]]
             \/ /\ marker = LegacyMarker(s, 1, s)
                /\ db = Manifest[s].db /\ config = Apply(Manifest[s], floor).config
    BY <1>7 DEF Init
  <2> DEFINE whole == Apply(Manifest[s], floor).config
  <2>2. Manifest[s].db \in Generations
        /\ Manifest[s].config \in [FileNames -> Generations \cup {Preserve}]
    BY <1>4 DEF Snapshots
  <2>3. /\ whole \in FileSets
        /\ \A f \in FileNames : Manifest[s].config[f] = Preserve => whole[f] = floor.config[f]
    BY <1>2, <2>2 DEF Apply, FileSets
  <2> HIDE DEF whole
  <2>4. /\ db \in Generations /\ config \in FileSets
        /\ \A f \in FileNames : Manifest[s].config[f] = Preserve => config[f] = floor.config[f]
    <3>1. CASE db = floor.db /\ config = floor.config
      BY <1>2, <3>1
    <3>2. CASE db = Manifest[s].db /\ config = whole
      BY <2>2, <2>3, <3>2
    <3>3. CASE \E i \in 0 .. Len(Files) :
                 /\ db = Manifest[s].db
                 /\ config = [f \in FileNames |->
                      IF \E j \in 1 .. i : Files[j] = f THEN whole[f] ELSE floor.config[f]]
      <4>1. PICK i \in 0 .. Len(Files) :
              /\ db = Manifest[s].db
              /\ config = [f \in FileNames |->
                      IF \E j \in 1 .. i : Files[j] = f THEN whole[f] ELSE floor.config[f]]
        BY <3>3
      <4>2. db \in Generations
        BY <2>2, <4>1
      <4>3. ASSUME NEW installed, config = [f \in FileNames |->
                      IF f \in installed THEN whole[f] ELSE floor.config[f]]
            PROVE  /\ config \in FileSets
                   /\ \A f \in FileNames :
                        Manifest[s].config[f] = Preserve => config[f] = floor.config[f]
        BY <1>2, <2>3, <4>3 DEF FileSets
      <4>4. config = [f \in FileNames |->
              IF f \in {Files[j] : j \in 1 .. i} THEN whole[f] ELSE floor.config[f]]
        BY <4>1, Zenon
      <4> QED BY <4>2, <4>3, <4>4
    <3> QED BY <2>1, <3>1, <3>2, <3>3 DEF whole
  <2> QED BY <1>6, <2>1, <2>4
<1> QED BY <1>5, <1>7

\* Every step keeps the invariant.
LEMMA RestoreNext == RestoreInv /\ [Next]_vars /\ ~relapsed' => RestoreInv'
<1> SUFFICES ASSUME RestoreInv, [Next]_vars, ~relapsed' PROVE RestoreInv'
  OBVIOUS
<1>1. CASE UNCHANGED vars
  <2>1. UNCHANGED <<proc, phase, pc, sel, staged, step, db, config, configDisk, marker, markerDisk,
                    snaps, lastPin, floor, past>>
    BY <1>1 DEF vars, process, files, observers
  <2>2. DataTyped' /\ Disk' /\ Whole' = Whole /\ Library' = Library
    BY <2>1, DiskSame DEF RestoreInv
  <2>3. Apply(staged, floor)' = Apply(staged, floor) /\ Untouched(staged)' = Untouched(staged)
        /\ Known' = Known
    BY <2>1 DEF Apply, Untouched, Known
  <2>4. ProcTyped' /\ Where' /\ Sheltered'
    BY <2>1, <2>2 DEF RestoreInv, ProcTyped, Where, Sheltered, Open
  <2>5. At'
    BY <2>1, <2>2, <2>3 DEF RestoreInv, At, AtBarrier, AtPin, AtCopy, AtFile, AtLibrary
  <2> QED BY <2>2, <2>4, <2>5 DEF RestoreInv
<1>2. CASE Start
  BY <1>2, StartKeeps
<1>3. CASE Continue
  BY <1>3, CleanUpKeeps, PrepareFirstKeeps, RecordMarkerKeeps, PrepareRetryKeeps, PublishKeeps,
     InstallFileKeeps, MarkCompletedKeeps, ClearMarkerKeeps, BarePinKeeps, BarePublishKeeps,
     RecoverKeeps, RetryTargetKeeps, ClearHistoryKeeps, CommitKeeps, BareHistoryKeeps, RollBackKeeps
     DEF Continue
<1>4. CASE Request
  BY <1>4, RequestNamedKeeps, RequestBareKeeps DEF Request
<1>5. CASE Environment
  BY <1>5, EditKeeps, ChangeSnapshotKeeps, ProcessEndsKeeps, PowerLossKeeps DEF Environment
<1> QED BY <1>1, <1>2, <1>3, <1>4, <1>5 DEF Next, Wait

\* What has come back after a power loss stays noted.
LEMMA RelapseStays ==
    ASSUME relapsed \in BOOLEAN, [Next]_vars
    PROVE  relapsed' \in BOOLEAN /\ (relapsed => relapsed')
<1>1. CASE Continue
  BY <1>1 DEF Continue, CleanUp, PrepareFirst, RecordMarker, PrepareRetry, Publish, InstallFile,
     MarkCompleted, ClearMarker, BarePin, BarePublish, Recover, RetryTarget, ClearHistory, Commit,
     BareHistory, RollBack, observers
<1>2. CASE Start \/ Request \/ Environment \/ Wait \/ UNCHANGED vars
  BY <1>2 DEF Start, Request, RequestNamed, RequestBare, Environment, Edit, ChangeSnapshot,
     ProcessEnds, PowerLoss, Observe, Wait, vars, observers
<1> QED BY <1>1, <1>2 DEF Next

\* The invariant holds until strays come back.
UntilRelapse == relapsed \in BOOLEAN /\ (relapsed \/ RestoreInv)

LEMMA RestoreAlways == Spec => []UntilRelapse
<1>1. Init => UntilRelapse
  BY RestoreInit DEF Init, UntilRelapse
<1>2. UntilRelapse /\ [Next]_vars => UntilRelapse'
  BY RestoreNext, RelapseStays DEF UntilRelapse
<1> QED BY <1>1, <1>2, PTL DEF Spec

\* The pin that a barrier names is the library as it was before the first attempt,
\* whatever number of retries, prunings and crashes lie between
\* (take_mandatory_pre_restore_snapshot, prune_same_label_pins_best_effort).
THEOREM OriginalKept == Spec => []OriginalSurvives
<1>1. UntilRelapse => OriginalSurvives
  BY DEF UntilRelapse, RestoreInv, Disk, Original, OriginalSurvives
<1> QED BY <1>1, RestoreAlways, PTL

\* Whatever the end of the process or a power loss would leave in the data directory
\* is barred or is one coherent library, for any set of files and after any number
\* of faults, until a power loss brings strays back.
THEOREM MixtureBarred == Spec => []MixtureIsBarred
<1>1. UntilRelapse => MixtureIsBarred
  <2> SUFFICES ASSUME RestoreInv, ~Open, NEW m \in {marker, markerDisk}, m = None,
                      NEW c \in [FileNames -> Generations],
                      \A f \in FileNames : c[f] \in {config[f], configDisk[f]}
               PROVE  [db |-> db, config |-> c] \in Outcomes(floor, past)
    BY DEF MixtureIsBarred, UntilRelapse, Leaves, BarredOrWhole
  <2>1. Whole
    BY DEF RestoreInv, Sheltered
  <2>2. c = config
    <3>1. config = [f \in FileNames |-> config[f]] /\ c = [f \in FileNames |-> c[f]]
      BY DEF RestoreInv, DataTyped, FileSets
    <3> QED BY <2>1, <3>1 DEF Whole
  <2> QED BY <2>1, <2>2 DEF Whole, Library
<1> QED BY <1>1, RestoreAlways, PTL

-----------------------------------------------------------------------------
(* What a step may never do.                                               *)

\* A completion that is recorded is only cleaned up after: no process publishes
\* over it or reopens its transaction (the cleanup branch of the command and
\* recover_interrupted_named_restore_with_admission).
THEOREM CompletedFinal == Spec => CompletedIsFinal
<1> DEFINE Final == marker # None /\ marker.completed # None /\ marker.digest = db /\ ~relapsed'
                      => db' = db /\ config' = config /\ marker' \in {marker, markerDisk, None}
<1>1. UntilRelapse /\ [Next]_vars => [Final]_vars
  <2> SUFFICES ASSUME RestoreInv, Next, ~relapsed',
                      marker # None, marker.completed # None, marker.digest = db
               PROVE  db' = db /\ config' = config /\ marker' \in {marker, markerDisk, None}
    BY RelapseStays DEF UntilRelapse
  <2>1. config = configDisk /\ config \in FileSets /\ configDisk \in FileSets
    BY GenerationsAssumption DEF RestoreInv, DataTyped, Disk, Proved, Whole
  <2>2. ~Open /\ pc \notin Copying \cup Bare \cup {"pinned", "commit", "target", "rollback"}
    BY DEF RestoreInv, Sheltered, At, AtBarrier
  <2>3. CASE Start
    BY <2>3 DEF Start, TakeAsFound
  <2>4. CASE Continue
    <3>1. CleanUp \/ \E result \in Results : ClearMarker(result) \/ Recover(result)
      BY <2>2, <2>4 DEF Continue, PrepareFirst, RecordMarker, PrepareRetry, Publish, InstallFile,
         MarkCompleted, BarePin, BarePublish, RetryTarget, ClearHistory, Commit, BareHistory,
         RollBack, Copying, Bare
    <3>2. CASE CleanUp
      BY <3>2 DEF CleanUp, files
    <3>3. ASSUME NEW result \in Results, ClearMarker(result)
          PROVE  db' = db /\ config' = config /\ marker' \in {marker, None}
      BY <3>3 DEF ClearMarker, WriteData
    <3>4. ASSUME NEW result \in Results, Recover(result)
          PROVE  db' = db /\ config' = config /\ marker' = marker
      BY <3>4 DEF Recover, MatchesLive, files
    <3> QED BY <3>1, <3>2, <3>3, <3>4
  <2>5. CASE Request
    BY <2>5 DEF Request, RequestNamed, RequestBare, TakeAsFound
  <2>6. CASE Environment
    <3>1. CASE PowerLoss
      <4>1. config' \in FileSets /\ \A f \in FileNames : config'[f] = config[f]
        BY <2>1, <3>1 DEF PowerLoss, Leaves, FileSets
      <4>2. config' = config
        BY <2>1, <4>1 DEF FileSets
      <4> QED BY <3>1, <4>2 DEF PowerLoss, Leaves
    <3>2. CASE ProcessEnds \/ \E s \in Named : ChangeSnapshot(s)
      BY <3>2 DEF ProcessEnds, ChangeSnapshot, files
    <3> QED BY <2>2, <2>6, <3>1, <3>2 DEF Environment, Edit
  <2>7. CASE Wait
    BY <2>7 DEF Wait, vars, files
  <2> QED BY <2>3, <2>4, <2>5, <2>6, <2>7 DEF Next
<1> QED BY <1>1, RestoreAlways, PTL DEF Spec, CompletedIsFinal

\* Behind the barrier only the recorded target or the original is published, even
\* if another snapshot has taken the target's place
\* (bind_named_restore_target_generation).
THEOREM PublishesTheRecorded == Spec => PublishesRecorded
<1>1. UntilRelapse /\ [Next]_vars
        => [pc = "publish" /\ db' # db /\ ~relapsed => db' \in {floor.db, marker.target}]_vars
  <2> SUFFICES ASSUME RestoreInv, Next, pc = "publish", db' # db
               PROVE  db' \in {floor.db, marker.target}
    BY DEF UntilRelapse
  <2>1. ~Open /\ (staged = floor \/ marker.target = staged.db)
    BY DEF RestoreInv, Where, Open, Barred, Copying, At, AtCopy
  <2>2. PICK result \in Results : Publish(result)
    BY <2>1 DEF Next, Start, Continue, CleanUp, PrepareFirst, RecordMarker, PrepareRetry,
       InstallFile, MarkCompleted, ClearMarker, BarePin, BarePublish, Recover, RetryTarget,
       ClearHistory, Commit, BareHistory, RollBack, Request, RequestNamed, RequestBare,
       Environment, Edit, ChangeSnapshot, ProcessEnds, PowerLoss, Wait
  <2> QED BY <2>1, <2>2 DEF Publish, CommitStaged
<1> QED BY <1>1, RestoreAlways, PTL DEF Spec, PublishesRecorded

-----------------------------------------------------------------------------
(* Seen by ordinary work, a restore is one step.                           *)

\* A step behind the barrier goes on, parks the admission or ends the process.
LEMMA BarredShut ==
    ASSUME RestoreInv, pc \in Barred, Abort \/ (proc' = proc /\ phase' = phase)
    PROVE  ~Open'
<1>1. phase = "ActiveArmed"
  BY DEF RestoreInv, Where
<1> QED BY <1>1 DEF Open, Abort, Refuse, PhaseAfterDrop, Goto

\* Only the end of a restore that left nothing of itself reopens the library
\* without publishing: no barrier is there, and the step writes neither a database
\* nor a file.
LEMMA ContinueReopens ==
    ASSUME RestoreInv, Continue, Open', \A result \in Results : ~BarePublish(result)
    PROVE  marker = None /\ db' = db /\ config' = config
<1>1. pc \notin Barred
  <2> SUFFICES ASSUME pc \in Barred PROVE FALSE
    OBVIOUS
  <2>1. Abort \/ (proc' = proc /\ phase' = phase)
    BY DEF Continue, CleanUp, PrepareFirst, RecordMarker, PrepareRetry, Publish, InstallFile,
       MarkCompleted, ClearMarker, BarePin, BarePublish, Recover, RetryTarget, ClearHistory, Commit,
       BareHistory, RollBack, Barred, Copying, Goto
  <2> QED BY <2>1, BarredShut
<1>2. pc = "reserved" /\ marker # None => phase = "ActiveArmed"
  BY DEF RestoreInv, Where
<1>3. ~CleanUp
  BY <1>2 DEF CleanUp, Refuse, PhaseAfterDrop, Goto, Open
<1>4. ASSUME NEW result \in Results, PrepareRetry(result) PROVE FALSE
  BY <1>2, <1>4 DEF PrepareRetry, Refuse, PhaseAfterDrop, Open
<1>5. pc \in Bare \cup {"pinned", "commit"} => marker = None
  BY DEF RestoreInv, At, AtBarrier
<1>6. ASSUME NEW result \in Results, RecordMarker(result)
      PROVE  marker = None /\ db' = db /\ config' = config
  BY <1>5, <1>6 DEF RecordMarker, WriteData
<1>7. ASSUME NEW result \in Results, PrepareFirst(result) \/ BarePin(result)
      PROVE  marker = None /\ db' = db /\ config' = config
  BY <1>5, <1>7 DEF PrepareFirst, BarePin, files, Bare
<1>8. CASE Commit \/ BareHistory
  BY <1>5, <1>8 DEF Commit, BareHistory, files, Bare
<1> QED BY <1>1, <1>3, <1>4, <1>6, <1>7, <1>8
       DEF Continue, Publish, InstallFile, MarkCompleted, ClearMarker, Recover, RetryTarget,
           ClearHistory, RollBack, Barred, Copying

\* The library reopens as it was or as one snapshot makes it.
LEMMA Reopens ==
    ASSUME RestoreInv, Next, ~Open, Open'
    PROVE  Library' \in Outcomes(floor, past)
<1>1. marker = None => Library \in Outcomes(floor, past)
  BY DEF RestoreInv, Sheltered, Whole
<1>2. ASSUME marker = None, db' = db, config' = config
      PROVE  Library' \in Outcomes(floor, past)
  BY <1>1, <1>2 DEF Library
<1>3. CASE Start
  BY <1>2, <1>3 DEF Start, TakeAsFound, Open
<1>4. ASSUME NEW result \in Results, BarePublish(result)
      PROVE  Library' \in Outcomes(floor, past)
  <2>1. /\ pc = "barePublish" /\ marker = None /\ Library = floor /\ staged \in BareDatabases
        /\ <<floor.db, staged.db>> \in Supersets /\ DataTyped
    BY <1>4 DEF BarePublish, RestoreInv, At, AtBarrier, AtCopy, AtLibrary, Bare
  <2>2. config' = config /\ db' \in {db, staged.db}
    BY <1>4 DEF BarePublish, CommitStaged, WriteData
  <2>3. CASE db' = db
    BY <1>2, <2>1, <2>2, <2>3
  <2>4. CASE db' = staged.db
    <3>1. Library' = Apply(staged, floor)
      BY <2>1, <2>2, <2>4, BareLibrary DEF Library
    <3> QED BY <2>1, <3>1, OutcomesOf
  <2> QED BY <2>2, <2>3, <2>4
<1>5. CASE Continue
  <2>1. CASE \E result \in Results : BarePublish(result)
    BY <1>4, <2>1
  <2>2. CASE ~\E result \in Results : BarePublish(result)
    BY <1>2, <1>5, <2>2, ContinueReopens DEF Results
  <2> QED BY <2>1, <2>2
<1>6. ~Request
  BY DEF Request, RequestNamed, RequestBare, Open
<1>7. ~Environment
  BY DEF Environment, Edit, ChangeSnapshot, ProcessEnds, PowerLoss, Open, process
<1>8. ~Wait
  BY DEF Wait, Open, vars, process
<1> QED BY <1>3, <1>5, <1>6, <1>7, <1>8 DEF Next

\* While the library stays shut, the original is what it was.
LEMMA StaysShut ==
    ASSUME Next, ~Open
    PROVE  floor' = floor /\ past' = past
<1>1. CASE Continue
  BY <1>1 DEF Continue, CleanUp, PrepareFirst, RecordMarker, PrepareRetry, Publish, InstallFile,
     MarkCompleted, ClearMarker, BarePin, BarePublish, Recover, RetryTarget, ClearHistory, Commit,
     BareHistory, RollBack, observers
<1>2. CASE Start \/ Request \/ Environment \/ Wait
  BY <1>2 DEF Start, Request, RequestNamed, RequestBare, Environment, Edit, ChangeSnapshot,
     ProcessEnds, PowerLoss, Observe, Wait, vars, observers
<1> QED BY <1>1, <1>2 DEF Next

\* An open library is edited, or shut as it is.
LEMMA OpenSteps ==
    ASSUME RestoreInv, Next, Open
    PROVE  /\ Open' => past' = past
           /\ ~Open' => past' = past \cup {Library} /\ floor' = Library
<1>1. proc = "up" /\ pc = "none"
  BY OpenFacts DEF Open
<1>2. ~Start /\ ~Continue
  BY <1>1 DEF Start, Continue, CleanUp, PrepareFirst, RecordMarker, PrepareRetry, Publish,
     InstallFile, MarkCompleted, ClearMarker, BarePin, BarePublish, Recover, RetryTarget,
     ClearHistory, Commit, BareHistory, RollBack
<1>3. CASE Request
  BY <1>3 DEF Request, RequestNamed, RequestBare, Observe, Open
<1>4. CASE Environment
  BY <1>4 DEF Environment, Edit, ChangeSnapshot, ProcessEnds, PowerLoss, Observe, Open, process,
     observers
<1>5. CASE Wait
  BY <1>5 DEF Wait, vars, process, observers, Open
<1> QED BY <1>2, <1>3, <1>4, <1>5 DEF Next

\* The detailed restore implements the atomic one: the library is edited, shut, and
\* reopened as it was or as one admissible snapshot makes it, whatever errors,
\* cancellations, ends of the process, power losses and retries lie between, until a
\* power loss brings strays back.
THEOREM RestoresAtomic == Spec => RestoresAreAtomic
<1>1. Init => Abstract!Init
  <2> SUFFICES ASSUME Init PROVE Abstract!Init
    OBVIOUS
  <2>1. ~Open
    BY DEF Init, Open
  <2>2. floor \in Contents /\ past \subseteq Contents
    BY LibraryTyped, RestoreInit DEF RestoreInv, DataTyped
  <2> QED BY <2>1, <2>2 DEF Init, Abstract!Init
<1>2. UntilRelapse /\ UntilRelapse' /\ [Next]_vars => [Abstract!Next]_(Abstract!vars)
  <2>1. CASE UNCHANGED vars
    BY <2>1 DEF Abstract!vars, vars, process, files, observers, Open, Library
  <2> SUFFICES ASSUME RestoreInv, RestoreInv', Next, relapsed = FALSE, relapsed' = FALSE
               PROVE  [Abstract!Next]_(Abstract!vars)
    BY <2>1, RelapseStays DEF UntilRelapse, Abstract!Next, Abstract!Void
  <2>2. CASE Open /\ Open'
    <3>1. Library' \in Contents
      BY DEF RestoreInv, DataTyped, Library, Contents, FileSets
    <3>2. past' = past /\ Open' = Open
      BY <2>2, OpenSteps DEF Open
    <3> QED BY <2>2, <3>1, <3>2 DEF Abstract!Next, Abstract!Keep, Abstract!Edit
  <2>3. CASE Open /\ ~Open'
    BY <2>3, OpenSteps DEF Abstract!Next, Abstract!Keep, Abstract!Shut
  <2>4. CASE ~Open /\ Open'
    BY <2>4, StaysShut, Reopens DEF Abstract!Next, Abstract!Keep, Abstract!Reopen
  <2>5. CASE ~Open /\ ~Open'
    BY <2>5, StaysShut DEF Abstract!vars, Open
  <2> QED BY <2>2, <2>3, <2>4, <2>5
<1> QED BY <1>1, <1>2, RestoreAlways, PTL DEF Spec, RestoresAreAtomic, Abstract!Spec

-----------------------------------------------------------------------------
(* What strays cannot change: types, and that ordinary work is shut out.   *)

\* Barriers that an attempt of this program or of an earlier release wrote.
Barriers == {m \in Markers : m.pin \in Pins} \cup {None}
Dirs == [marker : Barriers, config : FileSets]

\* What is in the data directory and what can come back there.
Directory ==
  /\ config \in FileSets /\ configDisk \in FileSets
  /\ marker \in Barriers /\ markerDisk \in Barriers /\ strays \subseteq Dirs

\* The barrier of each step, whichever restore it is of, and the pin of a recovery.
Barrier ==
  /\ Open => marker = None /\ markerDisk = None
  /\ pc \in Bare \cup {"pinned", "commit"} => marker = None /\ markerDisk = None
  /\ pc \in Barred => marker # None
  /\ pc = "reserved" => markerDisk = marker
  /\ proc = "starting" /\ pc \in {"target", "publish", "install", "rollback"} =>
       snaps[marker.pin] # Gone

\* What the next step needs.
Equipped ==
  /\ pc = "barePin" \/ (pc = "reserved" /\ marker = None) => lastPin < MaxPins
  /\ pc = "pinned" => lastPin \in Pins
  /\ pc \in {"pinned", "barePin", "barePublish"} \cup Copying => staged \in Snapshots

Standing == ProcTyped /\ DataTyped /\ Directory /\ Where /\ Barrier /\ Equipped

\* A write keeps the directory.
LEMMA DirectoryWritten ==
    ASSUME Directory, NEW m \in Barriers, NEW c \in FileSets, NEW result,
           WriteData(m, c, result)
    PROVE  Directory'
  BY DEF Directory, WriteData

\* A step that leaves the files alone keeps the directory.
LEMMA DirectorySame ==
    ASSUME Directory, UNCHANGED files
    PROVE  Directory'
  BY DEF Directory, files

\* Data whose database, snapshots and observers keep their types.
LEMMA DataOf ==
    ASSUME DataTyped, Directory', db' \in Generations, UNCHANGED <<snaps, lastPin, floor, past>>
    PROVE  DataTyped'
  BY DEF DataTyped, Directory, Barriers

\* The attempt is over.
LEMMA StandEnds ==
    ASSUME DataTyped', Directory',
           pc' = "none", step' = 0, sel' = None, staged' = None,
           \/ proc' = "up" /\ phase' = "Parked"
           \/ proc' = "up" /\ phase' = "Idle" /\ marker' = None /\ markerDisk' = None
           \/ proc' = "down" /\ phase' = "Idle"
    PROVE  Standing'
<1>1. ProcTyped'
  BY DEF ProcTyped, PCs
<1>2. Where'
  BY DEF Where, Recovers, Bare, Barred, Selected, Copying
<1>3. Barrier' /\ Equipped'
  BY DEF Barrier, Equipped, Open, Bare, Barred, Copying
<1> QED BY <1>1, <1>2, <1>3 DEF Standing

\* A command is refused: with its barrier armed it parks, without one it reopens.
LEMMA StandRefused ==
    ASSUME DataTyped', Directory', NEW p, Refuse(p), proc = "up",
           p = "ActiveArmed" \/ (marker' = None /\ markerDisk' = None)
    PROVE  Standing'
<1>1. /\ pc' = "none" /\ step' = 0 /\ sel' = None /\ staged' = None /\ proc' = "up"
      /\ phase' \in {"Idle", "Parked"} /\ (p = "ActiveArmed" => phase' = "Parked")
  BY DEF Refuse, Forget, PhaseAfterDrop
<1> QED BY <1>1, StandEnds

\* An attempt fails behind the barrier.
LEMMA StandAborts ==
    ASSUME Standing, DataTyped', Directory', Abort, pc \in Barred, UNCHANGED snaps,
           pc \in {"target", "publish", "install"} => marker' # None /\ marker'.pin = marker.pin
    PROVE  Standing'
<1>1. phase = "ActiveArmed" /\ proc \in {"starting", "up"}
  BY DEF Standing, Where, ProcTyped, Barred, Recovers, Copying
<1>2. CASE proc = "up"
  BY <1>1, <1>2, StandRefused DEF Abort
<1>3. CASE proc # "up" /\ FallsBack
  <2>1. /\ pc' = "rollback" /\ proc' = "starting" /\ phase' = "ActiveArmed"
        /\ sel' = sel /\ staged' = staged /\ step' = step /\ pc \in {"target", "publish", "install"}
    BY <1>1, <1>3 DEF Abort, Goto, FallsBack
  <2>2. ProcTyped'
    BY <2>1 DEF Standing, ProcTyped, PCs
  <2>3. Where'
    BY <2>1 DEF Where, Recovers, Bare, Barred, Selected, Copying
  <2>4. Barrier'
    BY <1>1, <1>3, <2>1 DEF Standing, Barrier, Open, Bare, Barred, Copying
  <2>5. Equipped'
    BY <2>1 DEF Equipped, Bare, Copying
  <2> QED BY <2>2, <2>3, <2>4, <2>5 DEF Standing
<1>4. CASE proc # "up" /\ ~FallsBack
  <2>1. /\ pc' = "none" /\ step' = 0 /\ sel' = None /\ staged' = None /\ proc' = "down"
        /\ phase' = "Idle"
    BY <1>4 DEF Abort, Forget
  <2> QED BY <2>1, StandEnds
<1> QED BY <1>2, <1>3, <1>4

\* A step behind the barrier leads to the next one.
LEMMA StandGoes ==
    ASSUME Standing, DataTyped', Directory', NEW l \in Barred \cup {"commit"},
           pc' = l, UNCHANGED <<proc, phase, snaps>>, phase = "ActiveArmed", proc # "down",
           proc = "up" => l \notin Recovers, proc = "starting" => l # "history",
           sel' \in Selectors \cup {None}, l \in Selected => sel' \in Selectors,
           staged' \in Snapshots \cup {None}, l \in Copying => staged' \in Snapshots,
           step' \in Nat,
           l = "commit" => marker' = None /\ markerDisk' = None,
           l # "commit" => marker' # None,
           proc = "starting" /\ l \in {"target", "publish", "install", "rollback"} =>
             snaps[marker'.pin] # Gone
    PROVE  Standing'
<1>0. l \in PCs /\ proc \in {"starting", "up"}
  BY DEF PCs, Barred, Copying, Standing, ProcTyped
<1>1. ProcTyped'
  BY <1>0 DEF Standing, ProcTyped
<1>2. Where'
  BY <1>0 DEF Where, Recovers, Bare, Barred, Selected, Copying
<1>3. Barrier'
  BY <1>0 DEF Barrier, Open, Bare, Barred, Copying
<1>4. Equipped'
  BY <1>0 DEF Equipped, Bare, Barred, Copying
<1> QED BY <1>1, <1>2, <1>3, <1>4 DEF Standing

\* What an attempt behind its barrier knows.
LEMMA StandFacts ==
    ASSUME Standing, pc \in Barred
    PROVE  /\ phase = "ActiveArmed" /\ proc \in {"starting", "up"}
           /\ proc = "up" => pc \notin Recovers
           /\ proc = "starting" => pc # "history"
           /\ marker \in Markers /\ marker \in Barriers /\ marker # None /\ marker.pin \in Pins
           /\ config \in FileSets /\ db \in Generations /\ step \in Nat
           /\ sel \in Selectors \cup {None} /\ staged \in Snapshots \cup {None}
           /\ pc \in Selected => sel \in Selectors
           /\ pc \in Copying => staged \in Snapshots
<1>1. phase = "ActiveArmed" /\ proc \in {"starting", "up"}
  BY DEF Standing, Where, ProcTyped, Barred, Recovers, Copying
<1>2. /\ proc = "up" => pc \notin Recovers
      /\ proc = "starting" => pc # "history"
  BY DEF Standing, Where, Recovers
<1>3. marker \in Markers /\ marker \in Barriers /\ marker # None /\ marker.pin \in Pins
  BY DEF Standing, Barrier, Directory, Barriers
<1>4. config \in FileSets /\ db \in Generations
  BY DEF Standing, DataTyped
<1> QED BY <1>1, <1>2, <1>3, <1>4 DEF Standing, ProcTyped, Where, Equipped

\* A barrier that is rewritten keeps its pin.
Rewrites(m, n) == n \in Barriers /\ n.pin = m.pin /\ n # None

\* A legacy barrier bound to its target.
LEMMA Bound ==
    ASSUME NEW m \in Markers, m.pin \in Pins, NEW t \in Generations \cup {None}
    PROVE  Rewrites(m, [m EXCEPT !.target = t])
  BY SnapshotsAssumption DEF Rewrites, Barriers, Markers

\* A false completion taken back.
LEMMA Reopened ==
    ASSUME NEW m \in Markers, m.pin \in Pins, NEW s \in Selectors \cup {None},
           NEW d \in Generations \cup {None}
    PROVE  Rewrites(m, [m EXCEPT !.completed = s, !.digest = d])
  BY SnapshotsAssumption DEF Rewrites, Barriers, Markers

\* A completion recorded.
LEMMA Completed ==
    ASSUME NEW m \in Markers, m.pin \in Pins, NEW t \in Generations,
           NEW s \in Selectors, NEW d \in Generations
    PROVE  Rewrites(m, [m EXCEPT !.target = IF @ = None THEN t ELSE @, !.completed = s, !.digest = d])
<1>1. [m EXCEPT !.target = IF @ = None THEN t ELSE @, !.completed = s, !.digest = d] \in Markers
  BY DEF Markers
<1>2. [m EXCEPT !.target = IF @ = None THEN t ELSE @, !.completed = s, !.digest = d].pin = m.pin
  BY DEF Markers
<1> QED BY <1>1, <1>2, SnapshotsAssumption DEF Rewrites, Barriers

\* Publishing the database.
LEMMA StandPublish ==
    ASSUME Standing, NEW result \in Results, Publish(result)
    PROVE  Standing'
<1>1. pc = "publish" /\ pc \in Barred /\ pc \in Copying
  BY DEF Publish, Barred, Copying
<1>2. Directory'
  BY <1>1, StandFacts, DirectoryWritten DEF Publish, CommitStaged, Standing
<1>3. db' \in Generations
  BY <1>1, StandFacts DEF Publish, CommitStaged, Snapshots
<1>4. DataTyped'
  BY <1>2, <1>3, DataOf DEF Publish, observers, Standing
<1>5. marker' = marker
  BY DEF Publish, CommitStaged, WriteData
<1>6. CASE ~Strict(result)
  BY <1>1, <1>2, <1>4, <1>5, <1>6, StandAborts, StandFacts DEF Publish
<1>7. CASE Strict(result)
  <2> DEFINE l == IF proc = "up" THEN "history" ELSE "install"
  <2>1. Goto(l) /\ l \in Barred /\ l \in {"history", "install"} /\ UNCHANGED snaps
    BY <1>7 DEF Publish, Barred, Copying
  <2>2. proc = "starting" => snaps[marker.pin] # Gone /\ l = "install"
    BY <1>1 DEF Standing, Barrier
  <2>3. l \notin Recovers /\ l # "commit"
    BY <2>1 DEF Recovers
  <2> HIDE DEF l
  <2> QED BY <1>1, <1>2, <1>4, <1>5, <2>1, <2>2, <2>3, StandGoes, StandFacts DEF Goto, Selected, Copying
<1> QED BY <1>6, <1>7

\* Clearing the undo history, or a cancellation.
LEMMA StandClearHistory ==
    ASSUME Standing, NEW cancelled \in BOOLEAN, ClearHistory(cancelled)
    PROVE  Standing'
<1>1. pc = "history" /\ pc \in Barred /\ pc \in Copying
  BY DEF ClearHistory, Barred, Copying
<1>2. Directory' /\ marker' = marker
  BY DirectorySame DEF ClearHistory, files, Standing
<1>3. DataTyped'
  BY <1>2, DataOf DEF ClearHistory, observers, Standing, DataTyped
<1>4. CASE cancelled
  BY <1>1, <1>2, <1>3, <1>4, StandAborts DEF ClearHistory
<1>5. CASE ~cancelled
  <2>1. Goto("install") /\ UNCHANGED snaps /\ "install" \in Barred /\ "install" \notin Recovers
    BY <1>5 DEF ClearHistory, Barred, Copying, Recovers
  <2> QED BY <1>1, <1>2, <1>3, <2>1, StandGoes, StandFacts DEF Goto, Selected, Copying
<1> QED BY <1>4, <1>5

\* Installing one file.
LEMMA StandInstallFile ==
    ASSUME Standing, NEW result \in Results, InstallFile(result)
    PROVE  Standing'
<1>1. pc = "install" /\ pc \in Barred /\ pc \in Copying /\ pc \in Selected /\ step < Len(Files)
  BY DEF InstallFile, Barred, Copying, Selected
<1> DEFINE f == Files[step + 1]
<1>2. staged \in Snapshots /\ config \in FileSets /\ step \in Nat
  BY <1>1, StandFacts
<1>3. f \in FileNames
  BY <1>1, <1>2, FilesAssumption
<1>4. [config EXCEPT ![f] = Planned(f)] \in FileSets
  BY <1>2, <1>3 DEF Planned, Snapshots, FileSets
<1>5. UNCHANGED files \/ WriteData(marker, [config EXCEPT ![f] = Planned(f)], result)
  BY DEF InstallFile
<1> HIDE DEF f
<1>6. Directory' /\ marker' = marker
  BY <1>1, <1>4, <1>5, DirectorySame, DirectoryWritten, StandFacts DEF files, WriteData, Standing
<1>7. DataTyped'
  BY <1>6, DataOf DEF InstallFile, observers, Standing, DataTyped
<1>8. CASE ~Strict(result)
  BY <1>1, <1>6, <1>7, <1>8, StandAborts, StandFacts DEF InstallFile
<1>9. CASE Strict(result)
  <2>1. /\ pc' \in {"mark", "install"} /\ step' = step + 1
        /\ UNCHANGED <<proc, phase, sel, staged, snaps>>
    BY <1>9 DEF InstallFile
  <2>2. pc' \in Barred /\ pc' \in Copying /\ pc' \notin Recovers
    BY <2>1 DEF Barred, Copying, Recovers
  <2>3. proc = "starting" => snaps[marker.pin] # Gone
    BY <1>1 DEF Standing, Barrier
  <2> QED BY <1>1, <1>2, <1>6, <1>7, <2>1, <2>2, <2>3, StandGoes, StandFacts
<1> QED BY <1>8, <1>9

\* Recording the completion.
LEMMA StandMarkCompleted ==
    ASSUME Standing, NEW result \in Results, MarkCompleted(result)
    PROVE  Standing'
<1>1. pc = "mark" /\ pc \in Barred /\ pc \in Copying /\ pc \in Selected
  BY DEF MarkCompleted, Barred, Copying, Selected
<1>2. staged.db \in Generations /\ sel \in Selectors
  BY <1>1, StandFacts DEF Snapshots
<1>3. PICK m : Rewrites(marker, m) /\ WriteData(m, config, result)
  BY <1>1, <1>2, Completed, StandFacts DEF MarkCompleted
<1>6. Directory' /\ marker' # None
  BY <1>1, <1>3, DirectoryWritten, StandFacts DEF WriteData, Standing, Rewrites
<1>7. DataTyped'
  BY <1>6, DataOf DEF MarkCompleted, observers, Standing, DataTyped
<1>8. CASE ~Strict(result)
  BY <1>1, <1>6, <1>7, <1>8, StandAborts DEF MarkCompleted
<1>9. CASE Strict(result)
  <2>1. Goto("clear") /\ UNCHANGED snaps /\ "clear" \in Barred
    BY <1>9 DEF MarkCompleted, Barred
  <2>2. "clear" \notin Recovers /\ "clear" \notin Selected /\ "clear" \notin Copying
    BY DEF Recovers, Selected, Copying
  <2> QED BY <1>1, <1>6, <1>7, <2>1, <2>2, StandGoes, StandFacts DEF Goto
<1> QED BY <1>8, <1>9

\* Removing the barrier.
LEMMA StandClearMarker ==
    ASSUME Standing, NEW result \in Results, ClearMarker(result)
    PROVE  Standing'
<1>1. pc = "clear" /\ pc \in Barred
  BY DEF ClearMarker, Barred
<1>2. WriteData(None, config, result) /\ None \in Barriers
  BY DEF ClearMarker, Barriers
<1>3. Directory'
  BY <1>1, <1>2, DirectoryWritten, StandFacts DEF Standing
<1>4. DataTyped'
  BY <1>3, DataOf DEF ClearMarker, observers, Standing, DataTyped
<1>5. CASE ~Strict(result)
  BY <1>1, <1>3, <1>4, <1>5, StandAborts DEF ClearMarker
<1>6. CASE Strict(result)
  <2>1. Goto("commit") /\ UNCHANGED snaps /\ marker' = None /\ markerDisk' = None
    BY <1>2, <1>6 DEF ClearMarker, Strict, WriteData
  <2>2. "commit" \notin Recovers /\ "commit" \notin Selected /\ "commit" \notin Copying
    BY DEF Recovers, Selected, Copying
  <2> QED BY <1>1, <1>3, <1>4, <2>1, <2>2, StandGoes, StandFacts DEF Goto
<1> QED BY <1>5, <1>6

\* A legacy barrier is bound, or nothing is written.
LEMMA StandBinds ==
    ASSUME Standing, marker # None, NEW t \in Generations, NEW result, BindTarget(t, result)
    PROVE  Directory' /\ marker' # None /\ marker'.pin = marker.pin
<1>1. marker \in Markers /\ marker.pin \in Pins /\ config \in FileSets
  BY DEF Standing, Directory, Barriers
<1>2. Rewrites(marker, [marker EXCEPT !.target = t])
  BY <1>1, Bound
<1>3. CASE WriteData([marker EXCEPT !.target = t], config, result)
  <2> DEFINE m == [marker EXCEPT !.target = t]
  <2>1. Rewrites(marker, m) /\ WriteData(m, config, result)
    BY <1>2, <1>3
  <2> HIDE DEF m
  <2> QED BY <1>1, <2>1, DirectoryWritten DEF Standing, WriteData, Rewrites
<1>4. CASE UNCHANGED files
  BY <1>4, DirectorySame DEF Standing, files
<1> QED BY <1>3, <1>4 DEF BindTarget

\* A retry by a command.
LEMMA StandPrepareRetry ==
    ASSUME Standing, NEW result \in Results, PrepareRetry(result)
    PROVE  Standing'
<1>1. pc = "reserved" /\ marker # None /\ proc = "up" /\ phase = "ActiveArmed" /\ sel \in Selectors
  BY DEF PrepareRetry, Standing, Where, ProcTyped, Selected, Recovers
<1>2. Directory' /\ marker' # None
  <2>1. CASE UNCHANGED files
    BY <1>1, <2>1, DirectorySame DEF Standing, files
  <2>2. CASE ~UNCHANGED files
    <3>1. snaps[sel] # Gone /\ BindTarget(snaps[sel].db, result)
      BY <2>2 DEF PrepareRetry
    <3>2. snaps[sel].db \in Generations
      BY <1>1, <3>1 DEF Standing, DataTyped, Snapshots
    <3> QED BY <1>1, <3>1, <3>2, StandBinds
  <2> QED BY <2>1, <2>2
<1>3. DataTyped'
  BY <1>2, DataOf DEF PrepareRetry, observers, Standing, DataTyped
<1>4. CASE Refuse(phase)
  BY <1>1, <1>2, <1>3, <1>4, StandRefused
<1>5. CASE ~Refuse(phase)
  <2>1. /\ snaps[sel] # Gone /\ staged' = snaps[sel] /\ pc' = "publish"
        /\ UNCHANGED <<proc, phase, sel, step, snaps>>
    BY <1>5 DEF PrepareRetry
  <2>2. "publish" \in Barred /\ "publish" \in Copying /\ "publish" \notin Recovers
    BY DEF Barred, Copying, Recovers
  <2>3. staged' \in Snapshots /\ step' \in Nat
    BY <1>1, <2>1 DEF Standing, DataTyped, ProcTyped
  <2> QED BY <1>1, <1>2, <1>3, <2>1, <2>2, <2>3, StandGoes
<1> QED BY <1>4, <1>5

\* A retry by the recovery before startup.
LEMMA StandRetryTarget ==
    ASSUME Standing, NEW result \in Results, RetryTarget(result)
    PROVE  Standing'
<1>1. pc = "target" /\ pc \in Barred /\ pc \in Recovers /\ pc \in Selected
  BY DEF RetryTarget, Barred, Recovers, Selected
<1>2. proc = "starting" /\ marker # None /\ sel \in Selectors
  BY <1>1, StandFacts
<1>3. Directory' /\ marker' # None /\ marker'.pin = marker.pin
  <2>1. CASE UNCHANGED files
    BY <1>2, <2>1, DirectorySame DEF Standing, files
  <2>2. CASE ~UNCHANGED files
    <3>1. snaps[sel] # Gone /\ BindTarget(snaps[sel].db, result)
      BY <2>2 DEF RetryTarget
    <3>2. snaps[sel].db \in Generations
      BY <1>2, <3>1 DEF Standing, DataTyped, Snapshots
    <3> QED BY <1>2, <3>1, <3>2, StandBinds
  <2> QED BY <2>1, <2>2
<1>4. DataTyped'
  BY <1>3, DataOf DEF RetryTarget, observers, Standing, DataTyped
<1>5. CASE Abort
  BY <1>1, <1>3, <1>4, <1>5, StandAborts DEF RetryTarget
<1>6. CASE ~Abort
  <2>1. /\ snaps[sel] # Gone /\ staged' = snaps[sel] /\ pc' = "publish"
        /\ UNCHANGED <<proc, phase, sel, step, snaps>>
    BY <1>6 DEF RetryTarget
  <2>2. "publish" \in Barred /\ "publish" \in Copying
    BY DEF Barred, Copying
  <2>3. staged' \in Snapshots /\ snaps[marker'.pin] # Gone
    BY <1>1, <1>2, <1>3, <2>1 DEF Standing, DataTyped, Barrier
  <2> QED BY <1>1, <1>2, <1>3, <1>4, <2>1, <2>2, <2>3, StandGoes, StandFacts
<1> QED BY <1>5, <1>6

\* The recovery looks at the barrier; a false completion is reopened.
LEMMA StandRecover ==
    ASSUME Standing, NEW result \in Results, Recover(result)
    PROVE  Standing'
<1>1. pc = "recover" /\ pc \in Barred /\ pc \in Recovers
  BY DEF Recover, Barred, Recovers
<1>2. proc = "starting" /\ marker \in Markers /\ marker # None /\ marker.pin \in Pins
  BY <1>1, StandFacts
<1>3. Directory' /\ marker' # None /\ marker'.pin = marker.pin /\ marker'.source = marker.source
  <2>1. CASE UNCHANGED files
    BY <1>2, <2>1, DirectorySame DEF Standing, files
  <2>2. CASE ~UNCHANGED files
    <3> DEFINE m == [marker EXCEPT !.completed = None, !.digest = None]
    <3>1. WriteData(m, config, result)
      BY <2>2 DEF Recover
    <3>2. Rewrites(marker, m) /\ m.source = marker.source
      BY <1>2, Reopened DEF Markers
    <3> HIDE DEF m
    <3> QED BY <1>1, <1>2, <3>1, <3>2, DirectoryWritten, StandFacts DEF Rewrites, WriteData, Standing
  <2> QED BY <2>1, <2>2
<1>4. DataTyped'
  BY <1>3, DataOf DEF Recover, observers, Standing, DataTyped
<1>5. CASE Abort
  BY <1>1, <1>3, <1>4, <1>5, StandAborts DEF Recover
<1>6. CASE Goto("clear")
  <2>1. "clear" \in Barred /\ "clear" \notin Selected /\ "clear" \notin Copying
    BY DEF Barred, Selected, Copying
  <2> QED BY <1>1, <1>2, <1>3, <1>4, <1>6, <2>1, StandGoes, StandFacts DEF Goto, Recover
<1>7. CASE ~Abort /\ ~Goto("clear")
  <2>1. /\ pc' = "target" /\ sel' = marker.source /\ snaps[marker.pin] # Gone
        /\ UNCHANGED <<proc, phase, staged, step, snaps>>
    BY <1>7 DEF Recover
  <2>2. "target" \in Barred /\ "target" \notin Copying
    BY DEF Barred, Copying
  <2>3. sel' \in Selectors
    BY <1>2, <2>1 DEF Markers
  <2> QED BY <1>1, <1>2, <1>3, <1>4, <2>1, <2>2, <2>3, StandGoes, StandFacts
<1> QED BY <1>5, <1>6, <1>7

\* The recovery turns to the pin, which is there.
LEMMA StandRollBack ==
    ASSUME Standing, RollBack
    PROVE  Standing'
<1>1. pc = "rollback" /\ pc \in Barred /\ pc \in Recovers
  BY DEF RollBack, Barred, Recovers
<1>2. proc = "starting" /\ marker # None /\ marker \in Markers /\ marker.pin \in Selectors
  BY <1>1, StandFacts DEF Selectors
<1>3. Directory' /\ marker' = marker
  BY DirectorySame DEF RollBack, files, Standing
<1>4. DataTyped'
  BY <1>3, DataOf DEF RollBack, observers, Standing, DataTyped
<1>5. snaps[marker.pin] # Gone /\ snaps[marker.pin] \in Snapshots
  BY <1>1, <1>2 DEF Standing, Barrier, DataTyped
<1>6. "publish" \in Barred
  BY DEF Barred, Copying
<1> QED BY <1>1, <1>2, <1>3, <1>4, <1>5, <1>6, StandGoes, StandFacts DEF RollBack

\* A pin is taken and the others are pruned: the tree keeps its type.
LEMMA StandPin ==
    ASSUME Standing, TakePin, lastPin < MaxPins, Directory',
           UNCHANGED <<db, floor, past>>
    PROVE  DataTyped' /\ lastPin' \in Pins
<1>1. lastPin \in 0 .. MaxPins /\ Library \in Snapshots /\ snaps \in [Selectors -> Snapshots \cup {Gone}]
  BY LibraryTyped DEF Standing, DataTyped
<1>2. lastPin' \in Pins /\ lastPin' \in 0 .. MaxPins
  BY <1>1, RestoreBoundsAssumption DEF TakePin, Pins
<1>3. PICK kept : snaps' = [s \in Selectors |->
                     IF s \in Pins \ kept THEN Gone ELSE IF s = lastPin + 1 THEN Library ELSE snaps[s]]
  BY DEF TakePin
<1>4. snaps' \in [Selectors -> Snapshots \cup {Gone}]
  BY <1>1, <1>3
<1> QED BY <1>2, <1>4 DEF Standing, DataTyped, Directory, Barriers

\* A new restore takes its pin.
LEMMA StandPrepareFirst ==
    ASSUME Standing, NEW result \in Results, PrepareFirst(result)
    PROVE  Standing'
<1>1. /\ pc = "reserved" /\ proc = "up" /\ phase = "ActiveNew" /\ sel \in Selectors
      /\ marker = None /\ markerDisk = None /\ lastPin < MaxPins /\ step \in Nat
  BY DEF PrepareFirst, Standing, Where, ProcTyped, Selected, Recovers, Barrier, Equipped
<1>2. Directory' /\ marker' = None /\ markerDisk' = None
  BY <1>1, DirectorySame DEF PrepareFirst, Standing, files
<1>3. CASE Refuse(phase) /\ UNCHANGED <<snaps, lastPin>>
  <2>1. DataTyped'
    BY <1>2, <1>3, DataOf DEF PrepareFirst, observers, Standing, DataTyped
  <2> QED BY <1>1, <1>2, <1>3, <2>1, StandRefused
<1>4. CASE ~(Refuse(phase) /\ UNCHANGED <<snaps, lastPin>>)
  <2>1. /\ snaps[sel] # Gone /\ TakePin /\ staged' = snaps[sel] /\ pc' = "pinned"
        /\ UNCHANGED <<proc, phase, sel, step, db, floor, past>>
    BY <1>4 DEF PrepareFirst, observers
  <2>2. DataTyped' /\ lastPin' \in Pins
    BY <1>1, <1>2, <2>1, StandPin
  <2>3. staged' \in Snapshots
    BY <1>1, <2>1 DEF Standing, DataTyped
  <2>4. ProcTyped'
    BY <1>1, <2>1, <2>3 DEF ProcTyped, PCs
  <2>5. Where'
    BY <1>1, <2>1 DEF Where, Recovers, Bare, Barred, Selected, Copying
  <2>6. Barrier' /\ Equipped'
    BY <1>1, <1>2, <2>1, <2>2, <2>3 DEF Barrier, Equipped, Open, Bare, Barred, Copying
  <2> QED BY <1>2, <2>2, <2>4, <2>5, <2>6 DEF Standing
<1> QED BY <1>3, <1>4

\* The barrier is written; without it the command reopens, else it parks.
LEMMA StandRecordMarker ==
    ASSUME Standing, NEW result \in Results, RecordMarker(result)
    PROVE  Standing'
<1>1. /\ pc = "pinned" /\ proc = "up" /\ sel \in Selectors /\ marker = None /\ markerDisk = None
      /\ lastPin \in Pins /\ staged \in Snapshots /\ step \in Nat /\ config \in FileSets
  BY DEF RecordMarker, Standing, Where, ProcTyped, Selected, Recovers, Barrier, Equipped, DataTyped
<1> DEFINE m == [source |-> sel, pin |-> lastPin, target |-> staged.db,
                 completed |-> None, digest |-> None]
<1>2. m \in Markers /\ m.pin \in Pins /\ m # None
  BY <1>1, SnapshotsAssumption DEF Markers, Snapshots, Selectors
<1>3. WriteData(m, config, result)
  BY DEF RecordMarker
<1> HIDE DEF m
<1>4. Directory'
  BY <1>1, <1>2, <1>3, DirectoryWritten DEF Standing, Barriers
<1>5. DataTyped'
  BY <1>4, DataOf DEF RecordMarker, observers, Standing, DataTyped
<1>6. CASE ~Strict(result)
  <2>1. result = "failed" => marker' = None /\ markerDisk' = None
    BY <1>1, <1>3 DEF WriteData
  <2>2. CASE result = "failed"
    BY <1>1, <1>4, <1>5, <1>6, <2>1, <2>2, StandRefused DEF RecordMarker
  <2>3. CASE result # "failed"
    BY <1>1, <1>4, <1>5, <1>6, <2>3, StandRefused DEF RecordMarker
  <2> QED BY <2>2, <2>3
<1>7. CASE Strict(result)
  <2>1. /\ phase' = "ActiveArmed" /\ pc' = "publish" /\ UNCHANGED <<proc, sel, staged, step>>
        /\ marker' # None
    BY <1>2, <1>3, <1>7 DEF RecordMarker, Strict, WriteData
  <2>2. ProcTyped'
    BY <1>1, <2>1 DEF ProcTyped, PCs
  <2>3. Where'
    BY <1>1, <2>1 DEF Where, Recovers, Bare, Barred, Selected, Copying
  <2>4. Barrier' /\ Equipped'
    BY <1>1, <2>1 DEF Barrier, Equipped, Open, Bare, Barred, Copying
  <2> QED BY <1>4, <1>5, <2>2, <2>3, <2>4 DEF Standing
<1> QED BY <1>6, <1>7

\* A recorded completion is cleaned up, or another request refused.
LEMMA StandCleanUp ==
    ASSUME Standing, CleanUp
    PROVE  Standing'
<1>1. pc = "reserved" /\ marker # None /\ proc = "up" /\ phase = "ActiveArmed"
  BY DEF CleanUp, Standing, Where, ProcTyped, Recovers
<1>2. Directory' /\ marker' = marker
  BY DirectorySame DEF CleanUp, files, Standing
<1>3. DataTyped'
  BY <1>2, DataOf DEF CleanUp, observers, Standing, DataTyped
<1>4. CASE Refuse(phase)
  BY <1>1, <1>2, <1>3, <1>4, StandRefused
<1>5. CASE Goto("clear")
  <2>1. "clear" \in Barred /\ "clear" \notin Recovers /\ "clear" \notin Selected
        /\ "clear" \notin Copying
    BY DEF Barred, Recovers, Selected, Copying
  <2> QED BY <1>1, <1>2, <1>3, <1>5, <2>1, StandGoes DEF Goto, CleanUp, Standing, ProcTyped
<1> QED BY <1>4, <1>5 DEF CleanUp

\* A restore is over, and no barrier is left.
LEMMA StandCommit ==
    ASSUME Standing, Commit \/ BareHistory
    PROVE  Standing'
<1>1. marker = None /\ markerDisk = None
  BY DEF Commit, BareHistory, Standing, Barrier, Bare
<1>2. Directory' /\ marker' = None /\ markerDisk' = None
  BY <1>1, DirectorySame DEF Commit, BareHistory, files, Standing
<1>3. DataTyped'
  BY <1>2, DataOf DEF Commit, BareHistory, observers, Standing, DataTyped
<1>4. CASE Commit
  BY <1>2, <1>3, <1>4, StandEnds DEF Commit, Forget
<1>5. CASE BareHistory
  <2>1. Refuse(phase) /\ proc = "up"
    BY <1>5 DEF BareHistory, Standing, Where, ProcTyped, Recovers
  <2> QED BY <1>2, <1>3, <2>1, StandRefused
<1> QED BY <1>4, <1>5

\* A bare restore takes its pin.
LEMMA StandBarePin ==
    ASSUME Standing, NEW result \in Results, BarePin(result)
    PROVE  Standing'
<1>1. /\ pc = "barePin" /\ proc = "up" /\ phase = "ActiveNew" /\ staged \in Snapshots
      /\ marker = None /\ markerDisk = None /\ lastPin < MaxPins /\ step \in Nat
      /\ sel \in Selectors \cup {None}
  BY DEF BarePin, Standing, Where, ProcTyped, Bare, Recovers, Barrier, Equipped
<1>2. Directory' /\ marker' = None /\ markerDisk' = None
  BY <1>1, DirectorySame DEF BarePin, Standing, files
<1>3. CASE result # "ok"
  <2>1. DataTyped'
    BY <1>2, <1>3, DataOf DEF BarePin, observers, Standing, DataTyped
  <2> QED BY <1>1, <1>2, <1>3, <2>1, StandRefused DEF BarePin
<1>4. CASE result = "ok"
  <2>1. TakePin /\ pc' = "barePublish" /\ UNCHANGED <<proc, phase, sel, staged, step, db, floor, past>>
    BY <1>4 DEF BarePin, observers, Goto
  <2>2. DataTyped' /\ lastPin' \in Pins
    BY <1>1, <1>2, <2>1, StandPin
  <2>3. ProcTyped'
    BY <1>1, <2>1 DEF ProcTyped, PCs
  <2>4. Where'
    BY <1>1, <2>1 DEF Where, Recovers, Bare, Barred, Selected, Copying
  <2>5. Barrier' /\ Equipped'
    BY <1>1, <1>2, <2>1, <2>2 DEF Barrier, Equipped, Open, Bare, Barred, Copying
  <2> QED BY <1>2, <2>2, <2>3, <2>4, <2>5 DEF Standing
<1> QED BY <1>3, <1>4

\* A bare restore publishes without a barrier.
LEMMA StandBarePublish ==
    ASSUME Standing, NEW result \in Results, BarePublish(result)
    PROVE  Standing'
<1>1. /\ pc = "barePublish" /\ proc = "up" /\ phase = "ActiveNew" /\ staged \in Snapshots
      /\ marker = None /\ markerDisk = None /\ step \in Nat /\ config \in FileSets
      /\ sel \in Selectors \cup {None} /\ db \in Generations
  BY DEF BarePublish, Standing, Where, ProcTyped, Bare, Recovers, Barrier, Equipped, DataTyped
<1>2. None \in Barriers /\ WriteData(None, config, result)
  BY <1>1 DEF Barriers, BarePublish, CommitStaged
<1>3. Directory' /\ marker' = None /\ markerDisk' = None
  BY <1>1, <1>2, DirectoryWritten DEF Standing, WriteData
<1>4. db' \in Generations
  BY <1>1 DEF BarePublish, CommitStaged, Snapshots
<1>5. DataTyped'
  BY <1>3, <1>4, DataOf DEF BarePublish, observers, Standing
<1>6. CASE ~Strict(result)
  BY <1>1, <1>3, <1>5, <1>6, StandRefused DEF BarePublish
<1>7. CASE Strict(result)
  <2>1. pc' = "bareHistory" /\ UNCHANGED <<proc, phase, sel, staged, step>>
    BY <1>7 DEF BarePublish, Goto
  <2>2. ProcTyped'
    BY <1>1, <2>1 DEF ProcTyped, PCs
  <2>3. Where'
    BY <1>1, <2>1 DEF Where, Recovers, Bare, Barred, Selected, Copying
  <2>4. Barrier' /\ Equipped'
    BY <1>1, <1>3, <2>1 DEF Barrier, Equipped, Open, Bare, Barred, Copying
  <2> QED BY <1>3, <1>5, <2>2, <2>3, <2>4 DEF Standing
<1> QED BY <1>6, <1>7

\* The directory is taken as it is found.
LEMMA DirectoryFound ==
    ASSUME Directory, TakeAsFound
    PROVE  Directory' /\ marker' = marker /\ markerDisk' = marker
<1>1. [marker |-> markerDisk, config |-> configDisk] \in Dirs
  BY DEF Directory, Dirs
<1>2. strays' \subseteq Dirs
  BY <1>1 DEF Directory, TakeAsFound
<1> QED BY <1>2 DEF Directory, TakeAsFound

\* An open library is observed.
LEMMA StandObserved ==
    ASSUME Standing, Directory', db' \in Generations, UNCHANGED <<snaps, lastPin>>,
           floor' = IF Open THEN Library ELSE floor,
           past' = IF Open THEN past \cup {Library} ELSE past
    PROVE  DataTyped'
<1>1. Library \in Contents /\ floor \in past /\ past \subseteq Contents
  BY LibraryTyped DEF Standing, DataTyped
<1>2. floor' \in past' /\ past' \subseteq Contents
  BY <1>1
<1> QED BY <1>2 DEF Standing, DataTyped, Directory, Barriers

\* A start that finds a barrier recovers before it opens the library.
LEMMA StandStart ==
    ASSUME Standing, Start
    PROVE  Standing'
<1>1. /\ proc = "down" /\ pc = "none" /\ phase = "Idle" /\ step \in Nat
      /\ sel \in Selectors \cup {None} /\ staged \in Snapshots \cup {None}
  BY DEF Start, Standing, Where, ProcTyped
<1>2. Directory' /\ marker' = marker /\ markerDisk' = marker
  BY DirectoryFound DEF Start, Standing
<1>3. DataTyped'
  BY <1>2, DataOf DEF Start, observers, Standing, DataTyped
<1>4. /\ marker = None => proc' = "up" /\ pc' = "none" /\ phase' = "Idle"
      /\ marker # None => proc' = "starting" /\ pc' = "recover" /\ phase' = "ActiveArmed"
      /\ UNCHANGED <<sel, staged, step>>
  BY <1>1 DEF Start
<1>5. ProcTyped'
  BY <1>1, <1>4 DEF ProcTyped, PCs
<1>6. Where'
  BY <1>4 DEF Where, Recovers, Bare, Barred, Selected, Copying
<1>7. Barrier' /\ Equipped'
  BY <1>2, <1>4 DEF Barrier, Equipped, Open, Bare, Barred, Copying
<1> QED BY <1>2, <1>3, <1>5, <1>6, <1>7 DEF Standing

\* A request arms its reservation if it finds a barrier.
LEMMA StandRequestNamed ==
    ASSUME Standing, NEW s \in Selectors, RequestNamed(s)
    PROVE  Standing'
<1>1. Directory' /\ marker' = marker /\ markerDisk' = marker
  BY DirectoryFound DEF RequestNamed, Standing
<1>2. DataTyped'
  BY <1>1, StandObserved DEF RequestNamed, Observe, Standing, DataTyped
<1>3. /\ proc' = "up" /\ pc' = "reserved" /\ sel' = s /\ UNCHANGED <<staged, step>>
      /\ phase' = (IF marker # None THEN "ActiveArmed" ELSE "ActiveNew")
      /\ marker = None => lastPin' < MaxPins
  BY DEF RequestNamed
<1>4. ProcTyped'
  BY <1>3 DEF Standing, ProcTyped, PCs
<1>5. Where'
  BY <1>1, <1>3 DEF Where, Recovers, Bare, Barred, Selected, Copying
<1>6. Barrier' /\ Equipped'
  BY <1>1, <1>3 DEF Barrier, Equipped, Open, Bare, Barred, Copying
<1> QED BY <1>1, <1>2, <1>4, <1>5, <1>6 DEF Standing

\* A bare restore is admitted without a barrier only.
LEMMA StandRequestBare ==
    ASSUME Standing, NEW g \in Generations, RequestBare(g)
    PROVE  Standing'
<1>1. marker = None /\ markerDisk = None /\ proc = "up" /\ lastPin < MaxPins
  BY DEF RequestBare, Standing, Barrier, Open
<1>2. Directory' /\ marker' = None /\ markerDisk' = None
  BY <1>1, DirectorySame DEF RequestBare, files, Standing
<1>3. DataTyped'
  BY <1>2, StandObserved DEF RequestBare, Observe, Standing, DataTyped
<1>4. /\ proc' = "up" /\ pc' = "barePin" /\ phase' = "ActiveNew" /\ UNCHANGED <<sel, step, lastPin>>
      /\ staged' = [db |-> g, config |-> [f \in FileNames |-> Preserve]]
  BY <1>1 DEF RequestBare
<1>5. staged' \in Snapshots
  BY <1>4 DEF Snapshots
<1>6. ProcTyped'
  BY <1>4, <1>5 DEF Standing, ProcTyped, PCs
<1>7. Where'
  BY <1>4 DEF Where, Recovers, Bare, Barred, Selected, Copying
<1>8. Barrier' /\ Equipped'
  BY <1>1, <1>2, <1>4, <1>5 DEF Barrier, Equipped, Open, Bare, Barred, Copying
<1> QED BY <1>2, <1>3, <1>6, <1>7, <1>8 DEF Standing

\* A step of the environment that leaves the process and its barrier alone.
LEMMA StandBeside ==
    ASSUME Standing, DataTyped', Directory', UNCHANGED <<process, marker, markerDisk, lastPin>>,
           marker # None => snaps'[marker.pin] = snaps[marker.pin]
    PROVE  Standing'
<1>1. ProcTyped' /\ Where'
  BY DEF Standing, ProcTyped, Where, process
<1>2. Barrier'
  BY DEF Standing, Barrier, process, Open, Barred, Copying
<1>3. Equipped'
  BY DEF Standing, Equipped, process
<1> QED BY <1>1, <1>2, <1>3 DEF Standing

\* Ordinary work.
LEMMA StandEdit ==
    ASSUME Standing, NEW g \in Generations, Edit(g)
    PROVE  Standing'
<1>0. [marker |-> markerDisk, config |-> configDisk] \in Dirs
  BY DEF Standing, Directory, Dirs
<1>1. /\ config' \in FileSets /\ configDisk' \in FileSets /\ db' \in Generations
      /\ strays' \in {strays, {}, strays \cup {[marker |-> markerDisk, config |-> configDisk]}}
  BY DEF Edit, Standing, DataTyped, FileSets
<1>2. Directory'
  BY <1>0, <1>1 DEF Edit, Standing, Directory
<1>3. DataTyped'
  BY <1>1, <1>2, DataOf DEF Edit, observers, Standing
<1> QED BY <1>2, <1>3, StandBeside DEF Edit

\* The named snapshots change; pins are not among them.
LEMMA StandChangeSnapshot ==
    ASSUME Standing, NEW s \in Named, ChangeSnapshot(s)
    PROVE  Standing'
<1>1. Directory'
  BY DirectorySame DEF ChangeSnapshot, Standing
<1>2. PICK c \in Swapped \cup {Gone} : snaps' = [snaps EXCEPT ![s] = c]
  BY DEF ChangeSnapshot
<1>3. c \in Snapshots \cup {Gone} /\ s \in Selectors /\ s \notin Pins
  BY SnapshotsAssumption DEF Snapshots, Contents, Selectors
<1>4. snaps \in [Selectors -> Snapshots \cup {Gone}]
  BY DEF Standing, DataTyped
<1>5. snaps' \in [Selectors -> Snapshots \cup {Gone}]
  BY <1>2, <1>3, <1>4
<1>6. DataTyped'
  BY <1>1, <1>5 DEF ChangeSnapshot, observers, files, Standing, DataTyped
<1>7. ASSUME marker # None PROVE snaps'[marker.pin] = snaps[marker.pin]
  <2>1. marker.pin \in Pins /\ marker.pin \in Selectors
    BY <1>7 DEF Standing, Directory, Barriers, Selectors
  <2> QED BY <1>2, <1>3, <1>4, <2>1
<1> QED BY <1>1, <1>6, <1>7, StandBeside DEF ChangeSnapshot, files

\* The process dies.
LEMMA StandProcessEnds ==
    ASSUME Standing, ProcessEnds
    PROVE  Standing'
<1>1. Directory'
  BY DirectorySame DEF ProcessEnds, Standing
<1>2. DataTyped'
  BY <1>1, StandObserved DEF ProcessEnds, Observe, Standing, DataTyped
<1> QED BY <1>1, <1>2, StandEnds DEF ProcessEnds, Forget

\* Whatever a power loss brings back was a directory of this program.
LEMMA StandPowerLoss ==
    ASSUME Standing, PowerLoss
    PROVE  Standing'
<1>1. marker' \in Barriers
  <2>1. \A d \in strays : d.marker \in Barriers
    BY DEF Standing, Directory, Dirs
  <2> QED BY <2>1 DEF PowerLoss, Standing, Directory
<1>2. config' \in FileSets
  BY DEF PowerLoss, FileSets
<1>3. Directory'
  BY <1>1, <1>2 DEF PowerLoss, Directory
<1>4. DataTyped'
  BY <1>3, StandObserved DEF PowerLoss, Standing, DataTyped
<1> QED BY <1>3, <1>4, StandEnds DEF PowerLoss, Forget

\* It holds initially.
LEMMA StandInit == Init => Standing
<1> SUFFICES ASSUME Init PROVE Standing
  OBVIOUS
<1>1. DataTyped /\ ProcTyped /\ Where
  BY RestoreInit DEF RestoreInv
<1>2. Directory
  <2>0. \/ marker = None
        \/ MaxPins > 0 /\ \E s, c : marker = LegacyMarker(s, 1, c)
    BY Zenon DEF Init
  <2>1. marker = None \/ (marker.pin = 1 /\ MaxPins > 0)
    <3>1. \A s, c : LegacyMarker(s, 1, c).pin = 1
      BY DEF LegacyMarker
    <3> QED BY <2>0, <3>1
  <2>2. marker \in Barriers
    BY <1>1, <2>1, RestoreBoundsAssumption DEF DataTyped, Barriers, Pins
  <2> QED BY <1>1, <2>2 DEF Init, Directory, DataTyped
<1>3. Barrier /\ Equipped
  BY DEF Init, Barrier, Equipped, Open, Bare, Barred, Copying
<1> QED BY <1>1, <1>2, <1>3 DEF Standing

\* Every step keeps it.
LEMMA StandNext == Standing /\ [Next]_vars => Standing'
<1> SUFFICES ASSUME Standing, [Next]_vars PROVE Standing'
  OBVIOUS
<1>1. CASE UNCHANGED vars \/ Wait
  <2>1. UNCHANGED vars
    BY <1>1 DEF Wait
  <2>2. Directory' /\ UNCHANGED <<process, marker, markerDisk, lastPin, snaps>>
    BY <2>1, DirectorySame DEF vars, files, Standing
  <2>3. DataTyped'
    BY <2>1, <2>2, DataOf DEF vars, observers, Standing, DataTyped
  <2> QED BY <2>2, <2>3, StandBeside
<1>2. CASE Start
  BY <1>2, StandStart
<1>3. CASE Request
  BY <1>3, StandRequestNamed, StandRequestBare DEF Request
<1>4. CASE Environment
  BY <1>4, StandEdit, StandChangeSnapshot, StandProcessEnds, StandPowerLoss DEF Environment
<1>5. CASE Continue
  BY <1>5, StandCleanUp, StandPrepareFirst, StandRecordMarker, StandPrepareRetry, StandPublish,
     StandInstallFile, StandMarkCompleted, StandClearMarker, StandBarePin, StandBarePublish,
     StandRecover, StandRetryTarget, StandClearHistory, StandCommit, StandRollBack DEF Continue
<1> QED BY <1>1, <1>2, <1>3, <1>4, <1>5 DEF Next

\* So it always holds.
LEMMA StandAlways == Spec => []Standing
  BY StandInit, StandNext, PTL DEF Spec

\* Ordinary work is shut out while a barrier exists, now or after a power loss, also
\* when it is one that a power loss has brought back.
THEOREM BarrierShuts == Spec => []BarrierShutsLibrary
<1>1. Standing => BarrierShutsLibrary
  <2> SUFFICES ASSUME Standing, proc = "up", marker # None \/ markerDisk # None
               PROVE  phase \in {"ActiveArmed", "Parked"}
    BY DEF BarrierShutsLibrary
  <2>1. ~Open /\ pc \notin Bare \cup {"pinned", "commit"} /\ pc \in PCs
    BY DEF Standing, Barrier, ProcTyped
  <2>2. CASE pc = "none"
    BY <2>1, <2>2 DEF Standing, Where, Open
  <2>3. CASE pc = "reserved"
    BY <2>1, <2>3 DEF Standing, Where, Barrier
  <2>4. CASE pc \in Barred
    BY <2>4 DEF Standing, Where
  <2> QED BY <2>1, <2>2, <2>3, <2>4 DEF PCs, Barred, Copying, Bare
<1> QED BY <1>1, StandAlways, PTL

\* The files that are installed are counted, and the undo history is of some database.
Counted == step \in 0 .. Len(Files) /\ history \in {"empty", "current", "stale"}

\* An attempt that ends or goes elsewhere installs no file.
LEMMA AbortCounts ==
    ASSUME Counted, \/ Abort \/ Forget \/ step' = step \/ (\E p : Refuse(p)) \/ (\E l : Goto(l))
    PROVE  step' \in 0 .. Len(Files)
<1>1. Len(Files) \in Nat
  BY FilesAssumption
<1>2. step' = step \/ step' = 0
  BY DEF Abort, Forget, Refuse, Goto
<1> QED BY <1>1, <1>2 DEF Counted

\* Every step counts the files.
LEMMA CountedNext == Counted /\ [Next]_vars => Counted'
<1> SUFFICES ASSUME Counted, [Next]_vars PROVE Counted'
  OBVIOUS
<1>1. Len(Files) \in Nat
  BY FilesAssumption
<1>2. CASE UNCHANGED vars \/ Wait
  BY <1>2 DEF Counted, Wait, vars, process
<1>3. CASE Start
  BY <1>3 DEF Start, Counted
<1>4. CASE Request \/ Environment
  BY <1>1, <1>4 DEF Request, Environment, RequestNamed, RequestBare, Edit, ChangeSnapshot,
     ProcessEnds, PowerLoss, Forget, Counted, process
<1>5. CASE CleanUp \/ Commit \/ RollBack \/ BareHistory \/ \E c \in BOOLEAN : ClearHistory(c)
  <2>1. \/ Abort \/ Forget \/ step' \in {0, step} \/ (\E p : Refuse(p)) \/ (\E l : Goto(l))
    BY <1>5 DEF CleanUp, Commit, RollBack, BareHistory, ClearHistory
  <2>2. step' \in 0 .. Len(Files)
    BY <1>1, <2>1, AbortCounts
  <2>3. history' \in {history, "empty"}
    BY <1>5 DEF CleanUp, Commit, RollBack, BareHistory, ClearHistory
  <2> QED BY <2>2, <2>3 DEF Counted
<1>6. ASSUME NEW result \in Results, InstallFile(result) PROVE Counted'
  <2>1. (step' = step + 1 /\ step < Len(Files)) \/ Abort
    BY <1>6 DEF InstallFile
  <2>2. step' \in 0 .. Len(Files)
    BY <1>1, <2>1, AbortCounts DEF Counted
  <2> QED BY <1>6, <2>2 DEF Counted, InstallFile
<1>7. ASSUME NEW result \in Results,
             \/ PrepareFirst(result) \/ RecordMarker(result) \/ PrepareRetry(result)
             \/ Publish(result) \/ MarkCompleted(result) \/ ClearMarker(result)
             \/ BarePin(result) \/ BarePublish(result) \/ Recover(result) \/ RetryTarget(result)
      PROVE  Counted'
  <2>1. \/ Abort \/ Forget \/ step' = step \/ (\E p : Refuse(p)) \/ (\E l : Goto(l))
    BY <1>7 DEF PrepareFirst, RecordMarker, PrepareRetry, Publish, MarkCompleted, ClearMarker,
       BarePin, BarePublish, Recover, RetryTarget
  <2>2. history' \in {history, "stale"}
    BY <1>7 DEF PrepareFirst, RecordMarker, PrepareRetry, Publish, CommitStaged, MarkCompleted,
       ClearMarker, BarePin, BarePublish, Recover, RetryTarget
  <2> QED BY <2>1, <2>2, AbortCounts DEF Counted
<1> QED BY <1>2, <1>3, <1>4, <1>5, <1>6, <1>7 DEF Next, Continue

\* Every variable keeps to the values its comment gives it.
THEOREM TypesKept == Spec => []TypeOK
<1>1. Init => Counted
  BY FilesAssumption DEF Init, Counted
<1>2. ASSUME Standing, Counted, relapsed \in BOOLEAN PROVE TypeOK
  <2>1. strays \subseteq [marker : Markers \cup {None}, config : [FileNames -> Generations]]
    BY <1>2 DEF Standing, Directory, Dirs, Barriers, FileSets
  <2> QED BY <1>2, <2>1 DEF Standing, ProcTyped, DataTyped, FileSets, Counted, TypeOK
<1>3. UntilRelapse => relapsed \in BOOLEAN
  BY DEF UntilRelapse
<1> QED BY <1>1, <1>2, <1>3, CountedNext, StandAlways, RestoreAlways, PTL DEF Spec
=============================================================================
