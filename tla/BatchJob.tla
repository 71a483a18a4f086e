------------------------------ MODULE BatchJob ------------------------------
(***************************************************************************)
(* Durable batch jobs: the schema-68 journal (db/batch_jobs.rs), the       *)
(* worker that owns one run from claim to settlement                       *)
(* (commands/durable_batch.rs, commands/batch.rs, commands/ingest.rs,      *)
(* stores/batch.rs), the process-local gate and tracker (lib.rs), the      *)
(* renderer's status poll (commands/batch_status.rs) and the Undo history  *)
(* of batches (db/batch_jobs/history.rs, history/mod.rs).                  *)
(*                                                                         *)
(* A writer transaction of SQLite is one step.  The worker, the reviewers, *)
(* the Cancel control, the poll and the process interleave between them.   *)
(*                                                                         *)
(* The triggers of migration 68 repeat the rules the Rust code follows and *)
(* would refuse a header that breaks them.  They are left out, so that     *)
(* EvidenceAgrees says the code itself never asks for such a header.       *)
(***************************************************************************)
EXTENDS Naturals, Sequences, FiniteSets

CONSTANTS Segments,     \* segment ids; their order is the ordinal of an item
          Jobs,         \* batch operation ids
          Transcribes,  \* the jobs of kind batch_transcribe_v1
          Polled,       \* the jobs whose status the renderer polls
          MaxRevision,  \* bound: revision up to which others and history write
          MaxEdits,     \* bound: writes by anyone but a batch
          MaxFaults,    \* bound: failed transactions, refused spawns, panics
          MaxCrashes    \* bound: process deaths

ASSUME BatchAssumption ==
    /\ Segments \subseteq Nat \ {0} /\ IsFiniteSet(Segments) /\ Segments # {}
    /\ "none" \notin Jobs
    /\ Transcribes \subseteq Jobs /\ Polled \subseteq Jobs
    /\ MaxRevision \in Nat /\ MaxEdits \in Nat
    /\ MaxFaults \in Nat /\ MaxCrashes \in Nat

VARIABLES
    seg,      \* speech_segments: what the library holds
    jobs,     \* the jobs header and the batch_job_items_v1 ledger of each job
    gate,     \* BatchState and BatchRunTracker.active
    past,     \* BatchRunTracker.terminal
    cancel,   \* the flag of the CancellationToken in the batch slot
    run,      \* the command and then the worker that owns the gate
    undo, redo, recorded,   \* HistoryManager
    poll, answer,           \* get_batch_run_status in flight, and its reply
    up,       \* the process runs
    spent     \* the bounds used so far

journal == <<seg, jobs>>
process == <<gate, past, cancel, run>>
history == <<undo, redo, recorded>>
client  == <<poll, answer>>
vars    == <<seg, jobs, gate, past, cancel, run, undo, redo, recorded,
             poll, answer, up, spent>>

NoRun   == [op |-> "none", phase |-> "none"]
NoPoll  == [pc |-> "none", op |-> "none", seen |-> "none"]
NoReply == [op |-> "none", kind |-> "none"]
IdleRun == [pc |-> "idle", chosen |-> {}, cursor |-> 0, target |-> "none",
            code |-> "none", entered |-> FALSE, terminalized |-> FALSE,
            tokened |-> FALSE]

Terminal  == {"succeeded", "failed", "cancelled"}
NegativeItem == {"failed", "abandoned"}
Unadmitted == [state |-> "none", code |-> "none", done |-> 0,
               item   |-> [s \in Segments |-> "none"],
               before |-> [s \in Segments |-> [rev |-> 0, raw |-> "old", norm |-> FALSE]],
               after  |-> [s \in Segments |-> [rev |-> 0, raw |-> "old", norm |-> FALSE]]]

Items(j)      == {s \in Segments : jobs[j].item[s] # "none"}
InState(j, t) == {s \in Segments : jobs[j].item[s] = t}

\* What the tracker keeps of a run: its admission and, once settled, the
\* outcome with it.
Unsettled(a) == [disposition |-> a, succeeded |-> 0, abandoned |-> 0]
Settled(j)   == past[j].disposition \notin {"unknown", "rejected"}

\* The machine-owned part of a segment, with the revision that guards it.
Projection(s) == [rev |-> seg[s].rev, raw |-> seg[s].raw, norm |-> seg[s].norm]
SameText(p, q) == p.raw = q.raw /\ p.norm = q.norm

Init ==
    /\ seg = [s \in Segments |-> [live |-> TRUE, rev |-> 0, raw |-> "old",
                                  norm |-> FALSE, owned |-> FALSE]]
    /\ jobs = [j \in Jobs |-> Unadmitted]
    /\ gate = NoRun /\ past = [j \in Jobs |-> Unsettled("unknown")]
    /\ cancel = FALSE /\ run = IdleRun
    /\ undo = <<>> /\ redo = <<>> /\ recorded = {}
    /\ poll = NoPoll /\ answer = NoReply
    /\ up = TRUE
    /\ spent = [edits |-> 0, faults |-> 0, crashes |-> 0]

Fault == /\ spent.faults < MaxFaults
         /\ spent' = [spent EXCEPT !.faults = @ + 1]

-----------------------------------------------------------------------------
(* Claiming the gate and admitting the journal.                            *)

TryStart(j, chosen) ==
    /\ up /\ past[j] = Unsettled("unknown") /\ gate = NoRun
    /\ gate' = [op |-> j, phase |-> "starting"]
    /\ cancel' = FALSE
    /\ run' = [IdleRun EXCEPT !.pc = "claimed", !.chosen = chosen]
    /\ UNCHANGED <<journal, past, history, client, up, spent>>

TryStartBusy(j) ==
    /\ up /\ past[j] = Unsettled("unknown") /\ gate # NoRun /\ gate.op # j
    /\ past' = [past EXCEPT ![j] = Unsettled("rejected")]
    /\ UNCHANGED <<journal, gate, cancel, run, history, client, up, spent>>

\* ClaimedBatchStart::drop: the claim ends with no journal written.
AbortStart ==
    /\ gate' = NoRun /\ run' = IdleRun /\ cancel' = FALSE
    /\ past' = [past EXCEPT ![gate.op] = Unsettled("rejected")]
    /\ UNCHANGED <<journal, history, client, up>>

LiveJobs == {j \in Jobs : jobs[j].state = "running"}

Admissible(j) ==
    /\ jobs[j].state = "none"
    /\ LiveJobs = {}
    /\ \A s \in run.chosen : seg[s].live

AdmissionRefused ==
    /\ run.pc = "claimed" /\ (cancel \/ ~Admissible(gate.op))
    /\ AbortStart /\ UNCHANGED spent

\* The champion preflight, the generation check or the transaction fails.
AdmissionFails ==
    /\ run.pc = "claimed" /\ Fault /\ AbortStart

Admit ==
    /\ run.pc = "claimed" /\ ~cancel /\ Admissible(gate.op)
    /\ jobs' = [jobs EXCEPT ![gate.op] =
           [Unadmitted EXCEPT
              !.state  = "running",
              !.item   = [s \in Segments |-> IF s \in run.chosen THEN "pending" ELSE "none"],
              !.before = [s \in Segments |-> IF s \in run.chosen THEN Projection(s)
                                             ELSE Unadmitted.before[s]]]]
    /\ run' = [run EXCEPT !.pc = "admitted"]
    /\ UNCHANGED <<seg, gate, past, cancel, history, client, up, spent>>

Intend(t, c) == run' = [run EXCEPT !.pc = "finish", !.target = t, !.code = c]

\* mark_batch_durable_admitted, then the second commit_batch_start.
StartCommit ==
    /\ run.pc = "admitted"
    /\ gate' = [gate EXCEPT !.phase = "durable"]
    /\ IF cancel THEN Intend("cancelled", "CANCELLED")
                 ELSE run' = [run EXCEPT !.pc = "spawn"]
    /\ UNCHANGED <<journal, past, cancel, history, client, up, spent>>

Spawn ==
    /\ run.pc = "spawn"
    /\ run' = [run EXCEPT !.pc = "work", !.entered = TRUE]
    /\ UNCHANGED <<journal, gate, past, cancel, history, client, up, spent>>

SpawnRefused ==
    /\ run.pc = "spawn" /\ Fault
    /\ run' = [run EXCEPT !.pc = "drop"]
    /\ UNCHANGED <<journal, gate, past, cancel, history, client, up>>

Cancel ==
    /\ up /\ gate # NoRun /\ ~cancel
    /\ cancel' = TRUE
    /\ UNCHANGED <<journal, gate, past, run, history, client, up, spent>>

-----------------------------------------------------------------------------
(* The worker: one item at a time, in ordinal order.                       *)

After(j) == {s \in InState(j, "pending") : s > run.cursor}
NextItem(j) == CHOOSE s \in After(j) : \A t \in After(j) : s <= t

\* The cancel checks, the page read and the inference before one commit.
Pick ==
    /\ run.pc = "work"
    /\ IF cancel THEN Intend("cancelled", "CANCELLED")
       ELSE IF After(gate.op) = {} THEN Intend("succeeded", "none")
       ELSE run' = [run EXCEPT !.pc = "commit", !.cursor = NextItem(gate.op)]
    /\ UNCHANGED <<journal, gate, past, cancel, history, client, up, spent>>

WorkFails ==
    /\ run.pc \in {"work", "commit"} /\ Fault
    /\ Intend("failed", "FAILED")
    /\ UNCHANGED <<journal, gate, past, cancel, history, client, up>>

Panic ==
    /\ run.pc \in {"work", "commit"} /\ Fault
    /\ run' = [run EXCEPT !.pc = "drop"]
    /\ UNCHANGED <<journal, gate, past, cancel, history, client, up>>

\* compare_current_to_before_v1: still exactly what admission saw.
IgnoresRevision(j, s) == seg[s].live /\ ~seg[s].owned
IgnoresOwner(j, s) == seg[s].live /\ Projection(s) = jobs[j].before[s]
Unchanged(j, s) ==
    /\ seg[s].live /\ ~seg[s].owned
    /\ Projection(s) = jobs[j].before[s]

\* What the job may write: a draft comes with its normalized text when the
\* pipeline normalizes by itself.
Written(j, s) ==
    IF j \in Transcribes THEN [raw : {j}, norm : BOOLEAN]
    ELSE [raw : {seg[s].raw}, norm : {TRUE}]

NoOp(j, s) == j \notin Transcribes /\ seg[s].norm

\* require_batch_not_hard_stopped_v1.
NotHardStopped(j) == \A s \in Segments : jobs[j].item[s] \notin NegativeItem

SettleItem(j, s, t) ==
    jobs' = [jobs EXCEPT ![j].item[s] = t, ![j].done = @ + 1]

CommitSkips ==
    LET j == gate.op  s == run.cursor
    IN /\ run.pc = "commit" /\ NotHardStopped(j)
       /\ ~Unchanged(j, s) \/ NoOp(j, s)
       /\ SettleItem(j, s, "skipped")
       /\ run' = [run EXCEPT !.pc = "work"]
       /\ UNCHANGED <<seg, gate, past, cancel, history, client, up, spent>>

CommitApplies ==
    LET j == gate.op  s == run.cursor
    IN /\ run.pc = "commit" /\ NotHardStopped(j)
       /\ Unchanged(j, s) /\ ~NoOp(j, s)
       /\ \E w \in Written(j, s) :
            /\ seg' = [seg EXCEPT ![s].raw = w.raw, ![s].norm = w.norm, ![s].rev = @ + 1]
            /\ jobs' = [jobs EXCEPT
                 ![j].item[s]  = "applied", ![j].done = @ + 1,
                 ![j].after[s] = [rev |-> seg[s].rev + 1, raw |-> w.raw, norm |-> w.norm]]
       /\ run' = [run EXCEPT !.pc = "work"]
       /\ UNCHANGED <<gate, past, cancel, history, client, up, spent>>

\* The champion changed since the draft: the item fails, and so the job.
CommitFails ==
    LET j == gate.op  s == run.cursor
    IN /\ run.pc = "commit" /\ j \in Transcribes /\ Fault
       /\ NotHardStopped(j) /\ Unchanged(j, s)
       /\ SettleItem(j, s, "failed")
       /\ Intend("failed", "MODEL_CHANGED")
       /\ UNCHANGED <<seg, gate, past, cancel, history, client, up>>

-----------------------------------------------------------------------------
(* Terminalization from the item evidence.                                 *)

\* finish_batch_job_v1 abandons what is pending, and a stop that prevented
\* nothing becomes a success.
AsRequested(abandoned, failed, t) == t
FinalState(abandoned, failed, t) ==
    IF abandoned = {} /\ failed = {} THEN "succeeded" ELSE t

Finished(j, t, c) ==
    LET pending == InState(j, "pending")
        state   == FinalState(pending \cup InState(j, "abandoned"), InState(j, "failed"), t)
    IN [jobs[j] EXCEPT !.state = state,
                       !.code  = IF state = "succeeded" THEN "none" ELSE c,
                       !.done  = Cardinality(Items(j)),
                       !.item  = [s \in Segments |-> IF s \in pending THEN "abandoned" ELSE @[s]]]

FinishAllowed(j, t) ==
    /\ jobs[j].state = "running"
    /\ t = "succeeded" => InState(j, "pending") = {}
    /\ t = "cancelled" => InState(j, "failed") = {}

DropCode == IF run.entered THEN "PANICKED" ELSE "START_FAILED"

Finish ==
    /\ run.pc = "finish" /\ FinishAllowed(gate.op, run.target)
    /\ jobs' = [jobs EXCEPT ![gate.op] = Finished(gate.op, run.target, run.code)]
    /\ run' = [run EXCEPT !.pc = "record", !.terminalized = TRUE]
    /\ UNCHANGED <<seg, gate, past, cancel, history, client, up, spent>>

FinishFails ==
    /\ run.pc = "finish" /\ Fault
    /\ run' = [run EXCEPT !.pc = "drop"]
    /\ UNCHANGED <<journal, gate, past, cancel, history, client, up>>

\* batch_job_history_token_v1: an endpoint per applied item, refused when a
\* segment has moved on since.
AnyEndpoint(j, s) == TRUE
AtEndpoint(j, s) == seg[s].live /\ Projection(s) = jobs[j].after[s]

TokenConflict(j) == \E s \in InState(j, "applied") : ~AtEndpoint(j, s)

Token(j) ==
    [op |-> j, side |-> "after",
     at |-> [s \in Segments |-> IF s \in InState(j, "applied") THEN seg[s].rev ELSE 0]]

\* record_batch_token: once per operation id, and a new command ends Redo.
Remember(j, stack) ==
    IF InState(j, "applied") = {} \/ j \in recorded
    THEN UNCHANGED history
    ELSE /\ undo' = Append(stack, Token(j)) /\ redo' = <<>>
         /\ recorded' = recorded \cup {j}

Record ==
    /\ run.pc = "record"
    /\ run' = [run EXCEPT !.pc = "drop", !.tokened = ~TokenConflict(gate.op)]
    /\ IF TokenConflict(gate.op) THEN UNCHANGED history ELSE Remember(gate.op, undo)
    /\ UNCHANGED <<journal, gate, past, cancel, client, up, spent>>

RecordFails ==
    /\ run.pc = "record" /\ Fault
    /\ run' = [run EXCEPT !.pc = "drop"]
    /\ UNCHANGED <<journal, gate, past, cancel, history, client, up>>

-----------------------------------------------------------------------------
(* DurableBatchWorkerGuard::drop.                                          *)

DropTerminal ==
    /\ run.pc = "drop"
    /\ jobs' = IF run.terminalized THEN jobs
               ELSE [jobs EXCEPT ![gate.op] = Finished(gate.op, "failed", DropCode)]
    /\ run' = [run EXCEPT !.pc = "dropRecord", !.terminalized = TRUE]
    /\ UNCHANGED <<seg, gate, past, cancel, history, client, up, spent>>

DropTerminalFails ==
    /\ run.pc = "drop" /\ ~run.terminalized /\ Fault
    /\ run' = [run EXCEPT !.pc = "lease"]
    /\ UNCHANGED <<journal, gate, past, cancel, history, client, up>>

\* Without undo authority the gate is not released.
SettlesAnyway(ok) == "settle"
AfterToken(ok) == IF ok THEN "settle" ELSE "lease"

DropRecord ==
    /\ run.pc = "dropRecord"
    /\ LET ok == run.tokened \/ ~TokenConflict(gate.op)
       IN /\ run' = [run EXCEPT !.pc = AfterToken(ok)]
          /\ IF ok /\ ~run.tokened THEN Remember(gate.op, undo) ELSE UNCHANGED history
    /\ UNCHANGED <<journal, gate, past, cancel, client, up, spent>>

DropRecordFails ==
    /\ run.pc = "dropRecord" /\ ~run.tokened /\ Fault
    /\ run' = [run EXCEPT !.pc = AfterToken(FALSE)]
    /\ UNCHANGED <<journal, gate, past, cancel, history, client, up>>

\* BatchExecutionLease::drop tries once more; the gate stays shut.
LeaseDrop ==
    /\ run.pc = "lease"
    /\ \/ /\ UNCHANGED spent
          /\ jobs' = IF run.terminalized THEN jobs
                     ELSE [jobs EXCEPT ![gate.op] = Finished(gate.op, "failed", DropCode)]
       \/ ~run.terminalized /\ Fault /\ UNCHANGED jobs
    /\ run' = [IdleRun EXCEPT !.pc = "gone"]
    /\ UNCHANGED <<seg, gate, past, cancel, history, client, up>>

\* durable_batch_outcome.
Disposition(h) ==
    CASE h.state = "succeeded" -> "completed"
      [] h.state = "cancelled" -> "cancelled"
      [] h.state = "failed" /\ h.code = "PANICKED" -> "panicked"
      [] OTHER -> "halted"

Outcome(j) == [disposition |-> Disposition(jobs[j]),
               succeeded   |-> Cardinality(InState(j, "applied")),
               abandoned   |-> Cardinality(InState(j, "abandoned"))]
PanickedOutcome(j) == [disposition |-> "panicked", succeeded |-> 0,
                       abandoned |-> Cardinality(Items(j))]
SettledOutcome(j) == Outcome(j)

\* prepare_process_settlement, the lease released, finish_batch_for_run.
Settle ==
    /\ run.pc = "settle"
    /\ past' = [past EXCEPT ![gate.op] = SettledOutcome(gate.op)]
    /\ gate' = NoRun /\ cancel' = FALSE /\ run' = IdleRun
    /\ UNCHANGED <<journal, history, client, up, spent>>

-----------------------------------------------------------------------------
(* Undo and Redo of a batch: every endpoint exact, or nothing happens.     *)

Covered(t) == InState(t.op, "applied")
Source(t, s) == IF t.side = "after" THEN jobs[t.op].after[s] ELSE jobs[t.op].before[s]
Target(t, s) == IF t.side = "after" THEN jobs[t.op].before[s] ELSE jobs[t.op].after[s]

TextOnly(t, s) == seg[s].live /\ SameText(Projection(s), Source(t, s))
EndpointHolds(t, s) ==
    /\ seg[s].live /\ seg[s].rev = t.at[s]
    /\ SameText(Projection(s), Source(t, s))

\* The database writes of apply_batch_job_history_v1, and its next token.
Toggled(t) ==
    [s \in Segments |-> IF s \in Covered(t)
        THEN [seg[s] EXCEPT !.raw = Target(t, s).raw, !.norm = Target(t, s).norm, !.rev = @ + 1]
        ELSE seg[s]]
NextToken(t) ==
    [op |-> t.op, side |-> IF t.side = "after" THEN "before" ELSE "after",
     at |-> [s \in Segments |-> IF s \in Covered(t) THEN seg[s].rev + 1 ELSE 0]]

Top(stack) == stack[Len(stack)]
Pop(stack) == SubSeq(stack, 1, Len(stack) - 1)

ApplyHistory(t) ==
    /\ up /\ LiveJobs = {}
    /\ \A s \in Covered(t) : EndpointHolds(t, s) /\ seg[s].rev < MaxRevision
    /\ seg' = Toggled(t)

Undo ==
    /\ undo # <<>> /\ ApplyHistory(Top(undo))
    /\ undo' = Pop(undo) /\ redo' = Append(redo, NextToken(Top(undo)))
    /\ UNCHANGED <<jobs, process, recorded, client, up, spent>>

Redo ==
    /\ redo # <<>> /\ ApplyHistory(Top(redo))
    /\ redo' = Pop(redo) /\ undo' = Append(undo, NextToken(Top(redo)))
    /\ UNCHANGED <<jobs, process, recorded, client, up, spent>>

-----------------------------------------------------------------------------
(* Everyone else who writes a segment; each write advances its revision.   *)

Edit(s, new) ==
    /\ up /\ seg[s].live /\ seg[s].rev < MaxRevision /\ spent.edits < MaxEdits
    /\ seg' = [seg EXCEPT ![s] = [new EXCEPT !.rev = @ + 1]]
    /\ spent' = [spent EXCEPT !.edits = @ + 1]
    /\ UNCHANGED <<jobs, process, history, client, up>>

Decide(s)  == ~seg[s].owned /\ Edit(s, [seg[s] EXCEPT !.owned = TRUE])
Reopen(s)  == seg[s].owned  /\ Edit(s, [seg[s] EXCEPT !.owned = FALSE])
Rewrite(s) == ~seg[s].owned /\ Edit(s, [seg[s] EXCEPT !.raw = "other", !.norm = FALSE])
Delete(s)  == ~seg[s].owned /\ Edit(s, [seg[s] EXCEPT !.live = FALSE])

-----------------------------------------------------------------------------
(* get_batch_run_status: the journal first, then the tracker, each read    *)
(* under its own lock.                                                     *)

Reply(k) == /\ answer' = [op |-> poll.op, kind |-> k] /\ poll' = NoPoll
Look(pc, seen) == /\ poll' = [poll EXCEPT !.pc = pc, !.seen = seen] /\ UNCHANGED answer

PollStart(j) ==
    /\ up /\ poll = NoPoll
    /\ poll' = [pc |-> IF jobs[j].state = "none" THEN "tracker" ELSE "publish",
                op |-> j, seen |-> jobs[j].state]
    /\ UNCHANGED <<journal, process, history, answer, up, spent>>

\* The journal had no such job.
PollTracker ==
    /\ poll.pc = "tracker"
    /\ CASE gate.op = poll.op -> Look("starting", "none")
         [] gate.op # poll.op /\ past[poll.op] = Unsettled("unknown")  -> Reply("unknown")
         [] gate.op # poll.op /\ past[poll.op] = Unsettled("rejected") -> Reply("rejected")
         [] gate.op # poll.op /\ Settled(poll.op)           -> Reply("invalid")
    /\ UNCHANGED <<journal, process, history, up, spent>>

PollStarting ==
    /\ poll.pc = "starting"
    /\ IF gate = [op |-> poll.op, phase |-> "starting"] THEN Reply("starting")
                                                        ELSE Look("reread", "none")
    /\ UNCHANGED <<journal, process, history, up, spent>>

PollReread ==
    /\ poll.pc = "reread"
    /\ IF jobs[poll.op].state = "none" THEN Reply("invalid")
                                       ELSE Look("publish", jobs[poll.op].state)
    /\ UNCHANGED <<journal, process, history, up, spent>>

\* publishable_durable_batch_status: the physical gate outranks the header.
HeaderOnly(seen) == IF seen \in Terminal THEN "settled" ELSE "running"
WhileGated(seen) == "running"

PollPublish ==
    /\ poll.pc = "publish"
    /\ CASE gate.op = poll.op -> Reply(WhileGated(poll.seen))
         [] gate.op # poll.op /\ Settled(poll.op) ->
              IF poll.seen \in Terminal
              THEN Reply(IF past[poll.op] = Outcome(poll.op) THEN "settled" ELSE "invalid")
              ELSE Look("refresh", "none")
         [] gate.op # poll.op /\ ~Settled(poll.op) ->
              Reply(IF poll.seen \in Terminal THEN "settled" ELSE "invalid")
    /\ UNCHANGED <<journal, process, history, up, spent>>

PollRefresh ==
    /\ poll.pc = "refresh"
    /\ Reply(IF jobs[poll.op].state \in Terminal /\ past[poll.op] = Outcome(poll.op)
             THEN "settled" ELSE "invalid")
    /\ UNCHANGED <<journal, process, history, up, spent>>

-----------------------------------------------------------------------------
(* Process death, and the reconciliation of the next start.                *)

Crash ==
    /\ up /\ spent.crashes < MaxCrashes
    /\ up' = FALSE /\ spent' = [spent EXCEPT !.crashes = @ + 1]
    /\ gate' = NoRun /\ past' = [j \in Jobs |-> Unsettled("unknown")]
    /\ cancel' = FALSE /\ run' = IdleRun
    /\ undo' = <<>> /\ redo' = <<>> /\ recorded' = {}
    /\ poll' = NoPoll /\ answer' = NoReply
    /\ UNCHANGED journal

\* recover_active_batch_job_v1: the first failed item names the failure.
RecoveredCode(j) ==
    IF InState(j, "failed") # {} THEN "MODEL_CHANGED" ELSE "INTERRUPTED"
NoLeftovers == {}
Leftovers == LiveJobs

\* The app refuses to start when the undo authority of the recovered effects
\* cannot be bound; the journal is reconciled by then.
Start ==
    /\ ~up
    /\ IF Leftovers = {}
       THEN /\ up' = TRUE /\ UNCHANGED <<jobs, history>>
       ELSE LET j == CHOOSE k \in Leftovers : TRUE
            IN /\ jobs' = [jobs EXCEPT ![j] = Finished(j, "failed", RecoveredCode(j))]
               /\ up' = ~TokenConflict(j)
               /\ IF TokenConflict(j) THEN UNCHANGED history ELSE Remember(j, <<>>)
    /\ UNCHANGED <<seg, process, client, spent>>

-----------------------------------------------------------------------------
Worker ==
    \/ AdmissionRefused \/ AdmissionFails \/ Admit \/ StartCommit
    \/ Spawn \/ SpawnRefused \/ Pick \/ WorkFails \/ Panic
    \/ CommitSkips \/ CommitApplies \/ CommitFails
    \/ Finish \/ FinishFails \/ Record \/ RecordFails
    \/ DropTerminal \/ DropTerminalFails \/ DropRecord \/ DropRecordFails
    \/ LeaseDrop \/ Settle

Poll == PollTracker \/ PollStarting \/ PollReread \/ PollPublish \/ PollRefresh

Next ==
    \/ \E j \in Jobs : \/ \E chosen \in SUBSET Segments \ {{}} : TryStart(j, chosen)
                       \/ TryStartBusy(j)
    \/ \E j \in Polled : PollStart(j)
    \/ Worker \/ Cancel \/ Undo \/ Redo \/ Poll
    \/ \E s \in Segments : Decide(s) \/ Reopen(s) \/ Rewrite(s) \/ Delete(s)
    \/ Crash \/ Start

Spec == Init /\ [][Next]_vars

\* A thread that can run keeps running, and a closed app is opened again.
FairSpec == Spec /\ WF_vars(Worker) /\ WF_vars(Start)

-----------------------------------------------------------------------------
(* Properties.                                                             *)

Projections == [rev : Nat, raw : {"old", "other"} \cup Jobs, norm : BOOLEAN]
ItemStates == {"none", "pending", "applied", "skipped", "failed", "abandoned"}
Tokens(side) == [op : Jobs, side : {side}, at : [Segments -> Nat]]

\* Types.  A command on the Undo stack waits at the after-effect side of its
\* batch and one on the Redo stack at the before-effect side, which is what
\* apply_undo and apply_redo refuse to do without.
TypeOK ==
    /\ seg \in [Segments -> [live : BOOLEAN, rev : Nat, raw : {"old", "other"} \cup Jobs,
                             norm : BOOLEAN, owned : BOOLEAN]]
    /\ \A j \in Jobs :
         /\ jobs[j].state \in {"none", "running"} \cup Terminal
         /\ jobs[j].done \in 0..Cardinality(Segments)
         /\ jobs[j].item \in [Segments -> ItemStates]
         /\ jobs[j].before \in [Segments -> Projections]
         /\ jobs[j].after \in [Segments -> Projections]
    /\ gate.op \in Jobs \cup {"none"}
    /\ gate.phase \in {"none", "starting", "durable"}
    /\ run.chosen \subseteq Segments /\ run.cursor \in Segments \cup {0}
    /\ cancel \in BOOLEAN /\ up \in BOOLEAN /\ recorded \subseteq Jobs
    /\ \A i \in 1..Len(undo) : undo[i] \in Tokens("after")
    /\ \A i \in 1..Len(redo) : redo[i] \in Tokens("before")

\* The header always agrees with its items, the rules status_from_header_on
\* enforces on every read: progress counts the settled items, a success has
\* no pending or negative item, a failure has a negative one, and a
\* cancellation prevented something and hides no failure.  Cancel, panic,
\* fault and crash may arrive at any moment of the run.
EvidenceAgrees ==
    \A j \in Jobs :
        LET h == jobs[j]
            bad == InState(j, "failed") \cup InState(j, "abandoned")
        IN /\ h.done = Cardinality(Items(j) \ InState(j, "pending"))
           /\ h.state \in Terminal => InState(j, "pending") = {}
           /\ h.state = "succeeded" => bad = {} /\ h.code = "none"
           /\ h.state = "failed"    => bad # {} /\ h.code # "none"
           /\ h.state = "cancelled" => InState(j, "failed") = {} /\ bad # {} /\ h.code # "none"

\* Neither a batch, however long after its admission it commits, nor an Undo
\* or Redo of one ever changes the machine text under a human decision
\* (compare_current_to_before_v1, prepare_batch_history_item_v1).
HumanWorkKept ==
    [][\A s \in Segments : seg[s].owned /\ seg'[s].owned =>
          SameText(seg[s], seg'[s])]_vars

\* A batch writes over nothing that was written since its admission: what it
\* replaces is what its journal calls the before projection, so its Undo
\* brings back the text that really was there.
ReplacesWhatItSaw ==
    [][\A j \in Jobs, s \in Segments :
          jobs'[j].item[s] = "applied" /\ jobs[j].item[s] # "applied" =>
              /\ SameText(seg[s], jobs[j].before[s])
              /\ SameText(seg'[s], jobs'[j].after[s])]_vars

\* A command of the history whose revision is still current stands on the
\* very text its journal endpoint names, and on no human decision: whatever
\* Undo or Redo is allowed to replace is the batch's own work.
TokensOwnTheirText ==
    \A t \in {undo[i] : i \in 1..Len(undo)} \cup {redo[i] : i \in 1..Len(redo)} :
        \A s \in Covered(t) :
            seg[s].live /\ seg[s].rev = t.at[s] =>
                SameText(Projection(s), Source(t, s)) /\ ~seg[s].owned

\* "Durable terminal truth and exact undo authority must both exist before
\* the process-local gate is reopened" (DurableBatchWorkerGuard): the outcome
\* kept for a settled run is the journal's, and its effects are on record.
SettledIsProved ==
    \A j \in Jobs : Settled(j) =>
        /\ jobs[j].state \in Terminal /\ past[j] = Outcome(j)
        /\ InState(j, "applied") # {} => j \in recorded

\* The renderer is told that a run settled only when its gate is open again,
\* whatever the journal said when the poll began.
SettledAnswerIsFinal ==
    [][answer' # answer /\ answer'.kind = "settled" =>
          /\ gate.op # answer'.op
          /\ jobs[answer'.op].state \in Terminal]_vars

\* Every admitted job ends: by its worker, by the guard that drops, by the
\* lease, or by the next start of the app.  Only when all three of the
\* process fail to write the journal is it left running, behind a shut gate,
\* for that next start.
JobsEnd ==
    \A j \in Jobs :
        jobs[j].state = "running" ~> jobs[j].state # "running" \/ run.pc = "gone"
=============================================================================
