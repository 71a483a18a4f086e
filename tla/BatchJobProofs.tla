--------------------------- MODULE BatchJobProofs ---------------------------
(***************************************************************************)
(* Theorems about BatchJob, for any set of jobs and any finite set of      *)
(* segments: the header of a job agrees with its items, a settled run is   *)
(* proved by the journal and has its undo authority, the renderer is told  *)
(* the truth about it, and neither a batch nor its Undo or Redo replaces   *)
(* anything but the batch's own work.                                      *)
(***************************************************************************)
EXTENDS BatchJob, FiniteSetTheorems, SequenceTheorems, TLAPS

-----------------------------------------------------------------------------
(* Types.                                                                  *)

SegmentRows == [live : BOOLEAN, rev : Nat, raw : {"old", "other"} \cup Jobs,
                norm : BOOLEAN, owned : BOOLEAN]

States == {"none", "running"} \cup Terminal

Codes == {"none", "CANCELLED", "FAILED", "MODEL_CHANGED", "PANICKED", "START_FAILED",
          "INTERRUPTED"}

JobRows == [state : States, code : Codes, done : Nat, item : [Segments -> ItemStates],
            before : [Segments -> Projections], after : [Segments -> Projections]]

RunPCs == {"idle", "claimed", "admitted", "spawn", "work", "commit", "finish", "record",
           "drop", "dropRecord", "lease", "settle", "gone"}

Runs == [pc : RunPCs, chosen : SUBSET Segments, cursor : Segments \cup {0},
         target : Terminal \cup {"none"}, code : Codes, entered : BOOLEAN,
         terminalized : BOOLEAN, tokened : BOOLEAN]

Gates == [op : Jobs \cup {"none"}, phase : {"none", "starting", "durable"}]

Polls == [pc : {"none", "tracker", "starting", "reread", "publish", "refresh"},
          op : Jobs \cup {"none"}, seen : States]

SegTyped  == seg \in [Segments -> SegmentRows]
JobsTyped == jobs \in [Jobs -> JobRows]
PastTyped == DOMAIN past = Jobs
             /\ \A j \in Jobs : Settled(j) \/ past[j] \in {Unsettled("unknown"), Unsettled("rejected")}
RunTyped  == run \in Runs /\ gate \in Gates /\ PastTyped
HistTyped == undo \in Seq(Tokens("after")) /\ redo \in Seq(Tokens("before"))
             /\ recorded \subseteq Jobs
PollTyped == poll \in Polls /\ DOMAIN answer = {"op", "kind"}
             /\ (poll.pc # "none" => poll.op \in Jobs)
FlagTyped == cancel \in BOOLEAN /\ up \in BOOLEAN

Typed == SegTyped /\ JobsTyped /\ RunTyped /\ HistTyped /\ PollTyped /\ FlagTyped

\* Where the command and its worker stand.
Working == {"admitted", "spawn", "work", "commit", "finish"}

\* The gate, the tracker and the run belong together.
Control ==
    /\ run.pc = "idle" => gate = NoRun
    /\ run.pc # "idle" => gate.op \in Jobs /\ past[gate.op] = Unsettled("unknown")
    /\ ~up => run.pc = "idle" /\ \A j \in Jobs : past[j] = Unsettled("unknown")
    /\ run.pc = "commit" => run.cursor \in Segments
                            /\ jobs[gate.op].item[run.cursor] = "pending"

\* What the journal says of the job that the worker owns.
OwnJob ==
    /\ run.pc = "claimed" => ~run.terminalized /\ ~run.tokened
    /\ run.pc \in Working => jobs[gate.op].state = "running" /\ ~run.terminalized
    /\ run.pc \in {"record", "dropRecord", "settle"} =>
         jobs[gate.op].state \in Terminal /\ run.terminalized
    /\ run.pc \in {"drop", "lease"} =>
         \/ run.terminalized /\ jobs[gate.op].state \in Terminal
         \/ ~run.terminalized /\ jobs[gate.op].state = "running"
    /\ run.pc # "idle" /\ run.tokened => jobs[gate.op].state \in Terminal

\* The items of a row.
ItemsOf(r) == {s \in Segments : r.item[s] # "none"}
InItem(r, t) == {s \in Segments : r.item[s] = t}

\* The rules of status_from_header_on for one row, and what a row that is not
\* terminal yet looks like.
RowAgrees(r) ==
    LET bad == InItem(r, "failed") \cup InItem(r, "abandoned")
    IN /\ r.done = Cardinality(ItemsOf(r) \ InItem(r, "pending"))
       /\ r.state \in Terminal => InItem(r, "pending") = {}
       /\ r.state = "succeeded" => bad = {} /\ r.code = "none"
       /\ r.state = "failed"    => bad # {} /\ r.code # "none"
       /\ r.state = "cancelled" => InItem(r, "failed") = {} /\ bad # {} /\ r.code # "none"
       /\ r.state = "running"   => InItem(r, "abandoned") = {}
       /\ r.state = "none"      => ItemsOf(r) = {}

\* What the worker asks for is what it has seen.
Intent ==
    /\ run.pc \in Working \ {"finish"} => InItem(jobs[gate.op], "failed") = {}
    /\ run.pc = "finish" =>
         /\ run.target \in Terminal
         /\ run.target # "failed" => InItem(jobs[gate.op], "failed") = {}
         /\ run.target # "succeeded" => run.code # "none"

Evidence == \A j \in Jobs : RowAgrees(jobs[j])

JobInv == Typed /\ Control /\ OwnJob /\ Evidence /\ Intent

-----------------------------------------------------------------------------
(* Rows.                                                                   *)

\* A row is replaced, and the others are not.
LEMMA PutRow ==
    ASSUME JobsTyped, NEW j \in Jobs, NEW r \in JobRows, jobs' = [jobs EXCEPT ![j] = r]
    PROVE  JobsTyped' /\ jobs'[j] = r /\ \A k \in Jobs : k # j => jobs'[k] = jobs[k]
  BY DEF JobsTyped

\* One item of a row is settled.
SettledRow(r, s, t, p) ==
    [r EXCEPT !.item = [r.item EXCEPT ![s] = t], !.done = r.done + 1, !.after = p]

\* A row with one more item settled counts it.
LEMMA SettledRowAgrees ==
    ASSUME NEW r \in JobRows, NEW s \in Segments, NEW t \in {"applied", "skipped", "failed"},
           NEW p \in [Segments -> Projections],
           RowAgrees(r), r.state = "running", r.item[s] = "pending"
    PROVE  LET q == SettledRow(r, s, t, p)
           IN  /\ q \in JobRows /\ RowAgrees(q) /\ q.state = "running"
               /\ \A u \in Segments : q.item[u] = IF u = s THEN t ELSE r.item[u]
               /\ q.before = r.before /\ q.after = p
<1> DEFINE q == SettledRow(r, s, t, p)
           done == ItemsOf(r) \ InItem(r, "pending")
<1>1. /\ q.item = [r.item EXCEPT ![s] = t] /\ q.done = r.done + 1 /\ q.state = "running"
      /\ q.before = r.before /\ q.after = p /\ q.code = r.code /\ q \in JobRows
  <2> DEFINE item == [r.item EXCEPT ![s] = t]
  <2>1. item \in [Segments -> ItemStates] /\ r.done + 1 \in Nat
    BY DEF JobRows, ItemStates
  <2>2. q = [r EXCEPT !.item = item, !.done = r.done + 1, !.after = p]
    BY DEF SettledRow
  <2> HIDE DEF item, q
  <2>3. q.item = item
    BY <2>2 DEF JobRows
  <2>4. /\ q.done = r.done + 1 /\ q.state = "running" /\ q.before = r.before /\ q.after = p
        /\ q.code = r.code /\ q \in JobRows
    BY <2>1, <2>2 DEF JobRows
  <2> QED BY <2>3, <2>4 DEF item
<1> HIDE DEF q
<1>2. \A u \in Segments : q.item[u] = IF u = s THEN t ELSE r.item[u]
  BY <1>1 DEF JobRows
<1>3. /\ ItemsOf(q) \ InItem(q, "pending") = done \cup {s} /\ s \notin done
      /\ InItem(q, "abandoned") = {}
  BY <1>2 DEF ItemsOf, InItem, RowAgrees
<1>4. IsFiniteSet(done)
  BY BatchAssumption, FS_Subset DEF ItemsOf
<1>5. Cardinality(done \cup {s}) = Cardinality(done) + 1
  BY <1>3, <1>4, FS_AddElement
<1>6. RowAgrees(q)
  BY <1>1, <1>3, <1>5 DEF RowAgrees, Terminal
<1> QED BY <1>1, <1>2, <1>6 DEF q

\* A row is finished: what was pending is abandoned, and a stop that prevented
\* nothing is a success.
LEMMA FinishedAgrees ==
    ASSUME JobsTyped, Evidence, NEW j \in Jobs, NEW t \in Terminal, NEW c \in Codes,
           jobs[j].state = "running",
           t # "succeeded" => c # "none",
           t = "succeeded" => InState(j, "pending") = {},
           t # "failed" => InState(j, "failed") = {}
    PROVE  LET q == Finished(j, t, c)
           IN  /\ q \in JobRows /\ RowAgrees(q) /\ q.state \in Terminal
               /\ \A s \in Segments :
                    q.item[s] = IF jobs[j].item[s] = "pending" THEN "abandoned" ELSE jobs[j].item[s]
               /\ q.before = jobs[j].before /\ q.after = jobs[j].after
<1> DEFINE q == Finished(j, t, c)
           pending == InState(j, "pending")
           state == FinalState(pending \cup InState(j, "abandoned"), InState(j, "failed"), t)
           item == [s \in Segments |-> IF s \in pending THEN "abandoned" ELSE jobs[j].item[s]]
           code == IF state = "succeeded" THEN "none" ELSE c
           n == Cardinality(Items(j))
<1>1. jobs[j] \in JobRows /\ RowAgrees(jobs[j])
  BY DEF JobsTyped, Evidence
<1>2. q = [jobs[j] EXCEPT !.state = state, !.code = code, !.done = n, !.item = item]
  BY DEF Finished
<1>3. state \in {t, "succeeded"} /\ code \in Codes /\ item \in [Segments -> ItemStates]
  BY <1>1 DEF FinalState, Codes, JobRows, ItemStates, InState
<1>4. n \in Nat
  BY BatchAssumption, FS_Subset, FS_CardinalityType DEF Items
<1> HIDE DEF q, state, code, n
<1>5. /\ q \in JobRows /\ q.state = state /\ q.code = code /\ q.done = n /\ q.item = item
      /\ q.before = jobs[j].before /\ q.after = jobs[j].after
  <2> HIDE DEF item
  <2> QED BY <1>1, <1>2, <1>3, <1>4 DEF JobRows, States, Terminal
<1>6. \A s \in Segments :
        q.item[s] = IF jobs[j].item[s] = "pending" THEN "abandoned" ELSE jobs[j].item[s]
  BY <1>5 DEF InState
<1>7. /\ InItem(q, "pending") = {} /\ ItemsOf(q) = Items(j)
      /\ InItem(q, "failed") = InState(j, "failed")
      /\ InItem(q, "abandoned") = pending \cup InState(j, "abandoned")
  BY <1>6 DEF InItem, ItemsOf, InState, Items
<1>8. q.done = Cardinality(ItemsOf(q) \ InItem(q, "pending"))
  <2>1. ItemsOf(q) \ InItem(q, "pending") = Items(j)
    BY <1>7
  <2> QED BY <1>5, <2>1 DEF n
<1>9. q.state = (IF InItem(q, "abandoned") = {} /\ InItem(q, "failed") = {}
                 THEN "succeeded" ELSE t)
  BY <1>5, <1>7 DEF state, FinalState
<1>10. InState(j, "abandoned") = {}
  BY <1>1 DEF RowAgrees, InItem, InState
<1>11. RowAgrees(q)
  BY <1>3, <1>5, <1>7, <1>8, <1>9, <1>10 DEF RowAgrees, Terminal, code
<1> QED BY <1>3, <1>5, <1>6, <1>11 DEF q, Terminal

-----------------------------------------------------------------------------
(* Who writes what.                                                        *)

JournalStep ==
    \/ Admit \/ CommitSkips \/ CommitApplies \/ CommitFails
    \/ Finish \/ DropTerminal \/ LeaseDrop \/ Start
EditStep == \E s \in Segments : Decide(s) \/ Reopen(s) \/ Rewrite(s) \/ Delete(s)
SegmentStep == CommitApplies \/ Undo \/ Redo \/ EditStep
HistoryStep == Record \/ DropRecord \/ Undo \/ Redo \/ Crash \/ Start
ClaimStep == \E j \in Jobs : \/ \E chosen \in SUBSET Segments \ {{}} : TryStart(j, chosen)
                             \/ TryStartBusy(j)
RunStep == ClaimStep \/ Worker \/ Crash
PollStep == (\E j \in Polled : PollStart(j)) \/ Poll \/ Crash

\* Every variable has its writers.
LEMMA Footprint ==
    ASSUME [Next]_vars
    PROVE  /\ JournalStep \/ UNCHANGED jobs
           /\ SegmentStep \/ UNCHANGED seg
           /\ HistoryStep \/ UNCHANGED <<undo, redo, recorded>>
           /\ RunStep \/ UNCHANGED <<gate, past, run>>
           /\ PollStep \/ UNCHANGED <<poll, answer>>
           /\ Crash \/ Start \/ UNCHANGED up
<1> USE DEF journal, process, history, client
<1>1. CASE UNCHANGED vars
  BY <1>1 DEF vars
<1>2. CASE ClaimStep
  BY <1>2 DEF ClaimStep, RunStep, TryStart, TryStartBusy
<1>3. CASE \E j \in Polled : PollStart(j)
  BY <1>3 DEF PollStep, PollStart
<1>4. CASE Poll
  BY <1>4 DEF Poll, PollStep, PollTracker, PollStarting, PollReread, PollPublish, PollRefresh
<1>5. CASE EditStep
  BY <1>5 DEF EditStep, SegmentStep, Decide, Reopen, Rewrite, Delete, Edit
<1>6. CASE Cancel \/ Undo \/ Redo \/ Crash \/ Start
  BY <1>6 DEF Cancel, Undo, Redo, Crash, Start, SegmentStep, HistoryStep, RunStep, PollStep,
              JournalStep
<1>7. CASE Worker
  <2>1. CASE AdmissionRefused \/ AdmissionFails \/ Admit \/ StartCommit \/ Spawn \/ SpawnRefused
    BY <1>7, <2>1 DEF AdmissionRefused, AdmissionFails, AbortStart, Admit, StartCommit, Spawn,
                      SpawnRefused, JournalStep, RunStep
  <2>2. CASE Pick \/ WorkFails \/ Panic \/ CommitSkips \/ CommitApplies \/ CommitFails
    BY <1>7, <2>2 DEF Pick, WorkFails, Panic, CommitSkips, CommitApplies, CommitFails,
                      JournalStep, SegmentStep, RunStep
  <2>3. CASE Finish \/ FinishFails \/ Record \/ RecordFails \/ DropTerminal
    BY <1>7, <2>3 DEF Finish, FinishFails, Record, RecordFails, DropTerminal, JournalStep,
                      HistoryStep, RunStep
  <2>4. CASE DropTerminalFails \/ DropRecord \/ DropRecordFails \/ LeaseDrop \/ Settle
    BY <1>7, <2>4 DEF DropTerminalFails, DropRecord, DropRecordFails, LeaseDrop, Settle,
                      JournalStep, HistoryStep, RunStep
  <2> QED BY <1>7, <2>1, <2>2, <2>3, <2>4 DEF Worker
<1> QED BY <1>1, <1>2, <1>3, <1>4, <1>5, <1>6, <1>7 DEF Next, ClaimStep, EditStep

-----------------------------------------------------------------------------
(* Segments and history: types, and revisions that only advance.           *)

\* The projection of a segment.
LEMMA ProjectionTyped ==
    ASSUME SegTyped, NEW s \in Segments
    PROVE  Projection(s) \in Projections /\ seg[s] \in SegmentRows /\ seg[s].rev \in Nat
  BY DEF SegTyped, SegmentRows, Projection, Projections

\* The newest command of a stack, and the ones before it.
LEMMA TopPop ==
    ASSUME NEW T, NEW stack \in Seq(T), stack # <<>>
    PROVE  /\ Top(stack) \in T /\ Pop(stack) \in Seq(T)
           /\ \E i \in 1 .. Len(stack) : Top(stack) = stack[i]
           /\ \A i \in 1 .. Len(Pop(stack)) : i \in 1 .. Len(stack) /\ Pop(stack)[i] = stack[i]
<1>1. Len(stack) \in Nat /\ Len(stack) # 0
  BY EmptySeq, LenProperties
<1>2. Len(stack) \in 1 .. Len(stack) /\ Len(stack) - 1 \in Nat
  BY <1>1
<1>3. \A i \in 1 .. Len(stack) - 1 : stack[i] \in T
  BY <1>1, ElementOfSeq
<1>4. /\ Pop(stack) \in Seq(T) /\ Len(Pop(stack)) = Len(stack) - 1
      /\ \A i \in 1 .. Len(stack) - 1 : Pop(stack)[i] = stack[i]
  <2> DEFINE n == Len(stack) - 1
  <2>1. n \in Int /\ 1 \in Int
    BY <1>2
  <2>2. \A i \in 1 .. n : stack[i] \in T
    BY <1>3
  <2>3. Pop(stack) = SubSeq(stack, 1, n)
    BY DEF Pop
  <2>4. n \in Nat
    BY <1>2
  <2> HIDE DEF n
  <2>5. /\ SubSeq(stack, 1, n) \in Seq(T)
        /\ Len(SubSeq(stack, 1, n)) = IF 1 <= n THEN n - 1 + 1 ELSE 0
        /\ \A i \in 1 .. n - 1 + 1 : SubSeq(stack, 1, n)[i] = stack[1 + i - 1]
    BY <2>1, <2>2, SubSeqProperties
  <2>6. Len(SubSeq(stack, 1, n)) = n
    BY <2>4, <2>5
  <2>7. \A i \in 1 .. n : SubSeq(stack, 1, n)[i] = stack[i]
    BY <2>4, <2>5
  <2> QED BY <2>3, <2>5, <2>6, <2>7 DEF n
<1>5. Top(stack) \in T
  BY <1>2, ElementOfSeq DEF Top
<1> QED BY <1>1, <1>2, <1>4, <1>5 DEF Top

\* A write of a segment is a row with the next revision.
LEMMA PutSegment ==
    ASSUME SegTyped, NEW s \in Segments, NEW r \in SegmentRows, seg' = [seg EXCEPT ![s] = r]
    PROVE  SegTyped' /\ seg'[s] = r /\ \A u \in Segments : u # s => seg'[u] = seg[u]
  BY DEF SegTyped

\* The effect of a commit on its segment.
AppliedSeg(s, w) == [seg[s] EXCEPT !.raw = w.raw, !.norm = w.norm, !.rev = @ + 1]

\* A commit writes its text and the next revision, and nothing else.
LEMMA AppliedSegment ==
    ASSUME SegTyped, NEW s \in Segments, NEW j \in Jobs, NEW w \in Written(j, s)
    PROVE  LET r == AppliedSeg(s, w)
           IN  /\ r \in SegmentRows /\ r.rev = seg[s].rev + 1 /\ r.raw = w.raw
               /\ r.norm = w.norm /\ r.owned = seg[s].owned /\ r.live = seg[s].live
               /\ [rev |-> seg[s].rev + 1, raw |-> w.raw, norm |-> w.norm] \in Projections
<1>1. seg[s] \in SegmentRows
  BY DEF SegTyped
<1>2. w.raw \in {"old", "other"} \cup Jobs /\ w.norm \in BOOLEAN
  BY <1>1 DEF Written, SegmentRows
<1>3. seg[s].rev \in Nat /\ seg[s].rev + 1 \in Nat
  BY <1>1 DEF SegmentRows
<1>4. AppliedSeg(s, w) \in SegmentRows
  BY <1>1, <1>2, <1>3 DEF SegmentRows, AppliedSeg
<1>5. /\ AppliedSeg(s, w).rev = seg[s].rev + 1 /\ AppliedSeg(s, w).raw = w.raw
      /\ AppliedSeg(s, w).norm = w.norm /\ AppliedSeg(s, w).owned = seg[s].owned
      /\ AppliedSeg(s, w).live = seg[s].live
  BY <1>1 DEF SegmentRows, AppliedSeg
<1>6. [rev |-> seg[s].rev + 1, raw |-> w.raw, norm |-> w.norm] \in Projections
  BY <1>2, <1>3 DEF Projections
<1> QED BY <1>4, <1>5, <1>6

\* A command of the history, with its endpoints.
LEMMA TokenTyped ==
    ASSUME JobsTyped, NEW side \in {"before", "after"}, NEW t \in Tokens(side)
    PROVE  /\ t.op \in Jobs /\ t.side = side /\ t.at \in [Segments -> Nat]
           /\ Covered(t) \subseteq Segments
           /\ \A s \in Segments : Source(t, s) \in Projections /\ Target(t, s) \in Projections
<1>1. t.op \in Jobs /\ t.side = side /\ t.at \in [Segments -> Nat]
  BY DEF Tokens
<1>2. jobs[t.op] \in JobRows
  BY <1>1 DEF JobsTyped
<1>3. jobs[t.op].before \in [Segments -> Projections]
      /\ jobs[t.op].after \in [Segments -> Projections]
  BY <1>2 DEF JobRows
<1> QED BY <1>1, <1>3 DEF Covered, InState, Source, Target

\* An Undo or a Redo writes the other endpoint over the one it stands on.
LEMMA ToggledSegments ==
    ASSUME SegTyped, JobsTyped, NEW side \in {"before", "after"}, NEW t \in Tokens(side),
           seg' = Toggled(t)
    PROVE  /\ SegTyped'
           /\ \A s \in Segments \ Covered(t) : seg'[s] = seg[s]
           /\ \A s \in Covered(t) :
                /\ seg'[s].rev = seg[s].rev + 1 /\ SameText(seg'[s], Target(t, s))
                /\ seg'[s].owned = seg[s].owned
<1> DEFINE row(s) == [seg[s] EXCEPT !.raw = Target(t, s).raw, !.norm = Target(t, s).norm,
                                    !.rev = @ + 1]
<1>1. ASSUME NEW s \in Covered(t)
      PROVE  /\ row(s) \in SegmentRows /\ row(s).rev = seg[s].rev + 1
             /\ SameText(row(s), Target(t, s)) /\ row(s).owned = seg[s].owned
  <2>1. s \in Segments /\ Target(t, s) \in Projections
    BY <1>1, TokenTyped
  <2>2. seg[s] \in SegmentRows /\ seg[s].rev + 1 \in Nat
    BY <2>1, ProjectionTyped
  <2>3. Target(t, s).raw \in {"old", "other"} \cup Jobs /\ Target(t, s).norm \in BOOLEAN
    BY <2>1 DEF Projections
  <2>4. row(s) \in SegmentRows
    BY <2>2, <2>3 DEF SegmentRows
  <2>5. row(s).rev = seg[s].rev + 1 /\ row(s).owned = seg[s].owned
        /\ row(s).raw = Target(t, s).raw /\ row(s).norm = Target(t, s).norm
    BY <2>2 DEF SegmentRows
  <2> HIDE DEF row
  <2> QED BY <2>4, <2>5 DEF SameText
<1>2. seg' = [s \in Segments |-> IF s \in Covered(t) THEN row(s) ELSE seg[s]]
  BY DEF Toggled
<1>3. Covered(t) \subseteq Segments
  BY TokenTyped
<1> HIDE DEF row
<1> QED BY <1>1, <1>2, <1>3 DEF SegTyped

\* The command that stands on the other endpoint.
LEMMA NextTokenTyped ==
    ASSUME SegTyped, NEW side \in {"before", "after"}, NEW t \in Tokens(side)
    PROVE  /\ NextToken(t) \in Tokens(IF side = "after" THEN "before" ELSE "after")
           /\ NextToken(t).op = t.op
           /\ \A s \in Covered(t) \cap Segments : NextToken(t).at[s] = seg[s].rev + 1
<1> DEFINE at == [s \in Segments |-> IF s \in Covered(t) THEN seg[s].rev + 1 ELSE 0]
<1>1. at \in [Segments -> Nat]
  BY ProjectionTyped
<1>2. t.op \in Jobs /\ t.side = side
  BY DEF Tokens
<1>3. NextToken(t) = [op |-> t.op, side |-> IF side = "after" THEN "before" ELSE "after",
                      at |-> at]
  BY <1>2 DEF NextToken
<1>4. \A s \in Covered(t) \cap Segments : at[s] = seg[s].rev + 1
  OBVIOUS
<1> HIDE DEF at
<1> QED BY <1>1, <1>2, <1>3, <1>4 DEF Tokens

\* The command of a finished batch.
LEMMA NewTokenTyped ==
    ASSUME SegTyped, NEW j \in Jobs
    PROVE  /\ Token(j) \in Tokens("after") /\ Token(j).op = j
           /\ \A s \in InState(j, "applied") : Token(j).at[s] = seg[s].rev
<1> DEFINE at == [s \in Segments |-> IF s \in InState(j, "applied") THEN seg[s].rev ELSE 0]
<1>1. at \in [Segments -> Nat]
  BY ProjectionTyped
<1>2. \A s \in InState(j, "applied") : at[s] = seg[s].rev
  BY DEF InState
<1>3. Token(j) = [op |-> j, side |-> "after", at |-> at]
  BY DEF Token
<1> HIDE DEF at
<1> QED BY <1>1, <1>2, <1>3 DEF Tokens

\* A write by anyone else is the next revision of one segment, and changes the
\* machine text of none that a human owns.
LEMMA EditedSegment ==
    ASSUME SegTyped, EditStep
    PROVE  \E s \in Segments :
             /\ SegTyped' /\ \A u \in Segments : u # s => seg'[u] = seg[u]
             /\ seg'[s].rev = seg[s].rev + 1
             /\ seg[s].owned => SameText(seg[s], seg'[s])
<1>1. PICK s \in Segments : Decide(s) \/ Reopen(s) \/ Rewrite(s) \/ Delete(s)
  BY DEF EditStep
<1>2. seg[s] \in SegmentRows /\ seg[s].rev \in Nat
  BY ProjectionTyped
<1>3. ASSUME NEW new \in SegmentRows, seg' = [seg EXCEPT ![s] = [new EXCEPT !.rev = @ + 1]],
             new.rev = seg[s].rev, seg[s].owned => SameText(seg[s], new)
      PROVE  /\ SegTyped' /\ \A u \in Segments : u # s => seg'[u] = seg[u]
             /\ seg'[s].rev = seg[s].rev + 1
             /\ seg[s].owned => SameText(seg[s], seg'[s])
  <2> DEFINE r == [new EXCEPT !.rev = @ + 1]
  <2>1. r \in SegmentRows
    BY <1>2, <1>3 DEF SegmentRows
  <2>2. r.rev = seg[s].rev + 1 /\ r.raw = new.raw /\ r.norm = new.norm
    BY <1>3 DEF SegmentRows
  <2>3. seg' = [seg EXCEPT ![s] = r]
    BY <1>3
  <2> HIDE DEF r
  <2>4. SegTyped' /\ seg'[s] = r /\ \A u \in Segments : u # s => seg'[u] = seg[u]
    BY <2>1, <2>3, PutSegment
  <2> QED BY <1>3, <2>2, <2>4 DEF SameText
<1>4. CASE Decide(s)
  <2> DEFINE new == [seg[s] EXCEPT !.owned = TRUE]
  <2>1. new \in SegmentRows /\ new.rev = seg[s].rev /\ new.raw = seg[s].raw
        /\ new.norm = seg[s].norm
    BY <1>2 DEF SegmentRows
  <2>2. seg' = [seg EXCEPT ![s] = [new EXCEPT !.rev = @ + 1]]
    BY <1>4 DEF Decide, Edit
  <2> HIDE DEF new
  <2> QED BY <1>3, <2>1, <2>2 DEF SameText
<1>5. CASE Reopen(s)
  <2> DEFINE new == [seg[s] EXCEPT !.owned = FALSE]
  <2>1. new \in SegmentRows /\ new.rev = seg[s].rev /\ new.raw = seg[s].raw
        /\ new.norm = seg[s].norm
    BY <1>2 DEF SegmentRows
  <2>2. seg' = [seg EXCEPT ![s] = [new EXCEPT !.rev = @ + 1]]
    BY <1>5 DEF Reopen, Edit
  <2> HIDE DEF new
  <2> QED BY <1>3, <2>1, <2>2 DEF SameText
<1>6. CASE Rewrite(s)
  <2> DEFINE new == [seg[s] EXCEPT !.raw = "other", !.norm = FALSE]
  <2>1. new \in SegmentRows /\ new.rev = seg[s].rev
    BY <1>2 DEF SegmentRows
  <2>2. seg' = [seg EXCEPT ![s] = [new EXCEPT !.rev = @ + 1]] /\ ~seg[s].owned
    BY <1>6 DEF Rewrite, Edit
  <2> HIDE DEF new
  <2> QED BY <1>3, <2>1, <2>2
<1>7. CASE Delete(s)
  <2> DEFINE new == [seg[s] EXCEPT !.live = FALSE]
  <2>1. new \in SegmentRows /\ new.rev = seg[s].rev
    BY <1>2 DEF SegmentRows
  <2>2. seg' = [seg EXCEPT ![s] = [new EXCEPT !.rev = @ + 1]] /\ ~seg[s].owned
    BY <1>7 DEF Delete, Edit
  <2> HIDE DEF new
  <2> QED BY <1>3, <2>1, <2>2
<1> QED BY <1>1, <1>4, <1>5, <1>6, <1>7

\* What an applied commit does to the segment and to the row of its job.
LEMMA AppliedFacts ==
    ASSUME JobInv, CommitApplies
    PROVE  LET j == gate.op  s == run.cursor
           IN  /\ j \in Jobs /\ s \in Segments /\ Unchanged(j, s)
               /\ jobs[j].state = "running" /\ jobs[j].item[s] = "pending"
               /\ SegTyped' /\ \A u \in Segments : u # s => seg'[u] = seg[u]
               /\ seg'[s].rev = seg[s].rev + 1 /\ seg'[s].owned = seg[s].owned
               /\ \E q \in JobRows, p \in [Segments -> Projections] :
                    /\ q = SettledRow(jobs[j], s, "applied", p)
                    /\ jobs' = [jobs EXCEPT ![j] = q]
                    /\ p[s].rev = seg'[s].rev /\ SameText(p[s], seg'[s])
                    /\ \A u \in Segments : u # s => p[u] = jobs[j].after[u]
<1> DEFINE j == gate.op
           s == run.cursor
<1>1. j \in Jobs /\ s \in Segments /\ jobs[j].state = "running" /\ jobs[j].item[s] = "pending"
  BY DEF JobInv, Control, OwnJob, CommitApplies, Working
<1>2. jobs[j] \in JobRows /\ RowAgrees(jobs[j]) /\ SegTyped
  BY <1>1 DEF JobInv, Typed, JobsTyped, Evidence
<1> HIDE DEF j, s
<1>3. PICK w \in Written(j, s) :
        /\ seg' = [seg EXCEPT ![s].raw = w.raw, ![s].norm = w.norm, ![s].rev = @ + 1]
        /\ jobs' = [jobs EXCEPT
             ![j].item[s]  = "applied", ![j].done = @ + 1,
             ![j].after[s] = [rev |-> seg[s].rev + 1, raw |-> w.raw, norm |-> w.norm]]
  BY DEF CommitApplies, j, s
<1> DEFINE e == [rev |-> seg[s].rev + 1, raw |-> w.raw, norm |-> w.norm]
           p == [jobs[j].after EXCEPT ![s] = e]
           q == SettledRow(jobs[j], s, "applied", p)
           r == AppliedSeg(s, w)
<1>4. /\ r \in SegmentRows /\ r.rev = seg[s].rev + 1 /\ r.raw = w.raw /\ r.norm = w.norm
      /\ r.owned = seg[s].owned /\ e \in Projections
  BY <1>1, <1>2, AppliedSegment
<1>5. seg' = [seg EXCEPT ![s] = r]
  BY <1>2, <1>3 DEF AppliedSeg, SegTyped
<1>6. jobs' = [jobs EXCEPT ![j] = q]
  <2>1. jobs \in [Jobs -> JobRows]
    BY DEF JobInv, Typed, JobsTyped
  <2>2. jobs' = [jobs EXCEPT ![j].item[s] = "applied", ![j].done = @ + 1, ![j].after[s] = e]
    BY <1>3
  <2> HIDE DEF e
  <2> QED BY <1>2, <2>1, <2>2 DEF SettledRow, JobRows
<1>7. /\ p \in [Segments -> Projections] /\ p[s] = e
      /\ \A u \in Segments : u # s => p[u] = jobs[j].after[u]
  <2> HIDE DEF e
  <2> QED BY <1>1, <1>2, <1>4 DEF JobRows
<1>8. e.rev = seg[s].rev + 1 /\ e.raw = w.raw /\ e.norm = w.norm
  OBVIOUS
<1> HIDE DEF e, p, r
<1>9. q \in JobRows
  BY <1>1, <1>2, <1>7, SettledRowAgrees
<1>10. SegTyped' /\ seg'[s] = r /\ \A u \in Segments : u # s => seg'[u] = seg[u]
  BY <1>1, <1>2, <1>4, <1>5, PutSegment
<1>11. p[s].rev = seg'[s].rev /\ SameText(p[s], seg'[s])
  BY <1>4, <1>7, <1>8, <1>10 DEF SameText
<1>12. Unchanged(j, s)
  BY DEF CommitApplies, j, s
<1> HIDE DEF q
<1>13. \E qq \in JobRows, pp \in [Segments -> Projections] :
          /\ qq = SettledRow(jobs[j], s, "applied", pp)
          /\ jobs' = [jobs EXCEPT ![j] = qq]
          /\ pp[s].rev = seg'[s].rev /\ SameText(pp[s], seg'[s])
          /\ \A u \in Segments : u # s => pp[u] = jobs[j].after[u]
  <2>1. q = SettledRow(jobs[j], s, "applied", p)
    BY DEF q
  <2> QED BY <1>6, <1>7, <1>9, <1>11, <2>1
<1> QED BY <1>1, <1>4, <1>10, <1>12, <1>13 DEF j, s

\* Revisions only advance, whoever writes.
LEMMA SegmentsAdvance ==
    ASSUME JobInv, [Next]_vars
    PROVE  /\ SegTyped'
           /\ \A s \in Segments : seg'[s] = seg[s] \/ seg'[s].rev = seg[s].rev + 1
<1>0. SegTyped /\ JobsTyped /\ HistTyped
  BY DEF JobInv, Typed
<1>1. CASE CommitApplies
  BY <1>1, AppliedFacts
<1>2. CASE EditStep
  BY <1>0, <1>2, EditedSegment
<1>3. CASE Undo
  <2>1. Top(undo) \in Tokens("after") /\ seg' = Toggled(Top(undo))
    BY <1>0, <1>3, TopPop DEF Undo, ApplyHistory, HistTyped
  <2> QED BY <1>0, <2>1, ToggledSegments
<1>4. CASE Redo
  <2>1. Top(redo) \in Tokens("before") /\ seg' = Toggled(Top(redo))
    BY <1>0, <1>4, TopPop DEF Redo, ApplyHistory, HistTyped
  <2> QED BY <1>0, <2>1, ToggledSegments
<1>5. CASE UNCHANGED seg
  BY <1>0, <1>5 DEF SegTyped
<1> QED BY <1>1, <1>2, <1>3, <1>4, <1>5, Footprint DEF SegmentStep

\* The history stays well-formed: Undo keeps after-effect commands, Redo
\* before-effect ones.
LEMMA HistoryTyped ==
    ASSUME JobInv, [Next]_vars
    PROVE  HistTyped'
<1>0. SegTyped /\ JobsTyped /\ HistTyped
  BY DEF JobInv, Typed
<1>1. ASSUME NEW j \in Jobs, NEW stack \in Seq(Tokens("after")), Remember(j, stack)
      PROVE  HistTyped'
  <2>1. Token(j) \in Tokens("after")
    BY <1>0, NewTokenTyped
  <2>2. Append(stack, Token(j)) \in Seq(Tokens("after"))
    BY <2>1, AppendProperties
  <2> QED BY <1>0, <1>1, <2>2, EmptySeq DEF Remember, HistTyped, history
<1>2. CASE Record \/ DropRecord
  <2>1. gate.op \in Jobs
    BY <1>2 DEF JobInv, Control, Record, DropRecord
  <2>2. Remember(gate.op, undo) \/ UNCHANGED history
    BY <1>2 DEF Record, DropRecord
  <2> QED BY <1>0, <1>1, <2>1, <2>2 DEF HistTyped, history
<1>3. CASE Undo
  <2>1. Top(undo) \in Tokens("after") /\ Pop(undo) \in Seq(Tokens("after"))
    BY <1>0, <1>3, TopPop DEF Undo, HistTyped
  <2>2. NextToken(Top(undo)) \in Tokens("before")
    BY <1>0, <2>1, NextTokenTyped
  <2>3. Append(redo, NextToken(Top(undo))) \in Seq(Tokens("before"))
    BY <1>0, <2>2, AppendProperties DEF HistTyped
  <2> QED BY <1>0, <1>3, <2>1, <2>3 DEF Undo, HistTyped
<1>4. CASE Redo
  <2>1. Top(redo) \in Tokens("before") /\ Pop(redo) \in Seq(Tokens("before"))
    BY <1>0, <1>4, TopPop DEF Redo, HistTyped
  <2>2. NextToken(Top(redo)) \in Tokens("after")
    BY <1>0, <2>1, NextTokenTyped
  <2>3. Append(undo, NextToken(Top(redo))) \in Seq(Tokens("after"))
    BY <1>0, <2>2, AppendProperties DEF HistTyped
  <2> QED BY <1>0, <1>4, <2>1, <2>3 DEF Redo, HistTyped
<1>5. CASE Crash
  BY <1>5, EmptySeq DEF Crash, HistTyped
<1>6. CASE Start
  <2>1. \/ UNCHANGED history
        \/ \E j \in Jobs : Remember(j, <<>>)
    BY <1>6 DEF Start, Leftovers, LiveJobs
  <2> QED BY <1>0, <1>1, <2>1, EmptySeq DEF HistTyped, history
<1>7. CASE UNCHANGED <<undo, redo, recorded>>
  BY <1>0, <1>7 DEF HistTyped
<1> QED BY <1>2, <1>3, <1>4, <1>5, <1>6, <1>7, Footprint DEF HistoryStep

-----------------------------------------------------------------------------
(* The journal: what each of its writers makes of a row.                   *)

\* One row that is not terminal is replaced by one that agrees with its items.
RowStep(j, q) ==
    /\ j \in Jobs /\ q \in JobRows /\ jobs' = [jobs EXCEPT ![j] = q]
    /\ RowAgrees(q) /\ jobs[j].state \notin Terminal

\* No item of the row becomes an applied one.
AppliesNothing(j, q) ==
    /\ \A s \in Segments : q.item[s] = "applied" => jobs[j].item[s] = "applied"
    /\ InState(j, "applied") # {} => q.after = jobs[j].after

\* The journal of a batch begins with every chosen item pending.
LEMMA AdmitRow ==
    ASSUME JobInv, Admit
    PROVE  \E q : /\ RowStep(gate.op, q) /\ AppliesNothing(gate.op, q)
                  /\ q.state = "running" /\ InItem(q, "failed") = {}
<1> DEFINE j == gate.op
           item == [s \in Segments |-> IF s \in run.chosen THEN "pending" ELSE "none"]
           before == [s \in Segments |-> IF s \in run.chosen THEN Projection(s)
                                         ELSE Unadmitted.before[s]]
           q == [Unadmitted EXCEPT !.state = "running", !.item = item, !.before = before]
<1>1. j \in Jobs /\ jobs[j].state = "none" /\ SegTyped
  BY DEF JobInv, Typed, Control, Admit, Admissible
<1>2. jobs' = [jobs EXCEPT ![j] = q]
  BY DEF Admit
<1>3. [rev |-> 0, raw |-> "old", norm |-> FALSE] \in Projections
  BY DEF Projections
<1>4. before \in [Segments -> Projections] /\ item \in [Segments -> ItemStates]
  BY <1>1, <1>3, ProjectionTyped DEF ItemStates, Unadmitted
<1> DEFINE after == [s \in Segments |-> [rev |-> 0, raw |-> "old", norm |-> FALSE]]
<1>5. q = [state |-> "running", code |-> "none", done |-> 0, item |-> item, before |-> before,
           after |-> after]
  <2> DEFINE none == [s \in Segments |-> "none"]
  <2>1. Unadmitted = [state |-> "none", code |-> "none", done |-> 0, item |-> none,
                      before |-> after, after |-> after]
    BY DEF Unadmitted
  <2>2. q = [Unadmitted EXCEPT !.state = "running", !.item = item, !.before = before]
    OBVIOUS
  <2> HIDE DEF none, after, item, before, q
  <2> QED BY <2>1, <2>2
<1>6. after \in [Segments -> Projections]
  BY <1>3
<1>7. \A s \in Segments : item[s] \in {"pending", "none"}
  OBVIOUS
<1> HIDE DEF item, before, q, after
<1>8. /\ q \in JobRows /\ q.item = item /\ q.state = "running" /\ q.done = 0
  BY <1>4, <1>5, <1>6 DEF JobRows, States, Codes
<1>9. /\ ItemsOf(q) \ InItem(q, "pending") = {} /\ InItem(q, "failed") = {}
      /\ InItem(q, "abandoned") = {}
  BY <1>7, <1>8 DEF ItemsOf, InItem
<1>10. RowAgrees(q)
  BY <1>8, <1>9, FS_EmptySet DEF RowAgrees, Terminal
<1>11. AppliesNothing(j, q)
  <2>1. InState(j, "applied") = {}
    <3>1. RowAgrees(jobs[j])
      BY <1>1 DEF JobInv, Evidence
    <3> QED BY <1>1, <3>1 DEF RowAgrees, ItemsOf, InState
  <2> QED BY <1>7, <1>8, <2>1 DEF AppliesNothing
<1> QED BY <1>1, <1>2, <1>8, <1>9, <1>10, <1>11 DEF RowStep, Terminal

\* A commit that writes no segment settles one pending item.
LEMMA SettleItemRow ==
    ASSUME JobInv, NEW s, s = run.cursor, NEW t \in {"skipped", "failed"},
           run.pc = "commit", SettleItem(gate.op, s, t)
    PROVE  \E q : /\ RowStep(gate.op, q) /\ AppliesNothing(gate.op, q)
                  /\ q.state = "running" /\ (t = "skipped" => InItem(q, "failed") = {})
<1> DEFINE j == gate.op
<1>1. /\ j \in Jobs /\ s \in Segments /\ jobs[j].state = "running"
      /\ jobs[j].item[s] = "pending" /\ InItem(jobs[j], "failed") = {}
  BY DEF JobInv, Control, OwnJob, Intent, Working
<1>2. jobs[j] \in JobRows /\ RowAgrees(jobs[j]) /\ jobs \in [Jobs -> JobRows]
  BY <1>1 DEF JobInv, Typed, JobsTyped, Evidence
<1> HIDE DEF j
<1> DEFINE q == SettledRow(jobs[j], s, t, jobs[j].after)
<1>3. jobs[j].after \in [Segments -> Projections]
  BY <1>2 DEF JobRows
<1>4. /\ q \in JobRows /\ RowAgrees(q) /\ q.state = "running" /\ q.after = jobs[j].after
      /\ \A u \in Segments : q.item[u] = IF u = s THEN t ELSE jobs[j].item[u]
  BY <1>1, <1>2, <1>3, SettledRowAgrees
<1>5. jobs' = [jobs EXCEPT ![j] = q]
  BY <1>2 DEF SettleItem, SettledRow, JobRows, j
<1> HIDE DEF q
<1>6. AppliesNothing(j, q) /\ (t = "skipped" => InItem(q, "failed") = {})
  BY <1>1, <1>4 DEF AppliesNothing, InItem
<1> QED BY <1>1, <1>4, <1>5, <1>6 DEF RowStep, Terminal, j

\* A row is finished.
LEMMA FinishedRow ==
    ASSUME JobInv, NEW j \in Jobs, NEW t \in Terminal, NEW c \in Codes,
           jobs[j].state = "running", t # "succeeded" => c # "none",
           t = "succeeded" => InState(j, "pending") = {},
           t # "failed" => InState(j, "failed") = {},
           jobs' = [jobs EXCEPT ![j] = Finished(j, t, c)]
    PROVE  \E q : RowStep(j, q) /\ AppliesNothing(j, q) /\ q.state \in Terminal
<1> DEFINE q == Finished(j, t, c)
<1>1. JobsTyped /\ Evidence
  BY DEF JobInv, Typed
<1>2. /\ q \in JobRows /\ RowAgrees(q) /\ q.state \in Terminal /\ q.after = jobs[j].after
      /\ \A s \in Segments :
           q.item[s] = IF jobs[j].item[s] = "pending" THEN "abandoned" ELSE jobs[j].item[s]
  BY <1>1, FinishedAgrees
<1> HIDE DEF q
<1>3. jobs' = [jobs EXCEPT ![j] = q]
  BY DEF q
<1> QED BY <1>2, <1>3 DEF RowStep, AppliesNothing, Terminal

\* The worker finishes, asked for or not.
LEMMA WorkerFinishes ==
    ASSUME JobInv, Finish \/ DropTerminal \/ LeaseDrop
    PROVE  \/ UNCHANGED jobs /\ ~Finish
              /\ (DropTerminal => jobs[gate.op].state \in Terminal)
           \/ \E q : RowStep(gate.op, q) /\ AppliesNothing(gate.op, q) /\ q.state \in Terminal
<1>1. gate.op \in Jobs
  BY DEF JobInv, Control, Finish, DropTerminal, LeaseDrop
<1>2. CASE Finish
  <2>1. /\ run.target \in Terminal /\ run.code \in Codes
        /\ run.target # "succeeded" => run.code # "none"
    BY <1>2 DEF JobInv, Intent, Typed, RunTyped, Runs, Finish
  <2>2. /\ jobs[gate.op].state = "running"
        /\ run.target = "succeeded" => InState(gate.op, "pending") = {}
    BY <1>2 DEF Finish, FinishAllowed
  <2>3. run.target # "failed" => InState(gate.op, "failed") = {}
    BY <1>2 DEF JobInv, Intent, Finish, InItem, InState
  <2>4. jobs' = [jobs EXCEPT ![gate.op] = Finished(gate.op, run.target, run.code)]
    BY <1>2 DEF Finish
  <2> QED BY <1>1, <2>1, <2>2, <2>3, <2>4, FinishedRow
<1>3. CASE DropTerminal \/ LeaseDrop
  <2>1. ~Finish
    BY <1>3 DEF Finish, DropTerminal, LeaseDrop
  <2>2. CASE UNCHANGED jobs /\ ~(DropTerminal /\ ~run.terminalized)
    BY <2>1, <2>2 DEF JobInv, OwnJob, DropTerminal
  <2>3. CASE ~run.terminalized
             /\ jobs' = [jobs EXCEPT ![gate.op] = Finished(gate.op, "failed", DropCode)]
    <3>1. jobs[gate.op].state = "running"
      BY <1>3, <2>3 DEF JobInv, OwnJob, DropTerminal, LeaseDrop
    <3>2. DropCode \in Codes /\ DropCode # "none" /\ "failed" \in Terminal
      BY DEF DropCode, Codes, Terminal
    <3> QED BY <1>1, <2>3, <3>1, <3>2, FinishedRow
  <2> QED BY <1>3, <2>2, <2>3 DEF DropTerminal, LeaseDrop
<1> QED BY <1>2, <1>3

\* The next start finishes what a dead process left running.
LEMMA StartFinishes ==
    ASSUME JobInv, Start
    PROVE  \/ UNCHANGED jobs
           \/ \E j, q : RowStep(j, q) /\ AppliesNothing(j, q) /\ q.state \in Terminal
<1>1. CASE Leftovers = {}
  BY <1>1 DEF Start
<1>2. CASE Leftovers # {}
  <2> DEFINE j == CHOOSE k \in Leftovers : TRUE
  <2>1. j \in Leftovers
    BY <1>2
  <2>2. jobs' = [jobs EXCEPT ![j] = Finished(j, "failed", RecoveredCode(j))]
    BY <1>2 DEF Start
  <2> HIDE DEF j
  <2>3. j \in Jobs /\ jobs[j].state = "running"
    BY <2>1 DEF Leftovers, LiveJobs
  <2>4. RecoveredCode(j) \in Codes /\ RecoveredCode(j) # "none" /\ "failed" \in Terminal
    BY DEF RecoveredCode, Codes, Terminal
  <2> QED BY <2>2, <2>3, <2>4, FinishedRow
<1> QED BY <1>1, <1>2

\* What the journal keeps, whoever writes: agreement, and every terminal row.
LEMMA JournalKept ==
    ASSUME JobInv, [Next]_vars
    PROVE  /\ JobsTyped' /\ Evidence'
           /\ \A j \in Jobs : jobs[j].state \in Terminal => jobs'[j] = jobs[j]
<1>0. JobsTyped /\ Evidence
  BY DEF JobInv, Typed
<1>1. ASSUME NEW j, NEW q, RowStep(j, q)
      PROVE  /\ JobsTyped' /\ Evidence'
             /\ \A k \in Jobs : jobs[k].state \in Terminal => jobs'[k] = jobs[k]
  <2>1. /\ j \in Jobs /\ jobs[j].state \notin Terminal /\ RowAgrees(q)
        /\ JobsTyped' /\ jobs'[j] = q /\ \A k \in Jobs : k # j => jobs'[k] = jobs[k]
    BY <1>0, <1>1, PutRow DEF RowStep
  <2>2. ASSUME NEW k \in Jobs PROVE RowAgrees(jobs'[k])
    BY <1>0, <2>1 DEF Evidence
  <2>3. Evidence'
    BY <2>2 DEF Evidence, RowAgrees, InItem, ItemsOf
  <2> QED BY <2>1, <2>3
<1>2. CASE UNCHANGED jobs
  BY <1>0, <1>2 DEF JobsTyped, Evidence, RowAgrees, InItem, ItemsOf
<1>3. CASE Admit
  BY <1>1, <1>3, AdmitRow
<1>4. CASE CommitSkips \/ CommitFails
  <2>1. run.pc = "commit" /\ \E t \in {"skipped", "failed"} : SettleItem(gate.op, run.cursor, t)
    BY <1>4 DEF CommitSkips, CommitFails
  <2> QED BY <1>1, <2>1, SettleItemRow
<1>5. CASE CommitApplies
  <2> DEFINE j == gate.op
             s == run.cursor
  <2>1. PICK q \in JobRows, p \in [Segments -> Projections] :
             q = SettledRow(jobs[j], s, "applied", p) /\ jobs' = [jobs EXCEPT ![j] = q]
    BY <1>5, AppliedFacts
  <2>2. j \in Jobs /\ s \in Segments /\ jobs[j].state = "running" /\ jobs[j].item[s] = "pending"
    BY <1>5, AppliedFacts
  <2>3. jobs[j] \in JobRows /\ RowAgrees(jobs[j])
    BY <1>0, <2>2 DEF JobsTyped, Evidence
  <2> HIDE DEF j, s
  <2>4. RowAgrees(q)
    BY <2>1, <2>2, <2>3, SettledRowAgrees
  <2>5. RowStep(j, q)
    BY <2>1, <2>2, <2>4 DEF RowStep, Terminal
  <2> QED BY <1>1, <2>5
<1>6. CASE Finish \/ DropTerminal \/ LeaseDrop
  BY <1>1, <1>2, <1>6, WorkerFinishes
<1>7. CASE Start
  BY <1>1, <1>2, <1>7, StartFinishes
<1> QED BY <1>2, <1>3, <1>4, <1>5, <1>6, <1>7, Footprint DEF JournalStep

-----------------------------------------------------------------------------
(* The run: each step of the command and of its worker.                    *)

RunInv == RunTyped /\ Control /\ OwnJob /\ Intent

\* The run moves on, and keeps what it knows.
LEMMA RunAt ==
    ASSUME run \in Runs, NEW p \in RunPCs, run' = [run EXCEPT !.pc = p]
    PROVE  /\ run' \in Runs /\ run'.pc = p /\ run'.terminalized = run.terminalized
           /\ run'.tokened = run.tokened /\ run'.target = run.target /\ run'.code = run.code
           /\ run'.cursor = run.cursor
  BY DEF Runs

\* The run asks for an end.
LEMMA Intended ==
    ASSUME run \in Runs, NEW t \in Terminal, NEW c \in Codes, Intend(t, c)
    PROVE  /\ run' \in Runs /\ run'.pc = "finish" /\ run'.terminalized = run.terminalized
           /\ run'.tokened = run.tokened /\ run'.target = t /\ run'.code = c
  BY DEF Runs, RunPCs, Intend

\* A process without a run.
LEMMA IdleTyped ==
    /\ IdleRun \in Runs /\ IdleRun.pc = "idle" /\ NoRun \in Gates /\ NoRun.op = "none"
    /\ ~IdleRun.tokened /\ ~IdleRun.terminalized
  BY DEF IdleRun, Runs, RunPCs, Terminal, Codes, NoRun, Gates

\* The gate is claimed, given back, or found taken.
LEMMA ClaimKeeps ==
    ASSUME JobInv, ClaimStep \/ AdmissionRefused \/ AdmissionFails \/ Settle \/ Crash
    PROVE  RunInv'
<1> USE DEF JobInv, Typed
<1>1. CASE \E j \in Jobs, chosen \in SUBSET Segments \ {{}} : TryStart(j, chosen)
  <2>1. PICK j \in Jobs, chosen \in SUBSET Segments \ {{}} : TryStart(j, chosen)
    BY <1>1
  <2>2. run' \in Runs /\ run'.pc = "claimed" /\ ~run'.tokened /\ ~run'.terminalized
    <3>1. run' = [IdleRun EXCEPT !.pc = "claimed", !.chosen = chosen]
      BY <2>1 DEF TryStart
    <3> QED BY <3>1, IdleTyped DEF Runs, RunPCs
  <2>3. gate' \in Gates /\ gate'.op = j /\ past' = past /\ past[j] = Unsettled("unknown") /\ up'
    BY <2>1 DEF TryStart, Gates
  <2> QED BY <2>2, <2>3 DEF RunInv, RunTyped, PastTyped, Settled, Control, OwnJob, Intent, Working
<1>2. CASE \E j \in Jobs : TryStartBusy(j)
  <2>1. PICK j \in Jobs : TryStartBusy(j)
    BY <1>2
  <2>2. /\ UNCHANGED <<gate, run, jobs>> /\ up' /\ gate.op # j
        /\ past' = [past EXCEPT ![j] = Unsettled("rejected")]
    BY <2>1 DEF TryStartBusy, journal
  <2>3. /\ DOMAIN past' = Jobs /\ past'[j] = Unsettled("rejected")
        /\ \A k \in Jobs : k # j => past'[k] = past[k]
    BY <2>2 DEF RunTyped, PastTyped
  <2>4. RunTyped' /\ Control'
    BY <2>2, <2>3 DEF RunTyped, PastTyped, Settled, Control
  <2>5. OwnJob' /\ Intent'
    BY <2>2 DEF OwnJob, Intent, InItem
  <2> QED BY <2>4, <2>5 DEF RunInv
<1>3. CASE AdmissionRefused \/ AdmissionFails \/ Settle
  <2>1. run' = IdleRun /\ gate' = NoRun /\ up' = up /\ run.pc # "idle"
    BY <1>3 DEF AdmissionRefused, AdmissionFails, AbortStart, Settle
  <2>2. PICK p : past' = [past EXCEPT ![gate.op] = p]
                 /\ (p = Unsettled("rejected") \/ p = Outcome(gate.op))
    BY <1>3 DEF AdmissionRefused, AdmissionFails, AbortStart, Settle, SettledOutcome
  <2>3. p = Unsettled("rejected") \/ p.disposition \in {"completed", "cancelled", "panicked", "halted"}
    BY <2>2 DEF Outcome, Disposition
  <2>4. PastTyped'
    BY <2>2, <2>3 DEF RunTyped, PastTyped, Settled
  <2>5. up
    BY <2>1 DEF Control, FlagTyped
  <2> QED BY <2>1, <2>4, <2>5, IdleTyped DEF RunInv, RunTyped, Control, OwnJob, Intent, Working
<1>4. CASE Crash
  <2>1. /\ run' = IdleRun /\ gate' = NoRun /\ past' = [j \in Jobs |-> Unsettled("unknown")]
    BY <1>4 DEF Crash
  <2>2. PastTyped'
    BY <2>1 DEF PastTyped
  <2> QED BY <2>1, <2>2, IdleTyped DEF RunInv, RunTyped, Control, OwnJob, Intent, Working
<1> QED BY <1>1, <1>2, <1>3, <1>4 DEF ClaimStep

\* A set of numbers has a least one.
LEMMA LeastNumber ==
    ASSUME NEW S \in SUBSET Nat, S # {}
    PROVE  \E s \in S : \A t \in S : s <= t
<1> DEFINE R == OpToRel(<, Nat)
<1>1. IsWellFoundedOn(R, Nat)
  BY NatLessThanWellFounded
<1>2. \A y \in Nat, x \in Nat : <<y, x>> \in R <=> y < x
  BY DEF OpToRel
<1> HIDE DEF R
<1>3. PICK x \in S : \A y \in S : ~(<<y, x>> \in R)
  BY <1>1, WFMin
<1>4. x \in Nat /\ \A y \in S : y \in Nat /\ ~(y < x)
  BY <1>2, <1>3
<1>5. \A y \in S : x <= y
  BY <1>4
<1> QED BY <1>5

\* The next item is a pending one.
LEMMA NextItemPending ==
    ASSUME NEW j \in Jobs, After(j) # {}
    PROVE  NextItem(j) \in Segments /\ jobs[j].item[NextItem(j)] = "pending"
<1>1. After(j) \in SUBSET Nat
  BY BatchAssumption DEF After, InState
<1>2. \E s \in After(j) : \A t \in After(j) : s <= t
  BY <1>1, LeastNumber
<1>3. NextItem(j) \in After(j)
  BY <1>2 DEF NextItem
<1> QED BY <1>3 DEF After, InState

\* A step of the worker that leaves the journal alone.
LEMMA WorkKeeps ==
    ASSUME JobInv,
           \/ StartCommit \/ Spawn \/ SpawnRefused \/ Pick \/ WorkFails \/ Panic
           \/ FinishFails \/ Record \/ RecordFails \/ DropTerminalFails
           \/ DropRecord \/ DropRecordFails
    PROVE  RunInv'
<1> USE DEF JobInv, Typed
<1>1. /\ run \in Runs /\ gate.op \in Jobs /\ UNCHANGED <<jobs, past, up>>
      /\ run.pc # "idle" /\ past[gate.op] = Unsettled("unknown") /\ up
  BY DEF RunTyped, Control, StartCommit, Spawn, SpawnRefused, Pick, WorkFails, Panic, FinishFails,
         Record, RecordFails, DropTerminalFails, DropRecord, DropRecordFails, journal, FlagTyped
<1>2. gate' \in Gates /\ gate'.op = gate.op
  BY DEF RunTyped, StartCommit, Spawn, SpawnRefused, Pick, WorkFails, Panic, FinishFails,
         Record, RecordFails, DropTerminalFails, DropRecord, DropRecordFails, Gates
\* The invariant of the new state, from what the step makes of the run.
<1>3. ASSUME run' \in Runs, run'.pc \notin {"idle", "claimed"},
             run'.pc = "commit" => run'.cursor \in Segments
                                   /\ jobs[gate.op].item[run'.cursor] = "pending",
             run'.pc \in Working => jobs[gate.op].state = "running" /\ ~run'.terminalized,
             run'.pc \in {"record", "dropRecord", "settle"} =>
               jobs[gate.op].state \in Terminal /\ run'.terminalized,
             run'.pc \in {"drop", "lease"} =>
               \/ run'.terminalized /\ jobs[gate.op].state \in Terminal
               \/ ~run'.terminalized /\ jobs[gate.op].state = "running",
             run'.tokened => jobs[gate.op].state \in Terminal,
             run'.pc \in Working \ {"finish"} => InItem(jobs[gate.op], "failed") = {},
             run'.pc = "finish" =>
               /\ run'.target \in Terminal
               /\ run'.target # "failed" => InItem(jobs[gate.op], "failed") = {}
               /\ run'.target # "succeeded" => run'.code # "none"
      PROVE  RunInv'
  <2>1. RunTyped'
    BY <1>1, <1>2, <1>3 DEF RunTyped, PastTyped, Settled
  <2>2. Control'
    BY <1>1, <1>2, <1>3 DEF Control
  <2>3. OwnJob'
    BY <1>1, <1>2, <1>3 DEF OwnJob
  <2>4. Intent'
    BY <1>1, <1>2, <1>3 DEF Intent, InItem
  <2> QED BY <2>1, <2>2, <2>3, <2>4 DEF RunInv
<1>4. "cancelled" \in Terminal /\ "succeeded" \in Terminal /\ "failed" \in Terminal
      /\ {"none", "CANCELLED", "FAILED"} \subseteq Codes
  BY DEF Terminal, Codes
\* From a working state the row runs, and nothing has failed.
<1>5. run.pc \in Working \ {"finish"} =>
        /\ jobs[gate.op].state = "running" /\ ~run.terminalized /\ ~run.tokened
        /\ InItem(jobs[gate.op], "failed") = {}
  BY DEF OwnJob, Intent, Working, Terminal, RunTyped, Runs
<1>6. CASE StartCommit \/ WorkFails \/ Pick
  <2>1. run.pc \in Working \ {"finish"}
    BY <1>6 DEF StartCommit, WorkFails, Pick, Working
  <2>2. CASE Intend("cancelled", "CANCELLED")
    BY <1>3, <1>4, <1>5, <2>1, <2>2, <1>1, Intended DEF Working
  <2>3. CASE Intend("failed", "FAILED")
    BY <1>3, <1>4, <1>5, <2>1, <2>3, <1>1, Intended DEF Working
  <2>4. CASE Intend("succeeded", "none")
    BY <1>3, <1>4, <1>5, <2>1, <2>4, <1>1, Intended DEF Working
  <2>5. CASE run' = [run EXCEPT !.pc = "spawn"]
    BY <1>3, <1>5, <2>1, <2>5, <1>1, RunAt DEF Working, RunPCs
  <2>6. CASE After(gate.op) # {} /\ run' = [run EXCEPT !.pc = "commit",
                                                       !.cursor = NextItem(gate.op)]
    <3>1. NextItem(gate.op) \in Segments /\ jobs[gate.op].item[NextItem(gate.op)] = "pending"
      BY <1>1, <2>6, NextItemPending
    <3>2. /\ run' \in Runs /\ run'.pc = "commit" /\ run'.cursor = NextItem(gate.op)
          /\ run'.terminalized = run.terminalized /\ run'.tokened = run.tokened
      BY <1>1, <2>6, <3>1 DEF Runs, RunPCs
    <3> QED BY <1>3, <1>5, <2>1, <3>1, <3>2 DEF Working
  <2> QED BY <1>6, <2>2, <2>3, <2>4, <2>5, <2>6 DEF StartCommit, WorkFails, Pick
<1>7. CASE Spawn
  <2>1. run.pc = "spawn" /\ run' = [run EXCEPT !.pc = "work", !.entered = TRUE]
    BY <1>7 DEF Spawn
  <2>2. /\ run' \in Runs /\ run'.pc = "work"
        /\ run'.terminalized = run.terminalized /\ run'.tokened = run.tokened
    BY <1>1, <2>1 DEF Runs, RunPCs
  <2> QED BY <1>3, <1>5, <2>1, <2>2 DEF Working
<1>8. CASE SpawnRefused \/ Panic \/ FinishFails
  <2>1. run.pc \in Working /\ run' = [run EXCEPT !.pc = "drop"]
    BY <1>8 DEF SpawnRefused, Panic, FinishFails, Working
  <2>2. jobs[gate.op].state = "running" /\ ~run.terminalized /\ ~run.tokened
    BY <2>1 DEF OwnJob, Working, Terminal, RunTyped, Runs
  <2> QED BY <1>1, <1>3, <2>1, <2>2, RunAt DEF Working, RunPCs
<1>9. CASE Record \/ RecordFails
  <2>1. run.pc = "record" /\ jobs[gate.op].state \in Terminal
    BY <1>9 DEF Record, RecordFails, OwnJob
  <2>2. /\ run' \in Runs /\ run'.pc = "drop" /\ run'.terminalized = run.terminalized
    BY <1>1, <1>9 DEF Record, RecordFails, Runs, RunPCs
  <2>3. run.terminalized
    BY <2>1 DEF OwnJob
  <2> QED BY <1>3, <2>1, <2>2, <2>3 DEF Working
<1>10. CASE DropTerminalFails
  <2>1. run.pc = "drop" /\ run' = [run EXCEPT !.pc = "lease"]
    BY <1>10 DEF DropTerminalFails
  <2>2. /\ run' \in Runs /\ run'.pc = "lease" /\ run'.terminalized = run.terminalized
        /\ run'.tokened = run.tokened
    BY <1>1, <2>1, RunAt DEF RunPCs
  <2> QED BY <1>3, <2>1, <2>2 DEF Working, OwnJob
<1>11. CASE DropRecord \/ DropRecordFails
  <2>1. run.pc = "dropRecord" /\ jobs[gate.op].state \in Terminal
    BY <1>11 DEF DropRecord, DropRecordFails, OwnJob
  <2>2. PICK p \in {"settle", "lease"} : run' = [run EXCEPT !.pc = p]
    BY <1>11 DEF DropRecord, DropRecordFails, AfterToken
  <2>3. /\ run' \in Runs /\ run'.pc = p /\ run'.terminalized = run.terminalized
        /\ run'.tokened = run.tokened
    BY <1>1, <2>2, RunAt DEF RunPCs
  <2>4. run.terminalized
    BY <2>1 DEF OwnJob
  <2> QED BY <1>3, <2>1, <2>2, <2>3, <2>4 DEF Working
<1> QED BY <1>6, <1>7, <1>8, <1>9, <1>10, <1>11

\* A step of the worker that writes the journal.
LEMMA JournalWorkKeeps ==
    ASSUME JobInv,
           \/ Admit \/ CommitSkips \/ CommitApplies \/ CommitFails
           \/ Finish \/ DropTerminal \/ LeaseDrop
    PROVE  RunInv'
<1> USE DEF JobInv, Typed
<1> DEFINE j == gate.op
<1>1. /\ run \in Runs /\ gate \in Gates /\ j \in Jobs /\ UNCHANGED <<gate, past, up>>
      /\ run.pc # "idle" /\ past[j] = Unsettled("unknown") /\ up
  BY DEF RunTyped, Control, Admit, CommitSkips, CommitApplies, CommitFails, Finish, DropTerminal,
         LeaseDrop, FlagTyped
<1> HIDE DEF j
<1>2. ASSUME NEW q, RowStep(j, q) PROVE jobs'[j] = q
  BY <1>2, PutRow DEF RowStep
\* The row runs on.
<1>3. ASSUME run' \in Runs, run'.pc \in {"admitted", "work", "finish"}, ~run'.terminalized,
             ~run'.tokened, jobs'[j].state = "running",
             run'.pc # "finish" => InItem(jobs'[j], "failed") = {},
             run'.pc = "finish" => run'.target = "failed" /\ run'.code # "none"
      PROVE  RunInv'
  <2>1. RunTyped' /\ Control' /\ OwnJob'
    BY <1>1, <1>3 DEF RunTyped, PastTyped, Settled, Control, OwnJob, Working, j
  <2>2. Intent'
    BY <1>1, <1>3 DEF Intent, InItem, Working, Terminal, j
  <2> QED BY <2>1, <2>2 DEF RunInv
\* The row has ended.
<1>4. ASSUME run' \in Runs, run'.pc \in {"record", "dropRecord", "gone"},
             run'.pc # "gone" => run'.terminalized /\ jobs'[j].state \in Terminal,
             run'.tokened => jobs'[j].state \in Terminal
      PROVE  RunInv'
  BY <1>1, <1>4 DEF RunInv, RunTyped, PastTyped, Settled, Control, OwnJob, Intent, Working, j
<1>5. run.pc \in Working => ~run.terminalized /\ ~run.tokened
  BY DEF OwnJob, Working, Terminal, RunTyped, Runs
<1>6. CASE Admit \/ CommitSkips \/ CommitApplies
  <2>1. run'.pc \in {"admitted", "work"} /\ run' \in Runs /\ run'.terminalized = run.terminalized
        /\ run'.tokened = run.tokened
    BY <1>1, <1>6, RunAt DEF Admit, CommitSkips, CommitApplies, RunPCs
  <2>2. ~run'.terminalized /\ ~run'.tokened
    BY <1>5, <1>6, <2>1 DEF Admit, CommitSkips, CommitApplies, Working, Control, OwnJob
  <2>3. jobs'[j].state = "running" /\ InItem(jobs'[j], "failed") = {}
    <3>1. CASE Admit
      BY <1>2, <3>1, AdmitRow DEF j
    <3>2. CASE CommitSkips
      <4>1. run.pc = "commit" /\ SettleItem(gate.op, run.cursor, "skipped")
        BY <3>2 DEF CommitSkips
      <4>2. PICK q : RowStep(j, q) /\ q.state = "running" /\ InItem(q, "failed") = {}
        BY <4>1, SettleItemRow DEF j
      <4> QED BY <1>2, <4>2
    <3>3. CASE CommitApplies
      <4> DEFINE s == run.cursor
      <4>1. PICK q \in JobRows, p \in [Segments -> Projections] :
                 q = SettledRow(jobs[j], s, "applied", p) /\ jobs' = [jobs EXCEPT ![j] = q]
        BY <3>3, AppliedFacts DEF j
      <4>2. s \in Segments /\ jobs[j].state = "running" /\ jobs[j].item[s] = "pending"
        BY <3>3, AppliedFacts DEF j
      <4>3. jobs[j] \in JobRows /\ RowAgrees(jobs[j])
        BY <1>1 DEF JobsTyped, Evidence
      <4> HIDE DEF s
      <4>4. /\ q.state = "running"
            /\ \A u \in Segments : q.item[u] = IF u = s THEN "applied" ELSE jobs[j].item[u]
        BY <4>1, <4>2, <4>3, SettledRowAgrees
      <4>5. InItem(jobs[j], "failed") = {}
        BY <3>3 DEF Intent, Working, CommitApplies, j
      <4>6. InItem(q, "failed") = {}
        BY <4>4, <4>5 DEF InItem
      <4>7. jobs'[j] = q
        BY <1>1, <4>1, PutRow
      <4> QED BY <4>4, <4>6, <4>7
    <3> QED BY <1>6, <3>1, <3>2, <3>3
  <2> QED BY <1>3, <2>1, <2>2, <2>3
<1>7. CASE CommitFails
  <2>1. run.pc = "commit" /\ SettleItem(gate.op, run.cursor, "failed")
        /\ Intend("failed", "MODEL_CHANGED")
    BY <1>7 DEF CommitFails
  <2>2. PICK q : RowStep(j, q) /\ q.state = "running"
    BY <2>1, SettleItemRow DEF j
  <2>3. "failed" \in Terminal /\ "MODEL_CHANGED" \in Codes
    BY DEF Terminal, Codes
  <2>4. /\ run' \in Runs /\ run'.pc = "finish" /\ run'.target = "failed"
        /\ run'.code = "MODEL_CHANGED"
        /\ run'.terminalized = run.terminalized /\ run'.tokened = run.tokened
    BY <1>1, <2>1, <2>3, Intended
  <2> QED BY <1>2, <1>3, <1>5, <2>1, <2>2, <2>4 DEF Working
<1>8. CASE Finish
  <2>1. run' \in Runs /\ run'.pc = "record" /\ run'.terminalized
    BY <1>1, <1>8 DEF Finish, Runs, RunPCs
  <2>2. jobs'[j].state \in Terminal
    BY <1>2, <1>8, WorkerFinishes DEF j
  <2> QED BY <1>4, <2>1, <2>2
<1>9. CASE DropTerminal
  <2>1. run' \in Runs /\ run'.pc = "dropRecord" /\ run'.terminalized
    BY <1>1, <1>9 DEF DropTerminal, Runs, RunPCs
  <2>2. jobs'[j].state \in Terminal
    BY <1>2, <1>9, WorkerFinishes DEF j
  <2> QED BY <1>4, <2>1, <2>2
<1>10. CASE LeaseDrop
  <2>1. run' = [IdleRun EXCEPT !.pc = "gone"]
    BY <1>10 DEF LeaseDrop
  <2>2. run' \in Runs /\ run'.pc = "gone" /\ ~run'.tokened
    BY <2>1, IdleTyped DEF Runs, RunPCs
  <2> QED BY <1>4, <2>2
<1> QED BY <1>6, <1>7, <1>8, <1>9, <1>10

\* The poll keeps its record.
LEMMA PollKeeps == JobInv /\ [Next]_vars => PollTyped'
<1> SUFFICES ASSUME JobInv, [Next]_vars PROVE PollTyped'
  OBVIOUS
<1>1. /\ poll \in Polls /\ DOMAIN answer = {"op", "kind"} /\ JobsTyped
      /\ poll.pc # "none" => poll.op \in Jobs
  BY DEF JobInv, Typed, PollTyped
<1>2. NoPoll \in Polls /\ DOMAIN NoReply = {"op", "kind"} /\ NoPoll.pc = "none"
  BY DEF NoPoll, Polls, States, NoReply
<1>3. ASSUME NEW k, Reply(k) PROVE PollTyped'
  BY <1>2, <1>3 DEF Reply, PollTyped
<1>4. ASSUME NEW pc \in {"starting", "reread", "publish", "refresh"}, NEW seen \in States,
             Look(pc, seen), poll.pc # "none"
      PROVE  PollTyped'
  <2>1. poll' = [poll EXCEPT !.pc = pc, !.seen = seen] /\ answer' = answer /\ poll.op \in Jobs
    BY <1>4 DEF Look, JobInv, Typed, PollTyped
  <2>2. poll' \in Polls /\ poll'.op = poll.op
    BY <1>1, <2>1 DEF Polls
  <2> QED BY <1>1, <2>1, <2>2 DEF PollTyped
<1>5. "none" \in States /\ \A j \in Jobs : jobs[j].state \in States
  BY <1>1 DEF States, JobsTyped, JobRows
<1>6. CASE \E j \in Polled : PollStart(j)
  <2>1. PICK j \in Polled : PollStart(j)
    BY <1>6
  <2>2. j \in Jobs
    BY BatchAssumption
  <2>3. poll' \in Polls /\ poll'.op = j
    <3>1. CASE jobs[j].state = "none"
      BY <1>5, <2>1, <2>2, <3>1 DEF PollStart, Polls
    <3>2. CASE jobs[j].state # "none"
      BY <1>5, <2>1, <2>2, <3>2 DEF PollStart, Polls
    <3> QED BY <3>1, <3>2
  <2> QED BY <1>1, <2>1, <2>2, <2>3 DEF PollStart, PollTyped
<1>7. CASE PollTracker
  <2>1. poll.pc = "tracker" /\ poll.op \in Jobs
    BY <1>1, <1>7 DEF PollTracker
  <2>2. \/ past[poll.op] \in {Unsettled("unknown"), Unsettled("rejected")}
        \/ Settled(poll.op)
    BY <2>1 DEF JobInv, Typed, RunTyped, PastTyped
  <2>3. Look("starting", "none") \/ \E k : Reply(k)
    BY <1>7, <2>2 DEF PollTracker
  <2> QED BY <1>3, <1>4, <1>5, <2>1, <2>3
<1>8. CASE PollStarting
  BY <1>3, <1>4, <1>5, <1>8 DEF PollStarting
<1>9. CASE PollReread
  <2>1. CASE jobs[poll.op].state = "none"
    BY <1>3, <1>9, <2>1 DEF PollReread
  <2>2. CASE jobs[poll.op].state # "none"
    <3>1. Look("publish", jobs[poll.op].state)
      BY <1>9, <2>2 DEF PollReread
    <3>2. poll.pc = "reread" /\ poll.op \in Jobs
      BY <1>9 DEF PollReread, JobInv, Typed, PollTyped
    <3> QED BY <1>4, <1>5, <3>1, <3>2
  <2> QED BY <2>1, <2>2
<1>10. CASE PollPublish
  BY <1>3, <1>4, <1>5, <1>10 DEF PollPublish
<1>11. CASE PollRefresh
  BY <1>3, <1>11 DEF PollRefresh
<1>12. CASE Crash
  BY <1>2, <1>12 DEF Crash, PollTyped
<1>13. CASE UNCHANGED <<poll, answer>>
  BY <1>1, <1>13 DEF PollTyped
<1> QED BY <1>6, <1>7, <1>8, <1>9, <1>10, <1>11, <1>12, <1>13, Footprint DEF PollStep, Poll

\* A first process has no job.
LEMMA JobInit == Init => JobInv
<1> SUFFICES ASSUME Init PROVE JobInv
  OBVIOUS
<1> DEFINE blank == [rev |-> 0, raw |-> "old", norm |-> FALSE]
           ends == [s \in Segments |-> blank]
           none == [s \in Segments |-> "none"]
<1>1. SegTyped
  <2> DEFINE row == [live |-> TRUE, rev |-> 0, raw |-> "old", norm |-> FALSE, owned |-> FALSE]
  <2>1. row \in SegmentRows
    BY DEF SegmentRows
  <2>2. seg = [s \in Segments |-> row]
    BY DEF Init
  <2> HIDE DEF row
  <2> QED BY <2>1, <2>2 DEF SegTyped
<1>2. blank \in Projections
  BY DEF Projections
<1>3. ends \in [Segments -> Projections] /\ none \in [Segments -> ItemStates]
      /\ \A s \in Segments : none[s] = "none"
  <2> HIDE DEF blank
  <2> QED BY <1>2 DEF ItemStates
<1>4. Unadmitted = [state |-> "none", code |-> "none", done |-> 0, item |-> none,
                    before |-> ends, after |-> ends]
  BY DEF Unadmitted
<1> HIDE DEF blank, ends, none
<1>5. Unadmitted \in JobRows /\ Unadmitted.item = none /\ Unadmitted.state = "none"
      /\ Unadmitted.done = 0
  BY <1>3, <1>4 DEF JobRows, States, Codes
<1>6. ItemsOf(Unadmitted) = {} /\ InItem(Unadmitted, "pending") = {}
  BY <1>3, <1>5 DEF ItemsOf, InItem
<1>7. RowAgrees(Unadmitted)
  <2>1. ItemsOf(Unadmitted) \ InItem(Unadmitted, "pending") = {}
    BY <1>6
  <2> QED BY <1>5, <1>6, <2>1, FS_EmptySet DEF RowAgrees, Terminal
<1>8. jobs = [j \in Jobs |-> Unadmitted]
  BY DEF Init
<1>9. JobsTyped /\ Evidence
  BY <1>5, <1>7, <1>8 DEF JobsTyped, Evidence
<1>10. run = IdleRun /\ gate = NoRun /\ up = TRUE
  BY DEF Init
<1>11. RunTyped /\ FlagTyped
  BY <1>10, IdleTyped DEF Init, RunTyped, PastTyped, FlagTyped
<1>12. HistTyped
  BY EmptySeq DEF Init, HistTyped
<1>13. PollTyped
  BY DEF Init, PollTyped, Polls, NoPoll, NoReply, States
<1>14. Control /\ OwnJob /\ Intent
  BY <1>10, IdleTyped DEF Control, OwnJob, Intent, Working
<1> QED BY <1>1, <1>9, <1>11, <1>12, <1>13, <1>14 DEF JobInv, Typed

\* Every step keeps the agreement of the journal, its worker and the gate.
LEMMA JobNext == JobInv /\ [Next]_vars => JobInv'
<1> SUFFICES ASSUME JobInv, [Next]_vars PROVE JobInv'
  OBVIOUS
<1>1. SegTyped' /\ HistTyped' /\ PollTyped' /\ JobsTyped' /\ Evidence'
  BY SegmentsAdvance, HistoryTyped, PollKeeps, JournalKept
<1>2. FlagTyped'
  <2>1. cancel' \in BOOLEAN
    <3>1. CASE UNCHANGED cancel
      BY <3>1 DEF JobInv, Typed, FlagTyped
    <3>2. CASE cancel' # cancel
      <4>1. ~Poll /\ ~EditStep /\ ~(Undo \/ Redo \/ Start) /\ ~UNCHANGED vars
            /\ ~\E j \in Polled : PollStart(j)
        BY <3>2 DEF Poll, PollTracker, PollStarting, PollReread, PollPublish, PollRefresh, EditStep,
                    Decide, Reopen, Rewrite, Delete, Edit, Undo, Redo, Start, vars, PollStart,
                    process
      <4>2. CASE Cancel \/ Crash \/ ClaimStep
        BY <3>2, <4>2 DEF Cancel, Crash, ClaimStep, TryStart, TryStartBusy
      <4>3. CASE Worker
        BY <3>2, <4>3 DEF Worker, AdmissionRefused, AdmissionFails, AbortStart, Admit, StartCommit,
             Spawn, SpawnRefused, Pick, WorkFails, Panic, CommitSkips, CommitApplies, CommitFails,
             Finish, FinishFails, Record, RecordFails, DropTerminal, DropTerminalFails, DropRecord,
             DropRecordFails, LeaseDrop, Settle
      <4> QED BY <4>1, <4>2, <4>3 DEF Next, ClaimStep, EditStep
    <3> QED BY <3>1, <3>2
  <2>2. up' \in BOOLEAN
    BY Footprint DEF JobInv, Typed, FlagTyped, Crash, Start
  <2> QED BY <2>1, <2>2 DEF FlagTyped
<1>3. RunInv'
  <2>1. CASE UNCHANGED <<gate, past, run, jobs, up>>
    BY <2>1 DEF JobInv, Typed, RunInv, RunTyped, PastTyped, Settled, Control, OwnJob, Intent, InItem
  <2>2. CASE UNCHANGED <<gate, past, run>> /\ Start
    <3>1. run.pc = "idle"
      BY <2>2 DEF Start, JobInv, Control
    <3>2. \A j \in Jobs : past[j] = Unsettled("unknown")
      BY <2>2 DEF Start, JobInv, Control
    <3>3. RunTyped' /\ Control'
      BY <2>2, <3>1, <3>2 DEF JobInv, Typed, RunTyped, PastTyped, Settled, Control
    <3>4. OwnJob' /\ Intent'
      BY <2>2, <3>1 DEF OwnJob, Intent, Working
    <3> QED BY <3>3, <3>4 DEF RunInv
  <2>3. CASE RunStep
    BY <2>3, ClaimKeeps, WorkKeeps, JournalWorkKeeps DEF RunStep, Worker
  <2>4. CASE ~RunStep /\ ~Start
    <3>1. UNCHANGED <<gate, past, run, up>>
      BY <2>4, Footprint DEF RunStep
    <3>2. UNCHANGED jobs
      BY <2>4, Footprint DEF RunStep, JournalStep, Worker
    <3> QED BY <2>1, <3>1, <3>2
  <2>5. CASE ~RunStep /\ Start
    BY <2>2, <2>5, Footprint
  <2> QED BY <2>3, <2>4, <2>5
<1> QED BY <1>1, <1>2, <1>3 DEF JobInv, Typed, RunInv

\* The header of a job agrees with its items at every moment: whatever arrives
\* and whenever, no reader finds a row that status_from_header_on would refuse.
THEOREM JournalAgrees == Spec => []EvidenceAgrees
<1>1. JobInv => EvidenceAgrees
  BY DEF JobInv, Evidence, RowAgrees, EvidenceAgrees, InItem, ItemsOf, InState, Items
<1> QED BY <1>1, JobInit, JobNext, PTL DEF Spec

-----------------------------------------------------------------------------
(* Settlement and what the renderer is told.                               *)

\* Whose undo authority is bound, and who may settle, has its effects on record.
Bound ==
    run.pc # "idle" /\ (run.tokened \/ run.pc = "settle") =>
        (InState(gate.op, "applied") # {} => gate.op \in recorded)

\* A poll that saw an end has seen one that lasts.
PollSaw ==
    /\ poll.pc = "publish" /\ poll.seen \in Terminal => jobs[poll.op].state \in Terminal
    /\ poll.pc = "refresh" => Settled(poll.op)

SettleInv == SettledIsProved /\ Bound /\ PollSaw

\* The history forgets nothing while the process lives.
LEMMA RecordedGrows ==
    ASSUME [Next]_vars, ~Crash
    PROVE  recorded \subseteq recorded'
<1>1. CASE Record \/ DropRecord
  BY <1>1 DEF Record, DropRecord, Remember, history
<1>2. CASE Undo \/ Redo
  BY <1>2 DEF Undo, Redo
<1>3. CASE Start
  BY <1>3 DEF Start, Remember, history
<1> QED BY <1>1, <1>2, <1>3, Footprint DEF HistoryStep

\* The tracker forgets no settlement while the process lives.
LEMMA PastKept ==
    ASSUME JobInv, [Next]_vars, ~Crash, NEW j \in Jobs
    PROVE  \/ past'[j] = past[j]
           \/ past'[j] = Unsettled("rejected") /\ ~Settled(j)
           \/ Settle /\ j = gate.op /\ past'[j] = Outcome(j) /\ ~Settled(j)
<1>1. DOMAIN past = Jobs
  BY DEF JobInv, Typed, RunTyped, PastTyped
<1>2. run.pc # "idle" => gate.op \in Jobs /\ ~Settled(gate.op)
  BY DEF JobInv, Control, Settled, Unsettled
<1>3. CASE ClaimStep
  <2>1. CASE UNCHANGED past
    BY <2>1
  <2>2. CASE \E k \in Jobs : TryStartBusy(k)
    BY <1>1, <2>2 DEF TryStartBusy, Settled, Unsettled
  <2> QED BY <1>3, <2>1, <2>2 DEF ClaimStep, TryStart
<1>4. CASE AdmissionRefused \/ AdmissionFails
  BY <1>1, <1>2, <1>4 DEF AdmissionRefused, AdmissionFails, AbortStart
<1>5. CASE Settle
  BY <1>1, <1>2, <1>5 DEF Settle, SettledOutcome
<1>6. CASE Worker /\ ~(AdmissionRefused \/ AdmissionFails \/ Settle)
  BY <1>6 DEF Worker, Admit, StartCommit, Spawn, SpawnRefused, Pick, WorkFails, Panic, CommitSkips,
       CommitApplies, CommitFails, Finish, FinishFails, Record, RecordFails, DropTerminal,
       DropTerminalFails, DropRecord, DropRecordFails, LeaseDrop
<1> QED BY <1>3, <1>4, <1>5, <1>6, Footprint DEF RunStep

\* A row that stays makes the outcome stay.
LEMMA OutcomeKept ==
    ASSUME NEW j \in Jobs, jobs'[j] = jobs[j]
    PROVE  Outcome(j)' = Outcome(j) /\ \A t : InState(j, t)' = InState(j, t)
  BY DEF Outcome, InState, Disposition

\* A settled run stays proved, and becomes settled only when it is.
LEMMA SettledKept == JobInv /\ SettleInv /\ [Next]_vars => SettledIsProved'
<1> SUFFICES ASSUME JobInv, SettleInv, [Next]_vars PROVE SettledIsProved'
  OBVIOUS
<1>1. CASE Crash
  <2>1. past' = [j \in Jobs |-> Unsettled("unknown")]
    BY <1>1 DEF Crash
  <2>2. \A j \in Jobs : ~Settled(j)'
    BY <2>1 DEF Settled, Unsettled
  <2> QED BY <2>2 DEF SettledIsProved
<1>2. CASE ~Crash
  <2> SUFFICES ASSUME NEW j \in Jobs, Settled(j)'
               PROVE  /\ jobs'[j].state \in Terminal /\ past'[j] = Outcome(j)'
                      /\ InState(j, "applied")' # {} => j \in recorded'
    BY DEF SettledIsProved
  <2>1. recorded \subseteq recorded'
    BY <1>2, RecordedGrows
  <2>2. CASE past'[j] = past[j]
    <3>1. Settled(j)
      BY <2>2 DEF Settled
    <3>2. /\ jobs[j].state \in Terminal /\ past[j] = Outcome(j)
          /\ InState(j, "applied") # {} => j \in recorded
      BY <3>1 DEF SettleInv, SettledIsProved
    <3>3. jobs'[j] = jobs[j]
      BY <3>2, JournalKept
    <3>4. Outcome(j)' = Outcome(j) /\ InState(j, "applied")' = InState(j, "applied")
      BY <3>3, OutcomeKept
    <3> QED BY <2>1, <2>2, <3>2, <3>3, <3>4
  <2>3. CASE past'[j] = Unsettled("rejected")
    BY <2>3 DEF Settled, Unsettled
  <2>4. CASE Settle /\ j = gate.op /\ past'[j] = Outcome(j)
    <3>1. run.pc = "settle" /\ jobs' = jobs
      BY <2>4 DEF Settle, journal
    <3>2. jobs[j].state \in Terminal
      BY <2>4, <3>1 DEF JobInv, OwnJob
    <3>3. InState(j, "applied") # {} => j \in recorded
      BY <2>4, <3>1 DEF SettleInv, Bound
    <3>4. Outcome(j)' = Outcome(j) /\ InState(j, "applied")' = InState(j, "applied")
      BY <3>1, OutcomeKept
    <3> QED BY <2>1, <2>4, <3>1, <3>2, <3>3, <3>4
  <2> QED BY <1>2, <2>2, <2>3, <2>4, PastKept
<1> QED BY <1>1, <1>2

\* The record of a batch is made before its worker may settle.
LEMMA BoundKept == JobInv /\ SettleInv /\ [Next]_vars => Bound'
<1> SUFFICES ASSUME JobInv, SettleInv, [Next]_vars, run'.pc # "idle",
                    run'.tokened \/ run'.pc = "settle", InState(gate.op, "applied")' # {}
             PROVE  gate'.op \in recorded'
  BY DEF Bound
<1>1. ~Crash
  BY IdleTyped DEF Crash
<1>2. recorded \subseteq recorded'
  BY <1>1, RecordedGrows
<1>3. ASSUME UNCHANGED gate, run.pc # "idle", run.tokened \/ run.pc = "settle"
      PROVE  gate'.op \in recorded'
  <2>1. gate.op \in Jobs /\ jobs[gate.op].state \in Terminal
    BY <1>3 DEF JobInv, Control, OwnJob
  <2>2. jobs'[gate.op] = jobs[gate.op]
    BY <2>1, JournalKept
  <2>3. InState(gate.op, "applied")' = InState(gate.op, "applied")
    BY <1>3, <2>1, <2>2, OutcomeKept DEF InState
  <2> QED BY <1>2, <1>3, <2>3 DEF SettleInv, Bound
<1>4. ASSUME gate.op \in Jobs, UNCHANGED <<gate, jobs>>, Remember(gate.op, undo)
      PROVE  gate'.op \in recorded'
  <2>1. InState(gate.op, "applied") # {}
    BY <1>4 DEF InState
  <2> QED BY <1>2, <1>4, <2>1 DEF Remember, history
<1>5. CASE UNCHANGED <<gate, run>>
  BY <1>3, <1>5
<1>6. CASE Worker
  <2>1. run.pc # "idle"
    BY <1>6 DEF Worker, AdmissionRefused, AdmissionFails, Admit, StartCommit, Spawn, SpawnRefused,
         Pick, WorkFails, Panic, CommitSkips, CommitApplies, CommitFails, Finish, FinishFails,
         Record, RecordFails, DropTerminal, DropTerminalFails, DropRecord, DropRecordFails,
         LeaseDrop, Settle
  <2>2. gate.op \in Jobs /\ run \in Runs
    BY <2>1 DEF JobInv, Typed, RunTyped, Control
  <2>3. CASE Record
    <3>1. run'.pc = "drop" /\ run'.tokened = ~TokenConflict(gate.op)
      BY <2>2, <2>3 DEF Record, Runs
    <3>2. Remember(gate.op, undo) /\ UNCHANGED <<gate, jobs>>
      BY <2>3, <3>1 DEF Record, journal
    <3> QED BY <1>4, <2>2, <3>2
  <2>4. CASE DropRecord
    <3> DEFINE ok == run.tokened \/ ~TokenConflict(gate.op)
    <3>1. run'.pc = AfterToken(ok) /\ run'.tokened = run.tokened /\ UNCHANGED <<gate, jobs>>
      BY <2>2, <2>4 DEF DropRecord, Runs, journal
    <3>2. CASE run.tokened
      BY <1>3, <2>1, <3>1, <3>2
    <3>3. CASE ~run.tokened
      <4>1. ok
        BY <3>1, <3>3 DEF AfterToken
      <4>2. Remember(gate.op, undo)
        BY <2>4, <3>3, <4>1 DEF DropRecord
      <4> QED BY <1>4, <2>2, <3>1, <4>2
    <3> QED BY <3>2, <3>3
  <2>5. CASE ~Record /\ ~DropRecord
    <3>1. run'.tokened /\ run.tokened /\ gate'.op = gate.op
      <4>1. ~(AdmissionRefused \/ AdmissionFails \/ LeaseDrop \/ Settle)
        BY IdleTyped DEF AdmissionRefused, AdmissionFails, AbortStart, LeaseDrop, Settle, IdleRun
      <4>2. gate \in Gates
        BY DEF JobInv, Typed, RunTyped
      <4>3. CASE Admit \/ StartCommit \/ Spawn \/ SpawnRefused \/ Pick \/ WorkFails \/ Panic
        BY <2>2, <4>2, <4>3 DEF Admit, StartCommit, Spawn, SpawnRefused, Pick, WorkFails, Panic,
                                Intend, Runs, Gates
      <4>4. CASE CommitSkips \/ CommitApplies \/ CommitFails \/ Finish \/ FinishFails
        BY <2>2, <4>4 DEF CommitSkips, CommitApplies, CommitFails, Finish, FinishFails, Intend, Runs
      <4>5. CASE RecordFails \/ DropTerminal \/ DropTerminalFails \/ DropRecordFails
        BY <2>2, <4>5 DEF RecordFails, DropTerminal, DropTerminalFails, DropRecordFails, AfterToken,
                          Runs
      <4> QED BY <1>6, <2>5, <4>1, <4>3, <4>4, <4>5 DEF Worker
    <3>2. gate.op \in Jobs /\ jobs[gate.op].state \in Terminal
      BY <2>1, <3>1 DEF JobInv, Control, OwnJob
    <3>3. jobs'[gate.op] = jobs[gate.op]
      BY <3>2, JournalKept
    <3>4. InState(gate.op, "applied")' = InState(gate.op, "applied")
      BY <3>1, <3>3 DEF InState
    <3> QED BY <1>2, <2>1, <3>1, <3>4 DEF SettleInv, Bound
  <2> QED BY <2>3, <2>4, <2>5
<1>7. CASE ClaimStep
  <2>1. CASE UNCHANGED <<gate, run>>
    BY <1>5, <2>1
  <2>2. CASE \E j \in Jobs, chosen \in SUBSET Segments \ {{}} : TryStart(j, chosen)
    BY <2>2, IdleTyped DEF TryStart, IdleRun
  <2> QED BY <1>7, <2>1, <2>2 DEF ClaimStep, TryStartBusy
<1> QED BY <1>1, <1>5, <1>6, <1>7, Footprint DEF RunStep

\* What a poll has seen lasts until it answers.
LEMMA PollSawKept == JobInv /\ SettleInv /\ [Next]_vars => PollSaw'
<1> SUFFICES ASSUME JobInv, SettleInv, [Next]_vars PROVE PollSaw'
  OBVIOUS
<1>1. CASE Crash
  BY <1>1 DEF Crash, PollSaw, NoPoll
<1>2. CASE ~Crash
  <2>1. \A j \in Jobs : jobs[j].state \in Terminal => jobs'[j].state \in Terminal
    BY JournalKept
  <2>2. \A j \in Jobs : Settled(j) => Settled(j)'
    BY <1>2, PastKept DEF Settled
  <2>3. /\ poll \in Polls /\ (poll.pc # "none" => poll.op \in Jobs)
        /\ PollSaw
    BY DEF JobInv, Typed, PollTyped, SettleInv
  <2>4. CASE UNCHANGED poll
    BY <2>1, <2>2, <2>3, <2>4 DEF PollSaw, Settled
  <2>5. CASE poll' = NoPoll
    BY <2>5 DEF PollSaw, NoPoll
  <2>6. CASE \E j \in Polled : PollStart(j)
    <3>1. PICK j \in Polled : PollStart(j)
      BY <2>6
    <3>2. j \in Jobs /\ poll'.op = j /\ poll'.seen = jobs[j].state
          /\ poll'.pc \in {"tracker", "publish"}
      BY <3>1, BatchAssumption DEF PollStart
    <3> QED BY <2>1, <3>2 DEF PollSaw
  <2>7. CASE Poll
    <3>1. poll.op \in Jobs /\ poll.pc # "none"
      BY <2>3, <2>7 DEF Poll, PollTracker, PollStarting, PollReread, PollPublish, PollRefresh
    <3>2. \/ poll' = NoPoll
          \/ \E pc \in {"starting", "reread"} : Look(pc, "none")
          \/ Look("publish", jobs[poll.op].state)
          \/ Settled(poll.op) /\ Look("refresh", "none")
      <4>1. CASE PollTracker
        <5>1. \/ past[poll.op] \in {Unsettled("unknown"), Unsettled("rejected")}
              \/ Settled(poll.op)
          BY <3>1 DEF JobInv, Typed, RunTyped, PastTyped
        <5> QED BY <4>1, <5>1 DEF PollTracker, Reply
      <4>2. CASE PollStarting \/ PollReread \/ PollRefresh
        BY <4>2 DEF PollStarting, PollReread, PollRefresh, Reply
      <4>3. CASE PollPublish
        BY <4>3 DEF PollPublish, Reply
      <4> QED BY <2>7, <4>1, <4>2, <4>3 DEF Poll
    <3>3. ASSUME NEW pc, NEW seen, Look(pc, seen)
          PROVE  poll'.pc = pc /\ poll'.seen = seen /\ poll'.op = poll.op
      BY <2>3, <3>3 DEF Look, Polls
    <3>4. CASE \E pc \in {"starting", "reread"} : Look(pc, "none")
      BY <3>3, <3>4 DEF PollSaw
    <3>5. CASE Look("publish", jobs[poll.op].state)
      BY <2>1, <3>1, <3>3, <3>5 DEF PollSaw
    <3>6. CASE Settled(poll.op) /\ Look("refresh", "none")
      BY <2>2, <3>1, <3>3, <3>6 DEF PollSaw, Settled
    <3> QED BY <2>5, <3>2, <3>4, <3>5, <3>6
  <2> QED BY <1>2, <2>4, <2>6, <2>7, Footprint DEF PollStep
<1> QED BY <1>1, <1>2

\* Both invariants, always.
LEMMA SettleAlways == Spec => [](JobInv /\ SettleInv)
<1>1. Init => SettleInv
  <2> SUFFICES ASSUME Init PROVE SettleInv
    OBVIOUS
  <2>1. \A j \in Jobs : ~Settled(j)
    BY DEF Init, Settled, Unsettled
  <2> QED BY <2>1, IdleTyped DEF Init, SettleInv, SettledIsProved, Bound, PollSaw, NoPoll
<1>2. JobInv /\ SettleInv /\ [Next]_vars => SettleInv'
  BY SettledKept, BoundKept, PollSawKept DEF SettleInv
<1> QED BY <1>1, <1>2, JobInit, JobNext, PTL DEF Spec

\* The gate is reopened on durable terminal truth and exact undo authority, for
\* any number of faults on the way (DurableBatchWorkerGuard::drop).
THEOREM SettledProved == Spec => []SettledIsProved
  BY SettleAlways, PTL DEF SettleInv

\* The renderer is told that a run settled only of an end that lasts, with the
\* gate open (publishable_durable_batch_status).
THEOREM SettledAnswersFinal == Spec => SettledAnswerIsFinal
<1>1. JobInv /\ SettleInv /\ [Next]_vars =>
        [answer' # answer /\ answer'.kind = "settled" =>
            gate.op # answer'.op /\ jobs[answer'.op].state \in Terminal]_vars
  <2> SUFFICES ASSUME JobInv, SettleInv, [Next]_vars, answer' # answer, answer'.kind = "settled"
               PROVE  gate.op # answer'.op /\ jobs[answer'.op].state \in Terminal
    OBVIOUS
  <2>1. Poll
    <3>1. ~Crash /\ ~\E j \in Polled : PollStart(j)
      BY DEF Crash, NoReply, PollStart
    <3> QED BY <3>1, Footprint DEF PollStep
  <2>2. poll.op \in Jobs
    BY <2>1 DEF JobInv, Typed, PollTyped, Poll, PollTracker, PollStarting, PollReread, PollPublish,
                PollRefresh
  <2>3. ASSUME NEW k, Reply(k) PROVE answer'.op = poll.op /\ k = "settled"
    BY <2>3 DEF Reply
  <2>4. ASSUME NEW pc, NEW seen, Look(pc, seen) PROVE FALSE
    BY <2>4 DEF Look
  <2>5. ASSUME NEW j \in Jobs, Settled(j) PROVE gate.op # j /\ jobs[j].state \in Terminal
    <3>1. jobs[j].state \in Terminal
      BY <2>5 DEF SettleInv, SettledIsProved
    <3>2. gate.op # j
      BY <2>5, BatchAssumption, IdleTyped DEF JobInv, Control, Settled, Unsettled
    <3> QED BY <3>1, <3>2
  <2>6. CASE PollTracker
    <3>1. \/ past[poll.op] \in {Unsettled("unknown"), Unsettled("rejected")}
          \/ Settled(poll.op)
      BY <2>2 DEF JobInv, Typed, RunTyped, PastTyped
    <3>2. Look("starting", "none") \/ \E k \in {"unknown", "rejected", "invalid"} : Reply(k)
      BY <2>6, <3>1 DEF PollTracker
    <3> QED BY <2>3, <2>4, <3>2
  <2>7. CASE PollStarting \/ PollReread
    <3>1. (\E pc, seen : Look(pc, seen)) \/ \E k \in {"starting", "invalid"} : Reply(k)
      BY <2>7 DEF PollStarting, PollReread
    <3> QED BY <2>3, <2>4, <3>1
  <2>8. CASE PollPublish
    <3>1. gate.op # poll.op
      <4> SUFFICES ASSUME gate.op = poll.op PROVE FALSE
        OBVIOUS
      <4>1. Reply("running")
        BY <2>8 DEF PollPublish, WhileGated
      <4> QED BY <2>3, <4>1
    <3>2. CASE Settled(poll.op)
      <4>1. answer'.op = poll.op
        BY <2>3, <2>4, <2>8, <3>1, <3>2 DEF PollPublish
      <4> QED BY <2>2, <2>5, <3>2, <4>1
    <3>3. CASE ~Settled(poll.op)
      <4>1. Reply(IF poll.seen \in Terminal THEN "settled" ELSE "invalid")
        BY <2>8, <3>1, <3>3 DEF PollPublish
      <4>2. answer'.op = poll.op /\ poll.seen \in Terminal
        BY <2>3, <4>1
      <4> QED BY <2>8, <3>1, <4>2 DEF SettleInv, PollSaw, PollPublish
    <3> QED BY <3>2, <3>3
  <2>9. CASE PollRefresh
    <3>1. answer'.op = poll.op
      BY <2>3, <2>9 DEF PollRefresh
    <3>2. Settled(poll.op)
      BY <2>9 DEF PollRefresh, SettleInv, PollSaw
    <3> QED BY <2>2, <2>5, <3>1, <3>2
  <2> QED BY <2>1, <2>6, <2>7, <2>8, <2>9 DEF Poll
<1> QED BY <1>1, SettleAlways, PTL DEF Spec, SettledAnswerIsFinal

-----------------------------------------------------------------------------
(* The Undo history.                                                       *)

Elements(stack) == {stack[i] : i \in 1..Len(stack)}
Held == Elements(undo) \cup Elements(redo)

\* Where a command stands: on the text of its endpoint, which no human owns, or
\* behind the segment's revision.
Stands(t) ==
    /\ t.op \in Jobs /\ jobs[t.op].state \in Terminal
    /\ \A s \in Covered(t) :
         /\ t.at[s] \in Nat /\ t.at[s] <= seg[s].rev
         /\ seg[s].rev = t.at[s] => SameText(Projection(s), Source(t, s)) /\ ~seg[s].owned

\* What a batch applied is still there until the revision advances.
AppliedStands ==
    \A j \in Jobs : \A s \in InState(j, "applied") :
        /\ jobs[j].after[s].rev \in Nat /\ jobs[j].after[s].rev <= seg[s].rev
        /\ seg[s].rev = jobs[j].after[s].rev =>
             SameText(Projection(s), jobs[j].after[s]) /\ ~seg[s].owned

HistInv == AppliedStands /\ \A t \in Held : Stands(t)

\* A segment as its projection shows it.
LEMMA SameProjection ==
    ASSUME NEW s \in Segments, NEW p
    PROVE  SameText(Projection(s), p) <=> SameText(seg[s], p)
  BY DEF SameText, Projection

\* A command that stands goes on standing, or falls behind.
LEMMA StandsOn ==
    ASSUME JobInv, [Next]_vars, NEW t, Stands(t)
    PROVE  Stands(t)'
<1>1. t.op \in Jobs /\ jobs'[t.op] = jobs[t.op] /\ jobs[t.op].state \in Terminal
  BY JournalKept DEF Stands
<1>2. Covered(t)' = Covered(t) /\ Covered(t) \subseteq Segments
      /\ \A s \in Segments : Source(t, s)' = Source(t, s)
  BY <1>1 DEF Covered, InState, Source
<1>3. SegTyped /\ \A s \in Segments : seg'[s] = seg[s] \/ seg'[s].rev = seg[s].rev + 1
  BY SegmentsAdvance DEF JobInv, Typed
<1>4. ASSUME NEW s \in Covered(t)
      PROVE  /\ t.at[s] \in Nat /\ t.at[s] <= seg'[s].rev
             /\ seg'[s].rev = t.at[s] => SameText(Projection(s), Source(t, s))' /\ ~seg'[s].owned
  <2>1. /\ s \in Segments /\ seg[s].rev \in Nat /\ t.at[s] \in Nat /\ t.at[s] <= seg[s].rev
        /\ seg[s].rev = t.at[s] => SameText(Projection(s), Source(t, s)) /\ ~seg[s].owned
    BY <1>2, <1>3, ProjectionTyped DEF Stands
  <2>2. CASE seg'[s] = seg[s]
    BY <1>2, <2>1, <2>2 DEF SameText, Projection
  <2>3. CASE seg'[s].rev = seg[s].rev + 1
    BY <2>1, <2>3
  <2> QED BY <1>3, <2>1, <2>2, <2>3
<1> QED BY <1>1, <1>2, <1>4 DEF Stands

\* Applied work goes on standing, and a commit leaves new work standing.
LEMMA AppliedOn == JobInv /\ HistInv /\ [Next]_vars => AppliedStands'
<1> SUFFICES ASSUME JobInv, HistInv, [Next]_vars,
                    NEW j \in Jobs, NEW s \in InState(j, "applied")'
             PROVE  /\ jobs'[j].after[s].rev \in Nat /\ jobs'[j].after[s].rev <= seg'[s].rev
                    /\ seg'[s].rev = jobs'[j].after[s].rev =>
                         SameText(Projection(s), jobs[j].after[s])' /\ ~seg'[s].owned
  BY DEF AppliedStands
<1>1. s \in Segments /\ jobs'[j].item[s] = "applied"
  BY DEF InState
<1>2. /\ SegTyped /\ seg[s].rev \in Nat /\ JobsTyped
      /\ seg'[s] = seg[s] \/ seg'[s].rev = seg[s].rev + 1
  BY <1>1, SegmentsAdvance, ProjectionTyped DEF JobInv, Typed
\* What was there before.
<1>3. ASSUME jobs[j].item[s] = "applied", jobs'[j].after[s] = jobs[j].after[s]
      PROVE  /\ jobs'[j].after[s].rev \in Nat /\ jobs'[j].after[s].rev <= seg'[s].rev
             /\ seg'[s].rev = jobs'[j].after[s].rev =>
                  SameText(Projection(s), jobs[j].after[s])' /\ ~seg'[s].owned
  <2> DEFINE p == jobs[j].after[s]
  <2>1. /\ p.rev \in Nat /\ p.rev <= seg[s].rev
        /\ seg[s].rev = p.rev => SameText(Projection(s), p) /\ ~seg[s].owned
    BY <1>1, <1>3 DEF HistInv, AppliedStands, InState
  <2>2. jobs'[j].after[s] = p
    BY <1>3
  <2> HIDE DEF p
  <2>3. CASE seg'[s] = seg[s]
    BY <2>1, <2>2, <2>3 DEF SameText, Projection
  <2>4. CASE seg'[s].rev = seg[s].rev + 1
    BY <1>2, <2>1, <2>2, <2>4
  <2> QED BY <1>2, <2>3, <2>4
<1>4. ASSUME NEW k, NEW q, RowStep(k, q), AppliesNothing(k, q)
      PROVE  jobs[j].item[s] = "applied" /\ jobs'[j].after[s] = jobs[j].after[s]
  <2>1. jobs'[k] = q /\ \A i \in Jobs : i # k => jobs'[i] = jobs[i]
    BY <1>2, <1>4, PutRow DEF RowStep
  <2>2. CASE j # k
    BY <1>1, <2>1, <2>2
  <2>3. CASE j = k
    <3>1. jobs[j].item[s] = "applied"
      BY <1>1, <1>4, <2>1, <2>3 DEF AppliesNothing
    <3>2. q.after = jobs[j].after
      BY <1>1, <1>4, <2>3, <3>1 DEF AppliesNothing, InState
    <3> QED BY <2>1, <2>3, <3>1, <3>2
  <2> QED BY <2>2, <2>3
<1>5. CASE UNCHANGED jobs
  BY <1>1, <1>3, <1>5
<1>6. CASE Admit
  BY <1>3, <1>4, <1>6, AdmitRow
<1>7. CASE CommitSkips \/ CommitFails
  <2>1. run.pc = "commit" /\ \E t \in {"skipped", "failed"} : SettleItem(gate.op, run.cursor, t)
    BY <1>7 DEF CommitSkips, CommitFails
  <2>2. \E q : RowStep(gate.op, q) /\ AppliesNothing(gate.op, q)
    BY <2>1, SettleItemRow
  <2> QED BY <1>3, <1>4, <2>2
<1>8. CASE Finish \/ DropTerminal \/ LeaseDrop
  BY <1>3, <1>4, <1>5, <1>8, WorkerFinishes
<1>9. CASE Start
  BY <1>3, <1>4, <1>5, <1>9, StartFinishes
<1>10. CASE CommitApplies
  <2> DEFINE k == gate.op
             c == run.cursor
  <2>1. /\ k \in Jobs /\ c \in Segments /\ Unchanged(k, c) /\ jobs[k].state = "running"
        /\ jobs[k].item[c] = "pending" /\ seg'[c].owned = seg[c].owned
    BY <1>10, AppliedFacts
  <2>2. PICK q \in JobRows, p \in [Segments -> Projections] :
             /\ q = SettledRow(jobs[k], c, "applied", p) /\ jobs' = [jobs EXCEPT ![k] = q]
             /\ p[c].rev = seg'[c].rev /\ SameText(p[c], seg'[c])
             /\ \A u \in Segments : u # c => p[u] = jobs[k].after[u]
    BY <1>10, AppliedFacts
  <2>3. jobs[k] \in JobRows /\ RowAgrees(jobs[k])
    BY <2>1 DEF JobInv, Typed, JobsTyped, Evidence
  <2> HIDE DEF k, c
  <2>4. /\ q.after = p
        /\ \A u \in Segments : q.item[u] = IF u = c THEN "applied" ELSE jobs[k].item[u]
    BY <2>1, <2>2, <2>3, SettledRowAgrees
  <2>5. jobs'[k] = q /\ \A i \in Jobs : i # k => jobs'[i] = jobs[i]
    BY <1>2, <2>1, <2>2, PutRow
  <2>6. CASE j # k
    BY <1>1, <1>3, <2>5, <2>6
  <2>7. CASE j = k /\ s # c
    BY <1>1, <1>3, <2>2, <2>4, <2>5, <2>7
  <2>8. CASE j = k /\ s = c
    <3>1. jobs'[j].after[s] = p[s] /\ p[s].rev = seg'[s].rev /\ SameText(p[s], seg'[s])
      BY <2>2, <2>4, <2>5, <2>8
    <3>2. ~seg'[s].owned
      BY <2>1, <2>8 DEF Unchanged
    <3>3. seg'[s].rev \in Nat
      BY <1>1, <1>2
    <3> QED BY <1>1, <3>1, <3>2, <3>3 DEF SameText, Projection
  <2> QED BY <2>6, <2>7, <2>8
<1> QED BY <1>5, <1>6, <1>7, <1>8, <1>9, <1>10, Footprint DEF JournalStep

\* The command of a batch is made where its effects stand.
LEMMA NewTokenStands ==
    ASSUME JobInv, HistInv, AppliedStands', [Next]_vars, seg' = seg, NEW j \in Jobs,
           jobs'[j].state \in Terminal, jobs'[j].after = jobs[j].after,
           InState(j, "applied")' = InState(j, "applied"), ~TokenConflict(j)
    PROVE  \A n : n = Token(j) => Stands(n)'
<1> SUFFICES ASSUME NEW t, t = Token(j) PROVE Stands(t)'
  OBVIOUS
<1>1. SegTyped
  BY DEF JobInv, Typed
<1>2. t.op = j /\ t.side = "after" /\ \A s \in InState(j, "applied") : t.at[s] = seg[s].rev
  BY <1>1, NewTokenTyped DEF Tokens
<1>3. /\ Covered(t)' = InState(j, "applied")
      /\ \A s \in Segments : Source(t, s)' = jobs[j].after[s]
  BY <1>2 DEF Covered, Source
<1>4. ASSUME NEW s \in InState(j, "applied")
      PROVE  /\ t.at[s] \in Nat /\ t.at[s] <= seg[s].rev
             /\ SameText(Projection(s), jobs[j].after[s]) /\ ~seg[s].owned
  <2>1. s \in Segments /\ seg[s].rev \in Nat
    BY <1>1, ProjectionTyped DEF InState
  <2>2. Projection(s) = jobs[j].after[s]
    BY DEF TokenConflict, AtEndpoint
  <2>3. seg[s].rev = jobs[j].after[s].rev
    BY <2>2 DEF Projection
  <2> QED BY <1>2, <2>1, <2>3 DEF HistInv, AppliedStands
<1>5. InState(j, "applied") \subseteq Segments
  BY DEF InState
<1>6. \A s \in Segments : Projection(s)' = Projection(s)
  BY DEF Projection
<1> QED BY <1>2, <1>3, <1>4, <1>5, <1>6 DEF Stands, SameText

\* An Undo or a Redo leaves its counterpart standing on the other endpoint.
LEMMA NextTokenStands ==
    ASSUME JobInv, NEW side \in {"before", "after"}, NEW t \in Tokens(side), Stands(t),
           ApplyHistory(t), jobs' = jobs
    PROVE  \A n : n = NextToken(t) => Stands(n)'
<1> SUFFICES ASSUME NEW n, n = NextToken(t) PROVE Stands(n)'
  OBVIOUS
<1>1. SegTyped /\ JobsTyped
  BY DEF JobInv, Typed
<1>2. t.op \in Jobs /\ t.side = side /\ Covered(t) \subseteq Segments
  BY <1>1, TokenTyped
<1>3. n.op = t.op /\ n.side = (IF side = "after" THEN "before" ELSE "after")
      /\ \A s \in Covered(t) \cap Segments : n.at[s] = seg[s].rev + 1
  BY <1>1, NextTokenTyped DEF Tokens
<1>4. \A s \in Covered(t) : /\ seg'[s].rev = seg[s].rev + 1 /\ SameText(seg'[s], Target(t, s))
                            /\ seg'[s].owned = seg[s].owned
  BY <1>1, ToggledSegments DEF ApplyHistory
<1>5. Covered(n)' = Covered(t) /\ \A s \in Segments : Source(n, s)' = Target(t, s)
  BY <1>2, <1>3 DEF Covered, InState, Source, Target
<1>6. ASSUME NEW s \in Covered(t)
      PROVE  /\ n.at[s] \in Nat /\ n.at[s] <= seg'[s].rev
             /\ SameText(Projection(s), Source(n, s))' /\ ~seg'[s].owned
  <2>1. s \in Segments /\ seg[s].rev \in Nat
    BY <1>1, <1>2, ProjectionTyped
  <2>2. seg[s].rev = t.at[s]
    BY DEF ApplyHistory, EndpointHolds
  <2>3. ~seg[s].owned
    BY <2>2 DEF Stands
  <2> QED BY <1>2, <1>3, <1>4, <1>5, <2>1, <2>3 DEF SameText, Projection
<1> QED BY <1>2, <1>3, <1>5, <1>6 DEF Stands

\* A stack with one more command.
LEMMA AppendHolds ==
    ASSUME NEW T, NEW stack \in Seq(T), NEW e \in T
    PROVE  Elements(Append(stack, e)) \subseteq Elements(stack) \cup {e}
<1>1. /\ Len(stack) \in Nat /\ Len(Append(stack, e)) = Len(stack) + 1
      /\ (\A i \in 1 .. Len(stack) : Append(stack, e)[i] = stack[i])
      /\ Append(stack, e)[Len(stack) + 1] = e
  BY AppendProperties, LenProperties
<1> DEFINE a == Append(stack, e)
           n == Len(stack)
           m == Len(a)
<1>2. n \in Nat /\ m = n + 1 /\ (\A i \in 1 .. n : a[i] = stack[i]) /\ a[n + 1] = e
  BY <1>1
<1>3. Elements(a) = {a[i] : i \in 1 .. m} /\ Elements(stack) = {stack[i] : i \in 1 .. n}
  BY DEF Elements
<1> HIDE DEF a, n, m
<1>4. \A i \in 1 .. m : a[i] = e \/ (i \in 1 .. n /\ a[i] = stack[i])
  BY <1>2
<1>5. Elements(a) \subseteq Elements(stack) \cup {e}
  BY <1>3, <1>4
<1> QED BY <1>5 DEF a

\* A stack without its newest command.
LEMMA PopHolds ==
    ASSUME NEW T, NEW stack \in Seq(T), stack # <<>>
    PROVE  Top(stack) \in Elements(stack) /\ Elements(Pop(stack)) \subseteq Elements(stack)
  BY TopPop DEF Elements

\* A new command joins the ones that stand, or none does.
LEMMA RememberStands ==
    ASSUME JobInv, [Next]_vars, \A t \in Held : Stands(t)', NEW j \in Jobs,
           \A n : n = Token(j) => Stands(n)',
           NEW stack \in Seq(Tokens("after")), Elements(stack) \subseteq Elements(undo),
           Remember(j, stack)
    PROVE  \A t \in Held' : Stands(t)'
<1>1. CASE UNCHANGED history
  BY <1>1 DEF history, Held, Elements
<1>2. CASE undo' = Append(stack, Token(j)) /\ redo' = <<>>
  <2>1. Token(j) \in Tokens("after")
    BY NewTokenTyped DEF JobInv, Typed
  <2>2. Elements(undo') \subseteq Elements(stack) \cup {Token(j)}
    BY <1>2, <2>1, AppendHolds
  <2>3. Elements(redo') = {}
    BY <1>2 DEF Elements
  <2>4. Held' = Elements(undo') \cup Elements(redo')
    BY DEF Held, Elements
  <2> QED BY <2>2, <2>3, <2>4 DEF Held
<1> QED BY <1>1, <1>2 DEF Remember

\* The history goes on standing on the batches' own work.
LEMMA HistKept == JobInv /\ HistInv /\ [Next]_vars => HistInv'
<1> SUFFICES ASSUME JobInv, HistInv, [Next]_vars PROVE HistInv'
  OBVIOUS
<1>1. AppliedStands'
  BY AppliedOn
<1>2. \A t \in Held : Stands(t)'
  BY StandsOn DEF HistInv
<1>3. undo \in Seq(Tokens("after")) /\ redo \in Seq(Tokens("before"))
  BY DEF JobInv, Typed, HistTyped
<1>4. CASE UNCHANGED history
  BY <1>1, <1>2, <1>4 DEF HistInv, Held, Elements, history
<1>5. CASE Record \/ DropRecord
  <2> SUFFICES ASSUME ~UNCHANGED history PROVE \A t \in Held' : Stands(t)'
    BY <1>1, <1>4 DEF HistInv
  <2>1. UNCHANGED <<seg, jobs>> /\ Remember(gate.op, undo) /\ ~TokenConflict(gate.op)
        /\ run.pc \in {"record", "dropRecord"}
    BY <1>5 DEF Record, DropRecord, journal
  <2>2. gate.op \in Jobs /\ jobs[gate.op].state \in Terminal
    BY <2>1 DEF JobInv, Control, OwnJob
  <2>3. \A k : k = gate.op => InState(k, "applied")' = InState(k, "applied")
    BY <2>1 DEF InState
  <2> SUFFICES ASSUME NEW k \in Jobs, k = gate.op PROVE \A t \in Held' : Stands(t)'
    BY <2>2
  <2>4. \A n : n = Token(k) => Stands(n)'
    BY <1>1, <2>1, <2>2, <2>3, NewTokenStands
  <2> QED BY <1>2, <1>3, <2>1, <2>4, RememberStands
<1>6. CASE Undo
  <2>1. undo # <<>> /\ ApplyHistory(Top(undo)) /\ UNCHANGED jobs
        /\ undo' = Pop(undo) /\ redo' = Append(redo, NextToken(Top(undo)))
    BY <1>6 DEF Undo
  <2>2. Top(undo) \in Tokens("after") /\ Top(undo) \in Held
        /\ Elements(undo') \subseteq Elements(undo)
    BY <1>3, <2>1, TopPop, PopHolds DEF Held
  <2>3. \A n : n = NextToken(Top(undo)) => Stands(n)'
    BY <2>1, <2>2, NextTokenStands DEF HistInv
  <2>4. NextToken(Top(undo)) \in Tokens("before")
    BY <2>2, NextTokenTyped DEF JobInv, Typed
  <2>5. Elements(redo') \subseteq Elements(redo) \cup {NextToken(Top(undo))}
    BY <1>3, <2>1, <2>4, AppendHolds
  <2>6. Held' = Elements(undo') \cup Elements(redo')
    BY DEF Held, Elements
  <2> QED BY <1>1, <1>2, <2>2, <2>3, <2>5, <2>6 DEF HistInv, Held
<1>7. CASE Redo
  <2>1. redo # <<>> /\ ApplyHistory(Top(redo)) /\ UNCHANGED jobs
        /\ redo' = Pop(redo) /\ undo' = Append(undo, NextToken(Top(redo)))
    BY <1>7 DEF Redo
  <2>2. Top(redo) \in Tokens("before") /\ Top(redo) \in Held
        /\ Elements(redo') \subseteq Elements(redo)
    BY <1>3, <2>1, TopPop, PopHolds DEF Held
  <2>3. \A n : n = NextToken(Top(redo)) => Stands(n)'
    BY <2>1, <2>2, NextTokenStands DEF HistInv
  <2>4. NextToken(Top(redo)) \in Tokens("after")
    BY <2>2, NextTokenTyped DEF JobInv, Typed
  <2>5. Elements(undo') \subseteq Elements(undo) \cup {NextToken(Top(redo))}
    BY <1>3, <2>1, <2>4, AppendHolds
  <2>6. Held' = Elements(undo') \cup Elements(redo')
    BY DEF Held, Elements
  <2> QED BY <1>1, <1>2, <2>2, <2>3, <2>5, <2>6 DEF HistInv, Held
<1>8. CASE Crash
  <2>1. undo' = <<>> /\ redo' = <<>>
    BY <1>8 DEF Crash
  <2>2. Held' = {}
    BY <2>1 DEF Held, Elements
  <2> QED BY <1>1, <2>2 DEF HistInv
<1>9. CASE Start
  <2> SUFFICES ASSUME ~UNCHANGED history PROVE \A t \in Held' : Stands(t)'
    BY <1>1, <1>4 DEF HistInv
  <2>1. PICK j : /\ j \in LiveJobs /\ ~TokenConflict(j) /\ Remember(j, <<>>)
                 /\ jobs' = [jobs EXCEPT ![j] = Finished(j, "failed", RecoveredCode(j))]
                 /\ seg' = seg
    BY <1>9 DEF Start, Leftovers
  <2>2. j \in Jobs /\ jobs[j].state = "running"
    BY <2>1 DEF LiveJobs
  <2> DEFINE q == Finished(j, "failed", RecoveredCode(j))
  <2>3. /\ q \in JobRows /\ q.state \in Terminal /\ q.after = jobs[j].after
        /\ \A s \in Segments :
             q.item[s] = IF jobs[j].item[s] = "pending" THEN "abandoned" ELSE jobs[j].item[s]
    BY <2>2, FinishedAgrees DEF JobInv, Typed, Terminal, RecoveredCode, Codes
  <2>4. jobs'[j] = q
    BY <2>1, <2>2 DEF JobInv, Typed, JobsTyped
  <2> HIDE DEF q
  <2>5. InState(j, "applied")' = InState(j, "applied")
    BY <2>3, <2>4 DEF InState
  <2>6. \A n : n = Token(j) => Stands(n)'
    BY <1>1, <2>1, <2>2, <2>3, <2>4, <2>5, NewTokenStands
  <2>7. <<>> \in Seq(Tokens("after")) /\ Elements(<<>>) = {}
    BY DEF Elements
  <2> QED BY <1>2, <2>1, <2>2, <2>6, <2>7, RememberStands
<1> QED BY <1>4, <1>5, <1>6, <1>7, <1>8, <1>9, Footprint DEF HistoryStep, history

\* The journal, the history and the segments agree, always.
LEMMA HistAlways == Spec => [](JobInv /\ HistInv)
<1>1. Init => HistInv
  <2> SUFFICES ASSUME Init PROVE HistInv
    OBVIOUS
  <2>1. Held = {}
    BY DEF Init, Held, Elements
  <2>2. \A j \in Jobs : InState(j, "applied") = {}
    BY DEF Init, InState, Unadmitted
  <2> QED BY <2>1, <2>2 DEF HistInv, AppliedStands
<1> QED BY <1>1, HistKept, JobInit, JobNext, PTL DEF Spec

\* A command of the history whose revision is current stands on its endpoint's
\* text and on no human decision: all that an Undo or a Redo may replace is the
\* batch's own work (prepare_batch_history_item_v1).
THEOREM TokensOwn == Spec => []TokensOwnTheirText
<1>1. HistInv => TokensOwnTheirText
  BY DEF HistInv, Held, Elements, Stands, TokensOwnTheirText
<1> QED BY <1>1, HistAlways, PTL

\* An Undo or a Redo meets no human decision.
LEMMA TogglesUnowned ==
    ASSUME JobInv, HistInv, NEW side \in {"before", "after"}, NEW t \in Tokens(side), t \in Held,
           ApplyHistory(t), NEW s \in Segments, seg[s].owned
    PROVE  seg'[s] = seg[s]
<1>1. s \notin Covered(t)
  <2> SUFFICES ASSUME s \in Covered(t) PROVE FALSE
    OBVIOUS
  <2>1. seg[s].rev = t.at[s]
    BY DEF ApplyHistory, EndpointHolds
  <2> QED BY <2>1 DEF HistInv, Stands
<1> QED BY <1>1, ToggledSegments DEF ApplyHistory, JobInv, Typed

\* No write of a batch, of its Undo or of its Redo changes the machine text
\* under a human decision, however long after the admission it comes
\* (compare_current_to_before_v1, prepare_batch_history_item_v1).
THEOREM HumanKept == Spec => HumanWorkKept
<1>1. JobInv /\ HistInv /\ [Next]_vars =>
        [\A s \in Segments : seg[s].owned /\ seg'[s].owned => SameText(seg[s], seg'[s])]_vars
  <2> SUFFICES ASSUME JobInv, HistInv, [Next]_vars, NEW s \in Segments, seg[s].owned
               PROVE  SameText(seg[s], seg'[s])
    OBVIOUS
  <2>1. CASE seg'[s] = seg[s]
    BY <2>1 DEF SameText
  <2>2. CASE CommitApplies
    <3>1. ~seg[run.cursor].owned /\ \A u \in Segments : u # run.cursor => seg'[u] = seg[u]
      BY <2>2, AppliedFacts DEF Unchanged
    <3> QED BY <2>1, <3>1
  <2>3. CASE Undo
    <3>1. undo # <<>> /\ ApplyHistory(Top(undo)) /\ undo \in Seq(Tokens("after"))
      BY <2>3 DEF Undo, JobInv, Typed, HistTyped
    <3>2. Top(undo) \in Tokens("after") /\ Top(undo) \in Held
      BY <3>1, TopPop, PopHolds DEF Held
    <3> QED BY <2>1, <3>1, <3>2, TogglesUnowned
  <2>4. CASE Redo
    <3>1. redo # <<>> /\ ApplyHistory(Top(redo)) /\ redo \in Seq(Tokens("before"))
      BY <2>4 DEF Redo, JobInv, Typed, HistTyped
    <3>2. Top(redo) \in Tokens("before") /\ Top(redo) \in Held
      BY <3>1, TopPop, PopHolds DEF Held
    <3> QED BY <2>1, <3>1, <3>2, TogglesUnowned
  <2>5. CASE EditStep
    <3>1. PICK u \in Segments : /\ \A v \in Segments : v # u => seg'[v] = seg[v]
                                /\ seg[u].owned => SameText(seg[u], seg'[u])
      BY <2>5, EditedSegment DEF JobInv, Typed
    <3> QED BY <2>1, <3>1
  <2>6. CASE UNCHANGED seg
    BY <2>1, <2>6
  <2> QED BY <2>2, <2>3, <2>4, <2>5, <2>6, Footprint DEF SegmentStep
<1> QED BY <1>1, HistAlways, PTL DEF Spec, HumanWorkKept

\* A batch replaces exactly what its admission recorded: the commit that makes
\* an item an applied one finds the before projection in the library and
\* leaves the after projection there (compare_current_to_before_v1).
THEOREM ReplacesSeen == Spec => ReplacesWhatItSaw
<1>1. JobInv /\ [Next]_vars =>
        [\A j \in Jobs, s \in Segments :
            jobs'[j].item[s] = "applied" /\ jobs[j].item[s] # "applied" =>
                /\ SameText(seg[s], jobs[j].before[s])
                /\ SameText(seg'[s], jobs'[j].after[s])]_vars
  <2> SUFFICES ASSUME JobInv, [Next]_vars, NEW j \in Jobs, NEW s \in Segments,
                      jobs'[j].item[s] = "applied", jobs[j].item[s] # "applied"
               PROVE  SameText(seg[s], jobs[j].before[s]) /\ SameText(seg'[s], jobs'[j].after[s])
    OBVIOUS
  <2>1. ASSUME NEW k, NEW q, RowStep(k, q), AppliesNothing(k, q) PROVE FALSE
    <3>1. jobs'[k] = q /\ \A i \in Jobs : i # k => jobs'[i] = jobs[i]
      BY <2>1, PutRow DEF RowStep, JobInv, Typed
    <3> QED BY <2>1, <3>1 DEF AppliesNothing
  <2>2. CommitApplies
    <3>1. ~UNCHANGED jobs
      OBVIOUS
    <3>2. ~Admit
      BY <2>1, AdmitRow
    <3>3. ~(CommitSkips \/ CommitFails)
      <4> SUFFICES ASSUME CommitSkips \/ CommitFails PROVE FALSE
        OBVIOUS
      <4>1. run.pc = "commit" /\ \E t \in {"skipped", "failed"} : SettleItem(gate.op, run.cursor, t)
        BY DEF CommitSkips, CommitFails
      <4> QED BY <2>1, <4>1, SettleItemRow
    <3>4. ~(Finish \/ DropTerminal \/ LeaseDrop)
      BY <2>1, <3>1, WorkerFinishes
    <3>5. ~Start
      BY <2>1, <3>1, StartFinishes
    <3> QED BY <3>1, <3>2, <3>3, <3>4, <3>5, Footprint DEF JournalStep
  <2> DEFINE k == gate.op
             c == run.cursor
  <2>3. /\ k \in Jobs /\ c \in Segments /\ Unchanged(k, c) /\ jobs[k].state = "running"
        /\ jobs[k].item[c] = "pending"
    BY <2>2, AppliedFacts
  <2>4. PICK q \in JobRows, p \in [Segments -> Projections] :
             /\ q = SettledRow(jobs[k], c, "applied", p) /\ jobs' = [jobs EXCEPT ![k] = q]
             /\ SameText(p[c], seg'[c])
    BY <2>2, AppliedFacts
  <2>5. jobs[k] \in JobRows /\ RowAgrees(jobs[k]) /\ JobsTyped
    BY <2>3 DEF JobInv, Typed, JobsTyped, Evidence
  <2> HIDE DEF k, c
  <2>6. q.after = p /\ \A u \in Segments : q.item[u] = IF u = c THEN "applied" ELSE jobs[k].item[u]
    BY <2>3, <2>4, <2>5, SettledRowAgrees
  <2>7. jobs'[k] = q /\ \A i \in Jobs : i # k => jobs'[i] = jobs[i]
    BY <2>3, <2>4, <2>5, PutRow
  <2>8. j = k /\ s = c
    BY <2>6, <2>7
  <2>9. SameText(seg[s], jobs[j].before[s])
    BY <2>3, <2>8 DEF Unchanged, Projection, SameText
  <2> QED BY <2>4, <2>6, <2>7, <2>8, <2>9 DEF SameText
<1> QED BY <1>1, JobInit, JobNext, PTL DEF Spec, ReplacesWhatItSaw
=============================================================================
