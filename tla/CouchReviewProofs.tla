------------------------ MODULE CouchReviewProofs -------------------------
(***************************************************************************)
(* Theorems about CouchReview, for any reviewers, clips and server threads *)
(* and any number of decisions, undos, lost replies and restarts, with a   *)
(* review pool and without one.                                            *)
(***************************************************************************)
EXTENDS CouchReview, SequenceTheorems, FiniteSetTheorems, WellFoundedInduction, TLAPS

-----------------------------------------------------------------------------
(* Types.                                                                  *)

Judges == Reviewers \cup {Desktop}

Rows == [rev : Nat, eff : Nat]
Effects ==
    [op : Nat, seg : Segments, by : Judges, act : Verdicts, rev : Nat, prior : Nat, pay : Int,
     at : Nat, undone : Nat]
Skips == [op : Nat, seg : Segments, by : Reviewers, at : Nat]
Opinions ==
    [op : Nat, seg : Segments, by : Reviewers, act : Acts, rev : Nat, pay : Int, at : Nat,
     undone : BOOLEAN]
Operations == [by : Reviewers, seg : Segments, act : Acts, rev : Nat]

DbTyped ==
    /\ rows \in [Segments -> Rows]
    /\ effects \in Seq(Effects) /\ skips \in Seq(Skips) /\ opinions \in Seq(Opinions)
    /\ ledger \in [Reviewers -> [Segments -> Int]]

PhoneTyped ==
    /\ ops \in Seq(Operations)
    /\ told \in Seq(SUBSET {"saved", "refused"}) /\ Len(told) = Len(ops)
    /\ outbox \in [Reviewers -> SUBSET DOMAIN ops]
    /\ cards \in [Reviewers -> [Segments -> Nat]]
    /\ target \in [Reviewers -> Nat]

UndoTyped == undo \in [Reviewers -> Seq(DOMAIN effects)]

\* The requests, by what they ask for.
Canonical == {"canonical", "commit", "committed"}
InPool == {"pool", "claim", "record", "recorded"}
DecisionJobs ==
    [pc : {"arrived", "route"} \cup Canonical \cup InPool, op : Nat, first : BOOLEAN]
UndoJobs == [pc : {"undo"}, by : Reviewers, since : Nat]
ReverseJobs ==
    [pc : {"reverse", "reversed"}, by : Reviewers, effect : Nat, index : Nat, since : Nat,
     ok : BOOLEAN]
PoolUndoJobs == [pc : {"pool undo", "opinion undone"}, by : Reviewers, opinion : Nat \ {0}]
QueueJobs == [pc : {"queue"}, by : Reviewers, pending : SUBSET Segments]
Jobs == {Idle} \cup DecisionJobs \cup UndoJobs \cup ReverseJobs \cup PoolUndoJobs \cup QueueJobs

JobTyped ==
    /\ job \in [Threads -> Jobs]
    /\ \A t \in Threads :
        /\ job[t] \in DecisionJobs => job[t].op \in DOMAIN ops
        /\ job[t] \in ReverseJobs => job[t].effect \in DOMAIN effects

-----------------------------------------------------------------------------
(* The revisions of a clip, and what stands on them.                       *)

\* Every write of a row is a new revision, and no phone is ahead of the row.
Revisions ==
    /\ \A s \in Segments :
        rows[s].eff # 0 => rows[s].eff \in DOMAIN effects /\ effects[rows[s].eff].seg = s
    /\ \A e \in DOMAIN effects : effects[e].rev <= rows[effects[e].seg].rev
    /\ \A e, f \in DOMAIN effects :
        e < f /\ effects[e].seg = effects[f].seg => effects[e].rev < effects[f].rev
    /\ \A e \in DOMAIN effects :
        effects[e].prior # 0 =>
            /\ effects[e].prior \in DOMAIN effects
            /\ effects[effects[e].prior].seg = effects[e].seg
    /\ \A r \in Reviewers, s \in Segments : cards[r][s] <= rows[s].rev
    /\ \A op \in DOMAIN ops : ops[op].rev <= rows[ops[op].seg].rev

\* The clip is as the operation's phone saw it.
AsServed(op) == rows[ops[op].seg].rev = ops[op].rev

-----------------------------------------------------------------------------
(* What is recorded, and how often.                                        *)

\* An effect of a phone, a skip and an opinion each name one operation, and no
\* operation has two of them.
Receipts ==
    /\ \A e \in DOMAIN effects : effects[e].by \in Reviewers => effects[e].op \in DOMAIN ops
    /\ \A e \in DOMAIN effects : effects[e].by = Desktop => effects[e].op = 0
    /\ \A k \in DOMAIN skips : skips[k].op \in DOMAIN ops
    /\ \A o \in DOMAIN opinions : opinions[o].op \in DOMAIN ops
    /\ \A op \in DOMAIN ops : \A e, f \in EffectsOf(op) : e = f
    /\ \A op \in DOMAIN ops : \A j, k \in SkipsOf(op) : j = k
    /\ \A op \in DOMAIN ops : \A o, p \in OpinionsOf(op) : o = p
    /\ \A op \in DOMAIN ops : EffectsOf(op) = {} \/ SkipsOf(op) = {}
    /\ \A op \in DOMAIN ops : PoolReceipt(op) => ~CanonicalReceipt(op)

\* What a phone was told is saved has a receipt.
Told ==
    \A op \in DOMAIN ops : "saved" \in told[op] => CanonicalReceipt(op) \/ PoolReceipt(op)

\* A session without a pool takes no opinions.
NoPool == ~Pool => opinions = <<>>

-----------------------------------------------------------------------------
(* What a thread knows of the operation it serves.                         *)

\* Which fork it has passed.
Fork(t) ==
    /\ job[t].pc = "arrived" => Pool
    /\ job[t].pc \in {"commit", "committed"} => lock = t
    /\ job[t].pc \in Canonical => ~job[t].first
    /\ job[t].pc \in InPool => job[t].first
    /\ job[t].pc \in {"route"} \cup InPool /\ job[t].first => Pool

\* The clip had no first judgement: it has none now, or has changed since.
CanonicalPath(t) ==
    Pool /\ job[t].pc \in {"route", "canonical", "commit"} /\ ~job[t].first =>
        /\ ~PoolReceipt(job[t].op)
        /\ AsServed(job[t].op) => ~Verified(ops[job[t].op].seg)

\* The clip had one: it has one still, or has changed since.
PoolPath(t) ==
    /\ job[t].pc \in {"route"} \cup InPool /\ job[t].first =>
        PoolReceipt(job[t].op) \/ (AsServed(job[t].op) => Verified(ops[job[t].op].seg))
    /\ job[t].pc \in InPool => EffectsOf(job[t].op) = {}
    /\ job[t].pc = "recorded" => PoolReceipt(job[t].op)

\* A claimed clip is judged by nobody else until it changes.
Claim(t) ==
    /\ job[t].pc = "commit" =>
        /\ ops[job[t].op].act # "skip"
        /\ ~CanonicalReceipt(job[t].op)
        /\ AsServed(job[t].op) /\ Verified(ops[job[t].op].seg) =>
            JudgeOf(ops[job[t].op].seg) = ops[job[t].op].by
    /\ job[t].pc = "committed" => EffectsOf(job[t].op) # {}

Knows(t) == Fork(t) /\ CanonicalPath(t) /\ PoolPath(t) /\ Claim(t)
Threading == \A t \in Threads : Knows(t)

\* A standing opinion is another's than the first judgement, one per reviewer.
Beside ==
    /\ \A s \in Segments : \A o \in SecondOpinions(s) : Verified(s) /\ JudgeOf(s) # opinions[o].by
    /\ \A s \in Segments : \A o, p \in Effective(s) : opinions[o].by = opinions[p].by => o = p

CouchInv ==
    /\ DbTyped /\ PhoneTyped /\ UndoTyped /\ JobTyped
    /\ Revisions /\ Receipts /\ Told /\ NoPool
    /\ Threading
    /\ NoVerdictReplaced /\ VerdictOnServedText /\ Beside

-----------------------------------------------------------------------------
(* What judgements are worth.                                              *)

\* The reviewer's decisions on the clip that are not undone.
Standing(r, s) == {e \in PhoneEffects(r) : effects[e].seg = s /\ effects[e].undone = 0}
Before(e) == {d \in Standing(effects[e].by, effects[e].seg) : d < e}
WorthIn(decisions, recorded) ==
    IF decisions = {} THEN 0 ELSE Rates[recorded[Max(decisions)].act]
Worth(decisions) == WorthIn(decisions, effects)

\* Every entry of the ledger tops up what the judgement before it was worth.
Entries ==
    /\ \A e \in DOMAIN effects :
        effects[e].by \in Reviewers /\ effects[e].undone = 0 =>
            Rates[effects[e].act] - effects[e].pay = Worth(Before(e))
    /\ \A o \in DOMAIN opinions :
        ~opinions[o].undone =>
            IF opinions[o].act = "skip" THEN opinions[o].pay = 0
            ELSE Rates[opinions[o].act] - opinions[o].pay
                   = Worth(Standing(opinions[o].by, opinions[o].seg))

PayInv == Entries /\ PayFollowsStandingWork

-----------------------------------------------------------------------------
(* Sequences that only grow, and the ids in them.                          *)

\* A record is appended.
LEMMA Appended ==
    ASSUME NEW S, NEW q \in Seq(S), NEW x \in S, NEW p, p = Append(q, x)
    PROVE  /\ p \in Seq(S) /\ Len(p) = Len(q) + 1 /\ Len(q) \in Nat
           /\ DOMAIN p = DOMAIN q \cup {Len(q) + 1} /\ Len(q) + 1 \notin DOMAIN q
           /\ \A i \in DOMAIN q : p[i] = q[i] /\ i \in Nat /\ i # 0 /\ i < Len(q) + 1
           /\ p[Len(q) + 1] = x
<1>1. /\ p \in Seq(S) /\ Len(p) = Len(q) + 1 /\ Len(q) \in Nat
      /\ \A i \in 1 .. Len(q) : p[i] = q[i]
      /\ p[Len(q) + 1] = x
  BY AppendProperties, LenProperties
<1>2. DOMAIN q = 1 .. Len(q) /\ DOMAIN p = 1 .. (Len(q) + 1)
  BY <1>1, LenProperties
<1> QED BY <1>1, <1>2

\* A record of a sequence is replaced.
LEMMA Replaced ==
    ASSUME NEW S, NEW q \in Seq(S), NEW i \in DOMAIN q, NEW x \in S, NEW p,
           p = [q EXCEPT ![i] = x]
    PROVE  /\ p \in Seq(S) /\ Len(p) = Len(q) /\ DOMAIN p = DOMAIN q /\ p[i] = x
           /\ \A j \in DOMAIN q : j # i => p[j] = q[j]
<1>1. i \in 1 .. Len(q) /\ DOMAIN q = 1 .. Len(q)
  BY LenProperties
<1>2. /\ p \in Seq(S) /\ Len(p) = Len(q)
      /\ \A j \in 1 .. Len(q) : p[j] = IF j = i THEN x ELSE q[j]
  BY <1>1, ExceptSeq
<1> QED BY <1>1, <1>2, LenProperties

\* A bounded set of ids has a last one.
LEMMA LastOf ==
    ASSUME NEW n \in Nat, NEW ids \in SUBSET (1 .. n), ids # {}
    PROVE  Max(ids) \in ids /\ \A i \in ids : i <= Max(ids)
<1> DEFINE rest == {n - i : i \in ids}
<1>1. rest \subseteq Nat /\ rest # {}
  OBVIOUS
<1>2. PICK m \in rest : \A y \in rest : ~(<<y, m>> \in OpToRel(<, Nat))
  BY <1>1, WFMin, NatLessThanWellFounded, Zenon
<1>3. PICK x \in ids : m = n - x
  BY <1>2, Zenon
<1>4. \A y \in rest : ~(y < m)
  BY <1>1, <1>2 DEF OpToRel
<1>5. ASSUME NEW y \in ids PROVE x >= y
  <2>1. n - y \in rest
    OBVIOUS
  <2>2. ~(n - y < n - x)
    BY <1>3, <1>4, <2>1
  <2> QED BY <2>2
<1>6. \E z \in ids : \A y \in ids : z >= y
  BY <1>5
<1>7. Max(ids) \in ids /\ \A y \in ids : Max(ids) >= y
  BY <1>6 DEF Max
<1> QED BY <1>7

\* The ids of a sequence.
LEMMA Ids ==
    ASSUME NEW S, NEW q \in Seq(S)
    PROVE  /\ Len(q) \in Nat /\ DOMAIN q = 1 .. Len(q) /\ 0 \notin DOMAIN q
           /\ \A i \in DOMAIN q : q[i] \in S /\ i \in Nat
  BY LenProperties

\* The latest of some ids of a sequence.
LEMMA Latest ==
    ASSUME NEW S, NEW q \in Seq(S), NEW ids \in SUBSET DOMAIN q
    PROVE  /\ LatestOf(ids) \in Nat
           /\ ids # {} => Max(ids) \in ids /\ \A i \in ids : i <= Max(ids)
           /\ LatestOf(ids) # 0 => LatestOf(ids) \in ids
<1>1. Len(q) \in Nat /\ DOMAIN q = 1 .. Len(q)
  BY Ids
<1>2. CASE ids = {}
  BY <1>2 DEF LatestOf
<1>3. CASE ids # {}
  <2>1. Max(ids) \in ids /\ \A i \in ids : i <= Max(ids)
    BY <1>1, <1>3, LastOf
  <2> QED BY <1>1, <1>3, <2>1 DEF LatestOf
<1> QED BY <1>2, <1>3

\* The larger of two numbers, and the smaller.
LEMMA Pairs ==
    ASSUME NEW a \in Int, NEW b \in Int
    PROVE  /\ Max({a, b}) \in {a, b} /\ Max({a, b}) >= a /\ Max({a, b}) >= b
           /\ Min({a, b}) \in {a, b} /\ Min({a, b}) <= a /\ Min({a, b}) <= b
<1>1. (\E x \in {a, b} : \A y \in {a, b} : x >= y) /\ (\E x \in {a, b} : \A y \in {a, b} : x =< y)
  <2>1. CASE a >= b
    BY <2>1
  <2>2. CASE b >= a
    BY <2>2
  <2> QED BY <2>1, <2>2
<1> QED BY <1>1 DEF Max, Min

\* A part of a sequence.
LEMMA PartOf ==
    ASSUME NEW S, NEW q \in Seq(S), NEW m \in Nat \ {0}, NEW n \in Int, n <= Len(q)
    PROVE  SubSeq(q, m, n) \in Seq(S)
<1>1. Len(q) \in Nat /\ \A i \in 1 .. Len(q) : q[i] \in S
  BY LenProperties, ElementOfSeq
<1>2. \A i \in m .. n : q[i] \in S
  BY <1>1
<1>3. m \in Int /\ n \in Int
  BY <1>1
<1> QED BY <1>2, <1>3, SubSeqProperties, Zenon

\* A decision is pushed on an undo stack.
LEMMA PushedTyped ==
    ASSUME NEW S, NEW stack \in Seq(S), NEW e \in S
    PROVE  Pushed(stack, e) \in Seq(S)
<1> SUFFICES ASSUME NEW grown, grown = IF e \in ToSet(stack) THEN stack ELSE Append(stack, e),
                    NEW over, over = Max({0, Len(grown) - UndoDepth})
             PROVE  SubSeq(grown, over + 1, Len(grown)) \in Seq(S)
  BY DEF Pushed
<1>1. grown \in Seq(S)
  BY AppendProperties
<1>2. Len(grown) \in Nat
  BY <1>1, LenProperties
<1>3. over \in Nat
  <2>1. UndoDepth \in Nat
    BY CouchAssumption, Zenon
  <2>2. Len(grown) - UndoDepth \in Int /\ 0 \in Int
    BY <1>2, <2>1
  <2>3. Max({0, Len(grown) - UndoDepth}) \in {0, Len(grown) - UndoDepth}
        /\ Max({0, Len(grown) - UndoDepth}) >= 0
    BY <2>2, Pairs, Zenon
  <2> QED BY <2>2, <2>3
<1>4. over + 1 \in Nat \ {0} /\ Len(grown) \in Int /\ Len(grown) <= Len(grown)
  BY <1>2, <1>3
<1> QED BY <1>1, <1>4, PartOf

\* A token goes back to its place on the stack.
LEMMA RetainedTyped ==
    ASSUME NEW S, NEW stack \in Seq(S), NEW e \in S, NEW index \in Nat
    PROVE  Retained(stack, index, e) \in Seq(S)
<1>1. Len(stack) \in Nat
  BY LenProperties
<1> SUFFICES ASSUME NEW i, i = Min({index, Len(stack)}) + 1
             PROVE  SubSeq(stack, 1, i - 1) \o <<e>> \o SubSeq(stack, i, Len(stack)) \in Seq(S)
  BY DEF Retained, InsertAt
<1>2. i \in Nat \ {0} /\ i - 1 \in Int /\ i - 1 <= Len(stack)
  <2>1. PICK a \in Int, b \in Int : a = index /\ b = Len(stack)
    BY <1>1
  <2>2. Min({a, b}) \in {a, b} /\ Min({a, b}) <= b
    BY Pairs
  <2> QED BY <1>1, <2>1, <2>2
<1>3. SubSeq(stack, 1, i - 1) \in Seq(S) /\ SubSeq(stack, i, Len(stack)) \in Seq(S)
  <2>1. 1 \in Nat \ {0} /\ Len(stack) \in Int /\ Len(stack) <= Len(stack)
    BY <1>1
  <2> QED BY <1>2, <2>1, PartOf
<1>4. <<e>> \in Seq(S)
  OBVIOUS
<1> QED BY <1>3, <1>4, ConcatProperties

-----------------------------------------------------------------------------
(* The steps that write the database.                                      *)

SkipTaken(t) ==
    /\ At(t, "canonical") /\ lock = NoOne /\ ~CanonicalReceipt(job[t].op)
    /\ RecordSkip(t, job[t].op)

Committed(t) ==
    LET op == job[t].op
    IN  /\ At(t, "commit") /\ CommitsAtRevision(op) /\ ~AlreadySeen(op)
        /\ Decides(ops[op].by, ops[op].seg, ops[op].act, op)
        /\ Goto(t, "committed")
        /\ UNCHANGED <<skips, opinions, session, lock, phone, page, left>>

OpinionTaken(t) ==
    LET op == job[t].op
        r == ops[op].by
        s == ops[op].seg
        delta == IF ops[op].act = "skip" THEN 0 ELSE EntryDelta(r, s, ops[op].act)
    IN  /\ At(t, "record")
        /\ ~CanonicalReceipt(op) /\ ~PoolReceipt(op) /\ r \notin Seen(s)
        /\ ~StaleServe(op) /\ Verified(s)
        /\ opinions' = Append(opinions,
             [op |-> op, seg |-> s, by |-> r, act |-> ops[op].act,
              rev |-> ops[op].rev, pay |-> delta, at |-> Stamp, undone |-> FALSE])
        /\ ledger' = [ledger EXCEPT ![r][s] = @ + delta]
        /\ Goto(t, "recorded")
        /\ UNCHANGED <<rows, effects, skips, session, lock, phone, page, left>>

EffectUndone(t) ==
    LET e == job[t].effect
    IN  /\ At(t, "reverse") /\ effects[e].undone = 0 /\ ~BuiltUpon(e)
        /\ Reverses(e, job[t].since)
        /\ job' = [job EXCEPT ![t] = [@ EXCEPT !.pc = "reversed", !.ok = TRUE]]
        /\ UNCHANGED <<skips, opinions, session, lock, phone, page, left>>

OpinionUndone(t) ==
    LET o == job[t].opinion
        s == opinions[o].seg
        r == job[t].by
    IN  /\ At(t, "pool undo") /\ o = LatestOf(PoolDecisions(r))
        /\ opinions' = [opinions EXCEPT ![o].undone = TRUE]
        /\ ledger' = IF opinions[o].undone THEN ledger
                     ELSE [ledger EXCEPT ![r][s] = @ - opinions[o].pay]
        /\ Goto(t, "opinion undone")
        /\ UNCHANGED <<rows, effects, skips, session, lock, phone, page, left>>

Writes ==
    \/ \E t \in Threads :
        SkipTaken(t) \/ Committed(t) \/ OpinionTaken(t) \/ EffectUndone(t) \/ OpinionUndone(t)
    \/ \E s \in Segments : Touch(s)
    \/ \E s \in Segments, act \in Verdicts : DesktopDecides(s, act)
    \/ DesktopUndoes

\* Every other step leaves the database alone.
LEMMA DbSteps ==
    ASSUME [Next]_vars
    PROVE  Writes \/ UNCHANGED db
<1>1. CASE UNCHANGED vars
  BY <1>1 DEF vars
<1>2. ASSUME NEW t \in Threads, Serve(t) PROVE Writes \/ UNCHANGED db
  <2>1. CASE ReadRow(t) \/ Route(t) \/ Acknowledge(t) \/ ReadPoolReceipt(t) \/ ClaimOpinion(t)
    BY <2>1 DEF ReadRow, Route, ReplaysCanonical, Acknowledge, ReadPoolReceipt, ReplaysPool, Refused,
       ClaimOpinion, Held
  <2>2. CASE AcknowledgeOpinion(t) \/ PopUndo(t) \/ AnswerUndo(t) \/ AnswerPoolUndo(t) \/ ServeQueue(t)
    BY <2>2, Zenon DEF AcknowledgeOpinion, PopUndo, AnswerUndo, AnswerPoolUndo, ServeQueue
  <2>3. CASE TakeGuard(t)
    <3>1. UNCHANGED db \/ SkipTaken(t)
      BY <2>3 DEF TakeGuard, CommittedMeanwhile, ReplaysCanonical, ClaimClip, Refused, Held,
         SkipTaken
    <3> QED BY <3>1 DEF Writes
  <2>4. CASE Commit(t)
    <3>1. UNCHANGED db \/ Committed(t)
      BY <2>4 DEF Commit, Committed
    <3> QED BY <3>1 DEF Writes
  <2>5. CASE RecordOpinion(t)
    <3>1. UNCHANGED db \/ OpinionTaken(t)
      BY <2>5, Zenon DEF RecordOpinion, OpinionTaken
    <3> QED BY <3>1 DEF Writes
  <2>6. CASE ReverseEffect(t)
    <3>1. UNCHANGED db \/ EffectUndone(t)
      BY <2>6 DEF ReverseEffect, EffectUndone, db
    <3> QED BY <3>1 DEF Writes
  <2>7. CASE ReverseOpinion(t)
    <3>1. UNCHANGED db \/ OpinionUndone(t)
      BY <2>7, Zenon DEF ReverseOpinion, OpinionUndone, db
    <3> QED BY <3>1 DEF Writes
  <2> QED BY <1>2, <2>1, <2>2, <2>3, <2>4, <2>5, <2>6, <2>7 DEF Serve
<1>3. CASE \E r \in Reviewers, s \in Segments, act \in Acts : Decide(r, s, act)
  BY <1>3 DEF Decide
<1>4. CASE \E r \in Reviewers : Send(r) \/ PressUndo(r) \/ RequestQueue(r)
  BY <1>4, Zenon DEF Send, Accepts, PressUndo, RequestQueue
<1>5. CASE (\E r \in Reviewers, s \in Segments : Renew(r, s)) \/ (\E s \in Segments : Lapse(s))
  BY <1>5 DEF Renew, Lapse
<1>6. CASE Restart
  BY <1>6 DEF Restart
<1> QED BY <1>1, <1>2, <1>3, <1>4, <1>5, <1>6 DEF Next, Writes

-----------------------------------------------------------------------------
(* What is known of the records and of the requests.                       *)

\* The records of the database, by their ids.
LEMMA Filed ==
    ASSUME DbTyped
    PROVE  /\ \A e \in DOMAIN effects : effects[e] \in Effects /\ e \in Nat /\ e # 0
           /\ \A k \in DOMAIN skips : skips[k] \in Skips /\ k \in Nat /\ k # 0
           /\ \A o \in DOMAIN opinions : opinions[o] \in Opinions /\ o \in Nat /\ o # 0
           /\ Len(effects) \in Nat /\ Len(skips) \in Nat /\ Len(opinions) \in Nat /\ Stamp \in Nat
           /\ \A s \in Segments : rows[s] \in Rows
<1>1. /\ effects \in Seq(Effects) /\ skips \in Seq(Skips) /\ opinions \in Seq(Opinions)
      /\ rows \in [Segments -> Rows]
  BY DEF DbTyped
<1>2. /\ Len(effects) \in Nat /\ DOMAIN effects = 1 .. Len(effects)
      /\ \A e \in DOMAIN effects : effects[e] \in Effects
  BY <1>1, Ids
<1>3. /\ Len(skips) \in Nat /\ DOMAIN skips = 1 .. Len(skips)
      /\ \A e \in DOMAIN skips : skips[e] \in Skips
  BY <1>1, Ids
<1>4. /\ Len(opinions) \in Nat /\ DOMAIN opinions = 1 .. Len(opinions)
      /\ \A e \in DOMAIN opinions : opinions[e] \in Opinions
  BY <1>1, Ids
<1> QED BY <1>1, <1>2, <1>3, <1>4 DEF Stamp

\* What a verdict is worth.
LEMMA RatesTyped == \A act \in Verdicts : Rates[act] \in Int /\ act \in Acts /\ act # "skip"
<1>1. Acts \subseteq DOMAIN Rates \cup {"skip"}
  BY CouchAssumption, Zenon
<1> QED BY <1>1 DEF Verdicts, Rates

\* What a request asks for, by its place.
LEMMA Shapes ==
    ASSUME NEW j \in Jobs
    PROVE  /\ j.pc \in {"arrived", "route"} \cup Canonical \cup InPool => j \in DecisionJobs
           /\ j.pc \in {"reverse", "reversed"} => j \in ReverseJobs
           /\ j.pc \in {"pool undo", "opinion undone"} => j \in PoolUndoJobs
           /\ j.pc = "undo" => j \in UndoJobs
           /\ j.pc = "queue" => j \in QueueJobs
           /\ j.pc = "idle" => j = Idle
<1>1. Idle.pc = "idle"
  BY DEF Idle
<1>2. ASSUME j \in DecisionJobs PROVE j.pc \in {"arrived", "route"} \cup Canonical \cup InPool
  BY <1>2 DEF DecisionJobs
<1>3. ASSUME j \in ReverseJobs PROVE j.pc \in {"reverse", "reversed"}
  BY <1>3 DEF ReverseJobs
<1>4. ASSUME j \in PoolUndoJobs PROVE j.pc \in {"pool undo", "opinion undone"}
  BY <1>4, Zenon DEF PoolUndoJobs
<1>5. (j \in UndoJobs => j.pc = "undo") /\ (j \in QueueJobs => j.pc = "queue")
  BY DEF UndoJobs, QueueJobs
<1> QED BY <1>1, <1>2, <1>3, <1>4, <1>5, Zenon DEF Jobs, Canonical, InPool

\* The operation that a request brings.
LEMMA Brings ==
    ASSUME PhoneTyped, JobTyped, NEW t \in Threads,
           job[t].pc \in {"arrived", "route"} \cup Canonical \cup InPool
    PROVE  /\ job[t] \in DecisionJobs /\ job[t].op \in DOMAIN ops /\ job[t].op \in Nat
           /\ job[t].op # 0 /\ ops[job[t].op] \in Operations /\ ops[job[t].op].by \in Reviewers
           /\ ops[job[t].op].seg \in Segments /\ ops[job[t].op].act \in Acts
           /\ ops[job[t].op].rev \in Nat /\ job[t].first \in BOOLEAN
<1>2. job[t] \in DecisionJobs
  BY Shapes, Zenon DEF JobTyped
<1>3. job[t].op \in DOMAIN ops
  BY <1>2 DEF JobTyped
<1>4. ops \in Seq(Operations)
  BY DEF PhoneTyped
<1>5. ops[job[t].op] \in Operations /\ job[t].op \in Nat /\ job[t].op # 0
  BY <1>3, <1>4, Ids
<1> QED BY <1>2, <1>3, <1>5 DEF Operations, DecisionJobs

\* The effect that a request takes back.
LEMMA TakesBack ==
    ASSUME JobTyped, NEW t \in Threads, job[t].pc \in {"reverse", "reversed"}
    PROVE  /\ job[t] \in ReverseJobs /\ job[t].effect \in DOMAIN effects
           /\ job[t].since \in Nat /\ job[t].index \in Nat /\ job[t].by \in Reviewers
<1>2. job[t] \in ReverseJobs
  BY Shapes, Zenon DEF JobTyped
<1> QED BY <1>2 DEF JobTyped, ReverseJobs

\* The other requests.
LEMMA Asks ==
    ASSUME JobTyped, NEW t \in Threads
    PROVE  /\ job[t].pc \in {"pool undo", "opinion undone"} => job[t] \in PoolUndoJobs
           /\ job[t].pc = "undo" => job[t] \in UndoJobs
           /\ job[t].pc = "queue" => job[t] \in QueueJobs
  BY Shapes, Zenon DEF JobTyped

\* The opinion that a request takes back.
LEMMA TakesOpinionBack ==
    ASSUME DbTyped, JobTyped, NEW t \in Threads, job[t].pc = "pool undo",
           job[t].opinion = LatestOf(PoolDecisions(job[t].by))
    PROVE  /\ job[t].by \in Reviewers /\ job[t].opinion \in DOMAIN opinions
           /\ opinions[job[t].opinion].by = job[t].by
<1>1. job[t].by \in Reviewers /\ job[t].opinion # 0
  BY Asks, Zenon DEF PoolUndoJobs
<1>2. PoolDecisions(job[t].by) \in SUBSET DOMAIN opinions /\ opinions \in Seq(Opinions)
  BY Zenon DEF PoolDecisions, DbTyped
<1>3. job[t].opinion \in PoolDecisions(job[t].by)
  BY <1>1, <1>2, Latest, Zenon
<1> QED BY <1>1, <1>3, Zenon DEF PoolDecisions

-----------------------------------------------------------------------------
(* What each of these writes does.                                         *)

\* A decision is made: its effect is appended as number n, the row moves and its
\* judge is credited.
Made(judge, s, act, op, n) ==
    /\ effects' \in Seq(Effects) /\ DOMAIN effects' = DOMAIN effects \cup {n}
    /\ n \notin DOMAIN effects /\ n \in Nat /\ n # 0
    /\ \A e \in DOMAIN effects : effects'[e] = effects[e] /\ e < n
    /\ effects'[n].op = op /\ effects'[n].seg = s /\ effects'[n].by = judge
    /\ effects'[n].act = act /\ effects'[n].rev = rows[s].rev + 1
    /\ effects'[n].prior = rows[s].eff /\ effects'[n].undone = 0
    /\ judge \in Reviewers => effects'[n].pay = Rates[act] - ledger[judge][s]
    /\ rows' \in [Segments -> Rows] /\ rows'[s].rev = rows[s].rev + 1 /\ rows'[s].eff = n
    /\ \A x \in Segments : x # s => rows'[x] = rows[x]
    /\ ledger' \in [Reviewers -> [Segments -> Int]]
    /\ \A r \in Reviewers, x \in Segments :
         ledger'[r][x] = IF r = judge /\ x = s THEN Rates[act] ELSE ledger[r][x]
    /\ UNCHANGED <<skips, opinions>>

\* The effect e is reversed: the row moves back at a new revision, and the entry is
\* taken back.
Reversed(e, s, by) ==
    /\ s \in Segments /\ by \in Judges
    /\ effects' \in Seq(Effects) /\ DOMAIN effects' = DOMAIN effects
    /\ \A f \in DOMAIN effects : f # e => effects'[f] = effects[f]
    /\ effects'[e].op = effects[e].op /\ effects'[e].seg = s /\ effects'[e].by = by
    /\ effects'[e].act = effects[e].act /\ effects'[e].rev = effects[e].rev
    /\ effects'[e].prior = effects[e].prior /\ effects'[e].pay = effects[e].pay
    /\ effects'[e].undone # 0
    /\ rows' \in [Segments -> Rows] /\ rows'[s].rev = rows[s].rev + 1
    /\ rows'[s].eff = effects[e].prior
    /\ \A x \in Segments : x # s => rows'[x] = rows[x]
    /\ ledger' \in [Reviewers -> [Segments -> Int]]
    /\ \A r \in Reviewers, x \in Segments :
         ledger'[r][x] = IF r = by /\ x = s THEN ledger[r][x] - effects[e].pay ELSE ledger[r][x]
    /\ UNCHANGED <<skips, opinions>>

\* An opinion is given: it is appended as number n and credited.
Given(op, r, s, n) ==
    /\ r \in Reviewers /\ s \in Segments
    /\ opinions' \in Seq(Opinions) /\ DOMAIN opinions' = DOMAIN opinions \cup {n}
    /\ n \notin DOMAIN opinions /\ n \in Nat /\ n # 0
    /\ \A o \in DOMAIN opinions : opinions'[o] = opinions[o] /\ o < n
    /\ opinions'[n].op = op /\ opinions'[n].seg = s /\ opinions'[n].by = r
    /\ opinions'[n].act = ops[op].act /\ opinions'[n].rev = ops[op].rev
    /\ opinions'[n].undone = FALSE
    /\ opinions'[n].pay = IF ops[op].act = "skip" THEN 0 ELSE Rates[ops[op].act] - ledger[r][s]
    /\ ledger' \in [Reviewers -> [Segments -> Int]]
    /\ \A q \in Reviewers, x \in Segments :
         ledger'[q][x] = IF q = r /\ x = s /\ ops[op].act # "skip" THEN Rates[ops[op].act]
                         ELSE ledger[q][x]
    /\ UNCHANGED <<rows, effects, skips>>

\* The opinion o is withdrawn, and its entry is taken back the first time.
Withdrawn(o, r, s) ==
    /\ r \in Reviewers /\ s \in Segments
    /\ opinions' \in Seq(Opinions) /\ DOMAIN opinions' = DOMAIN opinions
    /\ \A p \in DOMAIN opinions : p # o => opinions'[p] = opinions[p]
    /\ opinions'[o].op = opinions[o].op /\ opinions'[o].seg = s /\ opinions'[o].by = r
    /\ opinions'[o].act = opinions[o].act /\ opinions'[o].rev = opinions[o].rev
    /\ opinions'[o].undone = TRUE
    /\ ledger' \in [Reviewers -> [Segments -> Int]]
    /\ \A q \in Reviewers, x \in Segments :
         ledger'[q][x] = IF q = r /\ x = s /\ ~opinions[o].undone
                         THEN ledger[q][x] - opinions[o].pay ELSE ledger[q][x]
    /\ UNCHANGED <<rows, effects, skips>>

\* A skip is filed as number n.
SkipFiled(op, n) ==
    /\ skips' \in Seq(Skips) /\ DOMAIN skips' = DOMAIN skips \cup {n}
    /\ n \notin DOMAIN skips
    /\ \A k \in DOMAIN skips : skips'[k] = skips[k]
    /\ skips'[n].op = op
    /\ UNCHANGED <<rows, effects, opinions, ledger>>

\* Another writer makes a new revision of a row.
Touched(s) ==
    /\ rows' \in [Segments -> Rows] /\ rows'[s].rev = rows[s].rev + 1
    /\ rows'[s].eff = rows[s].eff
    /\ \A x \in Segments : x # s => rows'[x] = rows[x]
    /\ UNCHANGED <<effects, skips, opinions, ledger>>

\* An entry is written to the ledger.
LEMMA Credited ==
    ASSUME NEW old \in [Reviewers -> [Segments -> Int]], NEW r \in Reviewers, NEW s \in Segments,
           NEW v \in Int, NEW new, new = [old EXCEPT ![r][s] = v]
    PROVE  /\ new \in [Reviewers -> [Segments -> Int]]
           /\ \A q \in Reviewers, x \in Segments :
                new[q][x] = IF q = r /\ x = s THEN v ELSE old[q][x]
  OBVIOUS

\* A decision appends its effect, moves the row and credits its judge.
LEMMA DecidesDoes ==
    ASSUME DbTyped, NEW judge \in Judges, NEW s \in Segments, NEW act \in Verdicts, NEW op \in Nat,
           Decides(judge, s, act, op), UNCHANGED <<skips, opinions>>
    PROVE  Made(judge, s, act, op, Len(effects) + 1)
<1> SUFFICES ASSUME NEW n, n = Len(effects) + 1 PROVE Made(judge, s, act, op, n)
  OBVIOUS
<1> DEFINE delta == IF judge = Desktop THEN 0 ELSE EntryDelta(judge, s, act)
           new == [op |-> op, seg |-> s, by |-> judge, act |-> act, rev |-> rows[s].rev + 1,
                   prior |-> rows[s].eff, pay |-> delta, at |-> Stamp, undone |-> 0]
<1>0. /\ effects' = Append(effects, new)
      /\ rows' = [rows EXCEPT ![s] = [rev |-> @.rev + 1, eff |-> Len(effects) + 1]]
      /\ ledger' = IF judge = Desktop THEN ledger ELSE [ledger EXCEPT ![judge][s] = @ + delta]
  BY DEF Decides
<1>1. /\ Rates[act] \in Int /\ rows[s].rev \in Nat /\ rows[s].eff \in Nat /\ Stamp \in Nat
      /\ Len(effects) \in Nat /\ rows \in [Segments -> Rows]
      /\ ledger \in [Reviewers -> [Segments -> Int]] /\ effects \in Seq(Effects)
  BY RatesTyped, Filed DEF Rows, DbTyped
<1>2. judge \in Reviewers => judge # Desktop /\ delta = Rates[act] - ledger[judge][s]
  BY CouchAssumption DEF EntryDelta
<1>3. delta \in Int
  BY <1>1, <1>2 DEF Judges
<1> HIDE DEF delta
<1>4. /\ new \in Effects /\ new.op = op /\ new.seg = s /\ new.by = judge /\ new.act = act
      /\ new.rev = rows[s].rev + 1 /\ new.prior = rows[s].eff /\ new.undone = 0 /\ new.pay = delta
  BY <1>1, <1>3 DEF Effects
<1> HIDE DEF new
<1>5. /\ effects' \in Seq(Effects) /\ DOMAIN effects' = DOMAIN effects \cup {n}
      /\ n \notin DOMAIN effects /\ n \in Nat /\ n # 0
      /\ \A e \in DOMAIN effects : effects'[e] = effects[e] /\ e < n
      /\ effects'[n] = new
  BY <1>0, <1>1, <1>4, Appended
<1>6. /\ rows' \in [Segments -> Rows] /\ rows'[s].rev = rows[s].rev + 1 /\ rows'[s].eff = n
      /\ \A x \in Segments : x # s => rows'[x] = rows[x]
  BY <1>0, <1>1 DEF Rows
<1>7. /\ ledger' \in [Reviewers -> [Segments -> Int]]
      /\ \A r \in Reviewers, x \in Segments :
           ledger'[r][x] = IF r = judge /\ x = s THEN Rates[act] ELSE ledger[r][x]
  <2>1. CASE judge = Desktop
    BY <1>0, <1>1, <1>2, <2>1
  <2>2. CASE judge \in Reviewers
    <3>1. ledger' = [ledger EXCEPT ![judge][s] = @ + delta] /\ delta = Rates[act] - ledger[judge][s]
      BY <1>0, <1>2, <2>2
    <3>2. /\ ledger' \in [Reviewers -> [Segments -> Int]]
          /\ \A r \in Reviewers, x \in Segments :
               ledger'[r][x] = IF r = judge /\ x = s THEN ledger[r][x] + delta ELSE ledger[r][x]
      BY <1>1, <1>3, <2>2, <3>1, Credited
    <3>3. ledger[judge][s] \in Int
      BY <1>1, <2>2
    <3> QED BY <1>1, <2>2, <3>1, <3>2, <3>3
  <2> QED BY <2>1, <2>2 DEF Judges
<1> QED BY <1>2, <1>4, <1>5, <1>6, <1>7 DEF Made

\* A reversal marks its effect, moves the row back at a new revision and takes the
\* entry back.
LEMMA ReversesDoes ==
    ASSUME DbTyped, NEW e \in DOMAIN effects, NEW since \in Nat, Reverses(e, since),
           UNCHANGED <<skips, opinions>>
    PROVE  Reversed(e, effects[e].seg, effects[e].by)
<1> SUFFICES ASSUME NEW s, s = effects[e].seg, NEW by, by = effects[e].by PROVE Reversed(e, s, by)
  OBVIOUS
<1> DEFINE new == [effects[e] EXCEPT !.undone = since + 1]
<1>1. /\ effects' = [effects EXCEPT ![e] = new]
      /\ rows' = [rows EXCEPT ![s] = [rev |-> @.rev + 1, eff |-> effects[e].prior]]
      /\ ledger' = IF by = Desktop THEN ledger ELSE [ledger EXCEPT ![by][s] = @ - effects[e].pay]
  BY DEF Reverses
<1>2. /\ effects[e] \in Effects /\ rows \in [Segments -> Rows]
      /\ ledger \in [Reviewers -> [Segments -> Int]] /\ effects \in Seq(Effects)
  BY Filed DEF DbTyped
<1>3. /\ s \in Segments /\ by \in Judges /\ effects[e].pay \in Int /\ effects[e].prior \in Nat
      /\ rows[s].rev \in Nat
  BY <1>2 DEF Effects, Rows
<1>4. /\ new \in Effects /\ new.op = effects[e].op /\ new.seg = s /\ new.by = by
      /\ new.act = effects[e].act /\ new.rev = effects[e].rev /\ new.prior = effects[e].prior
      /\ new.pay = effects[e].pay /\ new.undone # 0
  <2>1. PICK u \in Nat : u = since + 1 /\ u # 0
    OBVIOUS
  <2>2. new = [effects[e] EXCEPT !.undone = u]
    BY <2>1
  <2> QED BY <1>2, <2>1, <2>2 DEF Effects
<1> HIDE DEF new
<1>5. /\ effects' \in Seq(Effects) /\ DOMAIN effects' = DOMAIN effects /\ effects'[e] = new
      /\ \A f \in DOMAIN effects : f # e => effects'[f] = effects[f]
  BY <1>1, <1>2, <1>4, Replaced
<1>6. /\ rows' \in [Segments -> Rows] /\ rows'[s].rev = rows[s].rev + 1
      /\ rows'[s].eff = effects[e].prior
      /\ \A x \in Segments : x # s => rows'[x] = rows[x]
  <2> DEFINE v == [rev |-> rows[s].rev + 1, eff |-> effects[e].prior]
  <2>1. rows' = [rows EXCEPT ![s] = v]
    BY <1>1
  <2>2. v \in Rows /\ v.rev = rows[s].rev + 1 /\ v.eff = effects[e].prior
    BY <1>3 DEF Rows
  <2> HIDE DEF v
  <2> QED BY <1>2, <1>3, <2>1, <2>2
<1>7. /\ ledger' \in [Reviewers -> [Segments -> Int]]
      /\ \A r \in Reviewers, x \in Segments :
           ledger'[r][x] = IF r = by /\ x = s THEN ledger[r][x] - effects[e].pay ELSE ledger[r][x]
  <2>1. CASE by = Desktop
    <3>1. Desktop \notin Reviewers
      BY CouchAssumption, Zenon
    <3> QED BY <1>1, <1>2, <2>1, <3>1
  <2>2. CASE by # Desktop
    <3>1. by \in Reviewers /\ ledger[by][s] - effects[e].pay \in Int
      BY <1>2, <1>3, <2>2 DEF Judges
    <3>2. ledger' = [ledger EXCEPT ![by][s] = ledger[by][s] - effects[e].pay]
      BY <1>1, <2>2
    <3> QED BY <1>2, <1>3, <3>1, <3>2, Credited
  <2> QED BY <2>1, <2>2
<1> QED BY <1>3, <1>4, <1>5, <1>6, <1>7 DEF Reversed

\* An opinion is appended and credited.
LEMMA OpinionTakenDoes ==
    ASSUME DbTyped, PhoneTyped, JobTyped, NEW t \in Threads, OpinionTaken(t)
    PROVE  /\ Given(job[t].op, ops[job[t].op].by, ops[job[t].op].seg, Len(opinions) + 1)
           /\ job[t].op \in DOMAIN ops /\ UNCHANGED <<ops, cards>>
<1> SUFFICES ASSUME NEW op, op = job[t].op, NEW r, r = ops[op].by, NEW s, s = ops[op].seg,
                    NEW n, n = Len(opinions) + 1
             PROVE  Given(op, r, s, n) /\ op \in DOMAIN ops /\ UNCHANGED <<ops, cards>>
  OBVIOUS
<1> DEFINE delta == IF ops[op].act = "skip" THEN 0 ELSE EntryDelta(r, s, ops[op].act)
           new == [op |-> op, seg |-> s, by |-> r, act |-> ops[op].act, rev |-> ops[op].rev,
                   pay |-> delta, at |-> Stamp, undone |-> FALSE]
<1>0. /\ opinions' = Append(opinions, new) /\ ledger' = [ledger EXCEPT ![r][s] = @ + delta]
      /\ UNCHANGED <<rows, effects, skips, ops, cards>> /\ job[t].pc = "record"
  BY Zenon DEF OpinionTaken, At, page
<1>1. /\ op \in DOMAIN ops /\ op \in Nat /\ op # 0 /\ r \in Reviewers /\ s \in Segments
      /\ ops[op].act \in Acts /\ ops[op].rev \in Nat
  BY <1>0, Brings, Zenon DEF InPool
<1>2. /\ Stamp \in Nat /\ ledger \in [Reviewers -> [Segments -> Int]] /\ opinions \in Seq(Opinions)
  BY Filed DEF DbTyped
<1>3. /\ ops[op].act # "skip" => Rates[ops[op].act] \in Int /\ delta = Rates[ops[op].act] - ledger[r][s]
      /\ ops[op].act = "skip" => delta = 0
  BY <1>1, RatesTyped DEF Verdicts, EntryDelta
<1>4. delta \in Int
  BY <1>1, <1>2, <1>3
<1> HIDE DEF delta
<1>5. /\ new \in Opinions /\ new.op = op /\ new.seg = s /\ new.by = r /\ new.act = ops[op].act
      /\ new.rev = ops[op].rev /\ new.pay = delta /\ new.undone = FALSE
  BY <1>1, <1>2, <1>4 DEF Opinions
<1> HIDE DEF new
<1>6. /\ opinions' \in Seq(Opinions) /\ DOMAIN opinions' = DOMAIN opinions \cup {n}
      /\ n \notin DOMAIN opinions /\ n \in Nat /\ n # 0
      /\ \A o \in DOMAIN opinions : opinions'[o] = opinions[o] /\ o < n
      /\ opinions'[n] = new
  <2>1. /\ opinions' \in Seq(Opinions) /\ Len(opinions) \in Nat
        /\ DOMAIN opinions' = DOMAIN opinions \cup {Len(opinions) + 1}
        /\ Len(opinions) + 1 \notin DOMAIN opinions
        /\ \A o \in DOMAIN opinions : opinions'[o] = opinions[o] /\ o < Len(opinions) + 1
        /\ opinions'[Len(opinions) + 1] = new
    <3>1. opinions \in Seq(Opinions) /\ new \in Opinions /\ opinions' = Append(opinions, new)
      BY <1>0, <1>2, <1>5, Zenon
    <3> QED BY <3>1, Appended
  <2> QED BY <2>1
<1>7. /\ ledger' \in [Reviewers -> [Segments -> Int]]
      /\ \A q \in Reviewers, x \in Segments :
           ledger'[q][x] = IF q = r /\ x = s /\ ops[op].act # "skip" THEN Rates[ops[op].act]
                           ELSE ledger[q][x]
  <2>0. ledger \in [Reviewers -> [Segments -> Int]] /\ r \in Reviewers /\ s \in Segments
    BY <1>1, <1>2
  <2>1. CASE ops[op].act = "skip"
    <3>1. PICK v \in Int : v = ledger[r][s] /\ v + delta = v
      BY <1>1, <1>2, <1>3, <2>1
    <3>2. ledger' = [ledger EXCEPT ![r][s] = v]
      BY <1>0, <3>1, Zenon
    <3>3. /\ ledger' \in [Reviewers -> [Segments -> Int]]
          /\ \A q \in Reviewers, x \in Segments :
               ledger'[q][x] = IF q = r /\ x = s THEN v ELSE ledger[q][x]
      BY <2>0, <3>2, Zenon
    <3> QED BY <2>1, <3>1, <3>3, Zenon
  <2>2. CASE ops[op].act # "skip"
    <3>1. Rates[ops[op].act] \in Int /\ ledger[r][s] + delta = Rates[ops[op].act]
      BY <1>1, <1>2, <1>3, <2>2
    <3>2. ledger' = [ledger EXCEPT ![r][s] = Rates[ops[op].act]]
      BY <1>0, <3>1, Zenon
    <3>3. /\ ledger' \in [Reviewers -> [Segments -> Int]]
          /\ \A q \in Reviewers, x \in Segments :
               ledger'[q][x] = IF q = r /\ x = s THEN Rates[ops[op].act] ELSE ledger[q][x]
      BY <2>0, <3>1, <3>2, Zenon
    <3> QED BY <2>2, <3>3, Zenon
  <2> QED BY <2>1, <2>2
<1> QED BY <1>0, <1>1, <1>3, <1>5, <1>6, <1>7, Zenon DEF Given

\* An opinion is reversed, once.
LEMMA OpinionUndoneDoes ==
    ASSUME DbTyped, JobTyped, NEW t \in Threads, OpinionUndone(t)
    PROVE  /\ Withdrawn(job[t].opinion, job[t].by, opinions[job[t].opinion].seg)
           /\ job[t].opinion \in DOMAIN opinions /\ opinions[job[t].opinion].by = job[t].by
           /\ UNCHANGED <<ops, cards>>
<1> SUFFICES ASSUME NEW o, o = job[t].opinion, NEW r, r = job[t].by, NEW s, s = opinions[o].seg
             PROVE  /\ Withdrawn(o, r, s) /\ o \in DOMAIN opinions /\ opinions[o].by = r
                    /\ UNCHANGED <<ops, cards>>
  OBVIOUS
<1> DEFINE new == [opinions[o] EXCEPT !.undone = TRUE]
<1>1. /\ opinions' = [opinions EXCEPT ![o] = new]
      /\ ledger' = IF opinions[o].undone THEN ledger
                   ELSE [ledger EXCEPT ![r][s] = @ - opinions[o].pay]
      /\ UNCHANGED <<rows, effects, skips, ops, cards>>
      /\ job[t].pc = "pool undo" /\ o = LatestOf(PoolDecisions(r))
  BY Zenon DEF OpinionUndone, At, page
<1>2. o \in DOMAIN opinions /\ r \in Reviewers /\ opinions[o].by = r
  BY <1>1, TakesOpinionBack, Zenon
<1>3. /\ opinions[o] \in Opinions /\ ledger \in [Reviewers -> [Segments -> Int]]
      /\ opinions \in Seq(Opinions)
  BY <1>2, Filed DEF DbTyped
<1>4. s \in Segments /\ opinions[o].pay \in Int /\ opinions[o].undone \in BOOLEAN
  BY <1>3 DEF Opinions
<1>5. /\ new \in Opinions /\ new.op = opinions[o].op /\ new.seg = s /\ new.by = r
      /\ new.act = opinions[o].act /\ new.rev = opinions[o].rev /\ new.undone = TRUE
  BY <1>2, <1>3 DEF Opinions
<1> HIDE DEF new
<1>6. /\ opinions' \in Seq(Opinions) /\ DOMAIN opinions' = DOMAIN opinions /\ opinions'[o] = new
      /\ \A p \in DOMAIN opinions : p # o => opinions'[p] = opinions[p]
  BY <1>1, <1>2, <1>3, <1>5, Replaced, Zenon
<1>7. /\ ledger' \in [Reviewers -> [Segments -> Int]]
      /\ \A q \in Reviewers, x \in Segments :
           ledger'[q][x] = IF q = r /\ x = s /\ ~opinions[o].undone
                           THEN ledger[q][x] - opinions[o].pay ELSE ledger[q][x]
  <2>0. ledger \in [Reviewers -> [Segments -> Int]] /\ r \in Reviewers /\ s \in Segments
    BY <1>2, <1>3, <1>4
  <2>1. CASE opinions[o].undone
    BY <1>1, <1>3, <2>1, Zenon
  <2>2. CASE ~opinions[o].undone
    <3>1. ledger[r][s] - opinions[o].pay \in Int
      BY <1>2, <1>3, <1>4
    <3>2. ledger' = [ledger EXCEPT ![r][s] = ledger[r][s] - opinions[o].pay]
      BY <1>1, <2>2, Zenon
    <3>3. /\ ledger' \in [Reviewers -> [Segments -> Int]]
          /\ \A q \in Reviewers, x \in Segments :
               ledger'[q][x] = IF q = r /\ x = s THEN ledger[r][s] - opinions[o].pay ELSE ledger[q][x]
      BY <2>0, <3>1, <3>2, Zenon
    <3> QED BY <2>2, <3>3
  <2> QED BY <2>1, <2>2
<1> QED BY <1>1, <1>2, <1>4, <1>5, <1>6, <1>7, Zenon DEF Withdrawn

\* A skip is appended.
LEMMA SkipTakenDoes ==
    ASSUME DbTyped, PhoneTyped, JobTyped, NEW t \in Threads, SkipTaken(t)
    PROVE  /\ SkipFiled(job[t].op, Len(skips) + 1) /\ job[t].op \in DOMAIN ops
           /\ UNCHANGED <<ops, cards, inflight, undo, token, lock>>
<1> SUFFICES ASSUME NEW op, op = job[t].op, NEW n, n = Len(skips) + 1
             PROVE  /\ SkipFiled(op, n) /\ op \in DOMAIN ops
                    /\ UNCHANGED <<ops, cards, inflight, undo, token, lock>>
  OBVIOUS
<1> DEFINE new == [op |-> op, seg |-> ops[op].seg, by |-> ops[op].by, at |-> Stamp]
<1>1. /\ skips' = Append(skips, new) /\ job[t].pc = "canonical" /\ ops[op].act = "skip"
      /\ UNCHANGED <<rows, effects, opinions, ledger, ops, cards, inflight, undo, token, lock>>
  BY DEF SkipTaken, At, RecordSkip, page
<1>2. op \in DOMAIN ops /\ op \in Nat /\ op # 0 /\ ops[op] \in Operations
  BY <1>1, Brings DEF Canonical
<1>3. new \in Skips /\ new.op = op /\ skips \in Seq(Skips)
  BY <1>2, Filed DEF Skips, Operations, DbTyped
<1> HIDE DEF new
<1>4. /\ skips' \in Seq(Skips) /\ DOMAIN skips' = DOMAIN skips \cup {n} /\ n \notin DOMAIN skips
      /\ \A k \in DOMAIN skips : skips'[k] = skips[k]
      /\ skips'[n] = new
  BY <1>1, <1>3, Appended
<1> QED BY <1>1, <1>2, <1>3, <1>4 DEF SkipFiled

\* Another writer makes a new revision of a row.
LEMMA TouchDoes ==
    ASSUME DbTyped, NEW s \in Segments, Touch(s)
    PROVE  Touched(s) /\ UNCHANGED <<ops, cards>>
<1> DEFINE v == [rows[s] EXCEPT !.rev = @ + 1]
<1>1. rows' = [rows EXCEPT ![s] = v] /\ UNCHANGED <<effects, skips, opinions, ledger, ops, cards>>
  BY DEF Touch, page
<1>2. v \in Rows /\ v.rev = rows[s].rev + 1 /\ v.eff = rows[s].eff /\ rows \in [Segments -> Rows]
  <2>1. rows \in [Segments -> Rows] /\ rows[s] \in Rows /\ rows[s].rev \in Nat
    BY DEF DbTyped, Rows
  <2>2. PICK n \in Nat : n = rows[s].rev + 1
    BY <2>1
  <2>3. v = [rows[s] EXCEPT !.rev = n]
    BY <2>2
  <2> QED BY <2>1, <2>2, <2>3 DEF Rows
<1> HIDE DEF v
<1> QED BY <1>1, <1>2 DEF Touched

\* The desktop takes back its last decision.
LEMMA DesktopUndoesDoes ==
    ASSUME DbTyped, DesktopUndoes
    PROVE  \E e \in DOMAIN effects :
             /\ effects[e].by = Desktop /\ effects[e].undone = 0 /\ ~BuiltUpon(e)
             /\ Reversed(e, effects[e].seg, effects[e].by) /\ UNCHANGED <<ops, cards>>
<1>1. DesktopEffects \in SUBSET DOMAIN effects /\ DesktopEffects # {} /\ effects \in Seq(Effects)
  BY DEF DesktopEffects, DesktopUndoes, DbTyped
<1>2. Max(DesktopEffects) \in DesktopEffects
  BY <1>1, Latest
<1>3. Len(effects) \in Nat
  BY Filed
<1>4. PICK e \in DOMAIN effects :
        /\ effects[e].by = Desktop /\ effects[e].undone = 0 /\ ~BuiltUpon(e)
        /\ Reverses(e, Len(effects)) /\ UNCHANGED <<skips, opinions, ops, cards>>
  BY <1>1, <1>2 DEF DesktopUndoes, DesktopEffects, page
<1> QED BY <1>3, <1>4, ReversesDoes

\* A decision is committed for the operation that claimed the clip.
LEMMA CommittedDoes ==
    ASSUME CouchInv, NEW t \in Threads, Committed(t), NEW op, op = job[t].op
    PROVE  /\ op \in DOMAIN ops /\ op \in Nat /\ op # 0 /\ ops[op].by \in Reviewers
           /\ ops[op].by \in Judges /\ ops[op].seg \in Segments /\ ops[op].act \in Verdicts
           /\ ops[op].rev \in Nat /\ AsServed(op)
           /\ Decides(ops[op].by, ops[op].seg, ops[op].act, op)
           /\ Knows(t) /\ job[t].pc = "commit" /\ job[t] \in DecisionJobs
           /\ UNCHANGED <<skips, opinions, ops, cards, lock>>
<1>1. /\ job[t].pc = "commit" /\ Decides(ops[op].by, ops[op].seg, ops[op].act, op)
      /\ UNCHANGED <<skips, opinions, ops, cards, lock>> /\ ops[op].rev = rows[ops[op].seg].rev
  BY DEF Committed, At, page, CommitsAtRevision, StaleServe
<1>2. Knows(t) /\ ops[op].act # "skip"
  BY <1>1 DEF CouchInv, Threading, Knows, Claim
<1>3. /\ op \in DOMAIN ops /\ op \in Nat /\ op # 0 /\ ops[op].by \in Reviewers
      /\ ops[op].seg \in Segments /\ ops[op].act \in Acts /\ ops[op].rev \in Nat
      /\ job[t] \in DecisionJobs
  BY <1>1, Brings, Zenon DEF CouchInv, Canonical
<1> QED BY <1>1, <1>2, <1>3 DEF Verdicts, Judges, AsServed
-----------------------------------------------------------------------------
(* The writes of the database, as the invariants see them.                 *)

\* An operation without a record.
Unrecorded(op) == op \in DOMAIN ops /\ ~CanonicalReceipt(op) /\ ~PoolReceipt(op)

\* A phone's verdict is recorded on the revision its phone showed, on no one else's
\* verdict and beside no opinion of the reviewer's.
PhoneDecides(op, n) ==
    /\ Unrecorded(op) /\ AsServed(op) /\ ops[op].act \in Verdicts
    /\ Made(ops[op].by, ops[op].seg, ops[op].act, op, n)
    /\ Verified(ops[op].seg) => JudgeOf(ops[op].seg) = ops[op].by
    /\ \A o \in Effective(ops[op].seg) : opinions[o].by # ops[op].by

\* The owner decides at the desktop.
OwnerDecides(s, act, n) == Made(Desktop, s, act, 0, n)

\* A decision that nothing was built on is undone.
TakesBackLast(e) ==
    /\ e \in DOMAIN effects /\ effects[e].undone = 0 /\ ~BuiltUpon(e)
    /\ Reversed(e, effects[e].seg, effects[e].by)

\* Another reviewer's opinion on a judged clip is recorded.
GivesOpinion(op, n) ==
    /\ Pool /\ Unrecorded(op) /\ AsServed(op) /\ Verified(ops[op].seg)
    /\ ops[op].by \notin Seen(ops[op].seg)
    /\ Given(op, ops[op].by, ops[op].seg, n)

\* A reviewer withdraws an opinion.
Withdraws(o) ==
    o \in DOMAIN opinions /\ Withdrawn(o, opinions[o].by, opinions[o].seg)

Changes ==
    \/ \E op, n : SkipFiled(op, n) /\ Unrecorded(op)
    \/ \E op, n : PhoneDecides(op, n)
    \/ \E s \in Segments, act \in Verdicts : \E n : OwnerDecides(s, act, n)
    \/ \E e : TakesBackLast(e)
    \/ \E op, n : GivesOpinion(op, n)
    \/ \E o : Withdraws(o)
    \/ \E s \in Segments : Touched(s)

\* On its way to the canonical decision, an operation is no opinion.
LEMMA NoOpinionYet ==
    ASSUME CouchInv, NEW t \in Threads, job[t].pc \in {"canonical", "commit"}
    PROVE  ~PoolReceipt(job[t].op)
<1>1. CASE Pool
  BY <1>1 DEF CouchInv, Threading, Knows, Fork, CanonicalPath, Canonical
<1>2. CASE ~Pool
  <2>1. opinions = <<>>
    BY <1>2 DEF CouchInv, NoPool
  <2>2. DOMAIN opinions = {}
    BY <2>1
  <2> QED BY <2>2 DEF PoolReceipt, OpinionsOf
<1> QED BY <1>1, <1>2

\* A committed decision.
LEMMA CommitDecides ==
    ASSUME CouchInv, NEW t \in Threads, Committed(t)
    PROVE  PhoneDecides(job[t].op, Len(effects) + 1) /\ UNCHANGED <<ops, cards>>
<1> SUFFICES ASSUME NEW op, op = job[t].op
             PROVE  PhoneDecides(op, Len(effects) + 1) /\ UNCHANGED <<ops, cards>>
  OBVIOUS
<1>1. /\ op \in DOMAIN ops /\ op \in Nat /\ op # 0 /\ ops[op].by \in Reviewers
      /\ ops[op].by \in Judges /\ ops[op].seg \in Segments /\ ops[op].act \in Verdicts
      /\ AsServed(op) /\ Decides(ops[op].by, ops[op].seg, ops[op].act, op)
      /\ Knows(t) /\ job[t].pc = "commit" /\ UNCHANGED <<skips, opinions, ops, cards>>
  BY CommittedDoes
<1>2. Made(ops[op].by, ops[op].seg, ops[op].act, op, Len(effects) + 1)
  BY <1>1, DecidesDoes DEF CouchInv
<1>3. ~PoolReceipt(op)
  BY <1>1, NoOpinionYet
<1>4. ~CanonicalReceipt(op) /\ (Verified(ops[op].seg) => JudgeOf(ops[op].seg) = ops[op].by)
  BY <1>1 DEF Knows, Claim
<1>5. \A o \in Effective(ops[op].seg) : opinions[o].by # ops[op].by
  <2>1. CASE Pool
    <3>1. ~AlreadySeen(op)
      BY DEF Committed
    <3> QED BY <2>1, <3>1 DEF AlreadySeen, Seen
  <2>2. CASE ~Pool
    <3>1. DOMAIN opinions = {}
      BY <2>2 DEF CouchInv, NoPool
    <3> QED BY <3>1 DEF Effective
  <2> QED BY <2>1, <2>2
<1> QED BY <1>1, <1>2, <1>3, <1>4, <1>5 DEF PhoneDecides, Unrecorded

\* Every write is one of these changes, and shows the phones nothing.
LEMMA WritesChange ==
    ASSUME CouchInv, Writes
    PROVE  Changes /\ UNCHANGED <<ops, cards>>
<1>1. DbTyped /\ PhoneTyped /\ JobTyped
  BY DEF CouchInv
<1>2. ASSUME NEW t \in Threads, SkipTaken(t) PROVE Changes /\ UNCHANGED <<ops, cards>>
  <2>1. SkipFiled(job[t].op, Len(skips) + 1) /\ job[t].op \in DOMAIN ops /\ UNCHANGED <<ops, cards>>
    BY <1>1, <1>2, SkipTakenDoes
  <2>2. ~CanonicalReceipt(job[t].op) /\ ~PoolReceipt(job[t].op)
    BY <1>2, NoOpinionYet DEF SkipTaken, At
  <2> QED BY <2>1, <2>2 DEF Changes, Unrecorded
<1>3. ASSUME NEW t \in Threads, Committed(t) PROVE Changes /\ UNCHANGED <<ops, cards>>
  BY <1>3, CommitDecides DEF Changes
<1>4. ASSUME NEW t \in Threads, OpinionTaken(t) PROVE Changes /\ UNCHANGED <<ops, cards>>
  <2> SUFFICES ASSUME NEW op, op = job[t].op PROVE Changes /\ UNCHANGED <<ops, cards>>
    OBVIOUS
  <2>1. /\ Given(op, ops[op].by, ops[op].seg, Len(opinions) + 1)
        /\ op \in DOMAIN ops /\ UNCHANGED <<ops, cards>>
    BY <1>1, <1>4, OpinionTakenDoes
  <2>2. /\ ~CanonicalReceipt(op) /\ ~PoolReceipt(op) /\ ops[op].by \notin Seen(ops[op].seg)
        /\ AsServed(op) /\ Verified(ops[op].seg) /\ job[t].pc = "record"
    BY <1>4, Zenon DEF OpinionTaken, StaleServe, AsServed, At
  <2>3. Pool
    BY <2>2 DEF CouchInv, Threading, Knows, Fork, InPool
  <2> QED BY <2>1, <2>2, <2>3 DEF Changes, GivesOpinion, Unrecorded
<1>5. ASSUME NEW t \in Threads, EffectUndone(t) PROVE Changes /\ UNCHANGED <<ops, cards>>
  <2> SUFFICES ASSUME NEW e, e = job[t].effect PROVE Changes /\ UNCHANGED <<ops, cards>>
    OBVIOUS
  <2>1. /\ job[t].pc = "reverse" /\ Reverses(e, job[t].since) /\ effects[e].undone = 0
        /\ ~BuiltUpon(e) /\ UNCHANGED <<skips, opinions, ops, cards>>
    BY <1>5 DEF EffectUndone, At, page
  <2>2. e \in DOMAIN effects /\ job[t].since \in Nat
    BY <1>1, <2>1, TakesBack
  <2>3. Reversed(e, effects[e].seg, effects[e].by)
    BY <1>1, <2>1, <2>2, ReversesDoes
  <2> QED BY <2>1, <2>2, <2>3 DEF Changes, TakesBackLast
<1>6. ASSUME NEW t \in Threads, OpinionUndone(t) PROVE Changes /\ UNCHANGED <<ops, cards>>
  <2> SUFFICES ASSUME NEW o, o = job[t].opinion PROVE Changes /\ UNCHANGED <<ops, cards>>
    OBVIOUS
  <2>1. /\ Withdrawn(o, job[t].by, opinions[o].seg) /\ o \in DOMAIN opinions
        /\ opinions[o].by = job[t].by /\ UNCHANGED <<ops, cards>>
    BY <1>1, <1>6, OpinionUndoneDoes
  <2>2. Withdraws(o)
    BY <2>1 DEF Withdraws
  <2> QED BY <2>1, <2>2 DEF Changes
<1>7. ASSUME NEW s \in Segments, Touch(s) PROVE Changes /\ UNCHANGED <<ops, cards>>
  BY <1>1, <1>7, TouchDoes DEF Changes
<1>8. ASSUME NEW s \in Segments, NEW act \in Verdicts, DesktopDecides(s, act)
      PROVE  Changes /\ UNCHANGED <<ops, cards>>
  <2>1. Decides(Desktop, s, act, 0) /\ UNCHANGED <<skips, opinions, ops, cards>> /\ Desktop \in Judges
    BY <1>8 DEF DesktopDecides, page, Judges
  <2>2. OwnerDecides(s, act, Len(effects) + 1)
    BY <1>1, <2>1, DecidesDoes DEF OwnerDecides
  <2> QED BY <2>1, <2>2 DEF Changes
<1>9. CASE DesktopUndoes
  BY <1>1, <1>9, DesktopUndoesDoes DEF Changes, TakesBackLast
<1> QED BY <1>2, <1>3, <1>4, <1>5, <1>6, <1>7, <1>8, <1>9 DEF Writes
-----------------------------------------------------------------------------
(* History only grows.                                                     *)

SameEffect(e) ==
    /\ effects'[e].op = effects[e].op /\ effects'[e].seg = effects[e].seg
    /\ effects'[e].by = effects[e].by /\ effects'[e].act = effects[e].act
    /\ effects'[e].rev = effects[e].rev /\ effects'[e].prior = effects[e].prior

SameOpinion(o) ==
    /\ opinions'[o].op = opinions[o].op /\ opinions'[o].seg = opinions[o].seg
    /\ opinions'[o].by = opinions[o].by /\ opinions'[o].act = opinions[o].act
    /\ opinions'[o].rev = opinions[o].rev

Grows ==
    /\ DOMAIN effects \subseteq DOMAIN effects' /\ \A e \in DOMAIN effects : SameEffect(e)
    /\ DOMAIN skips \subseteq DOMAIN skips' /\ \A k \in DOMAIN skips : skips'[k].op = skips[k].op
    /\ DOMAIN opinions \subseteq DOMAIN opinions' /\ \A o \in DOMAIN opinions : SameOpinion(o)
    /\ \A s \in Segments : rows'[s] = rows[s] \/ rows'[s].rev = rows[s].rev + 1

\* An operation's parts.
LEMMA OpTyped ==
    ASSUME PhoneTyped, NEW op \in DOMAIN ops
    PROVE  /\ op \in Nat /\ op # 0 /\ ops[op].by \in Reviewers /\ ops[op].seg \in Segments
           /\ ops[op].act \in Acts /\ ops[op].rev \in Nat /\ ops[op].by # Desktop
<1>1. op \in Nat /\ op # 0 /\ ops[op] \in Operations
  BY Ids DEF PhoneTyped
<1>2. Desktop \notin Reviewers
  BY CouchAssumption, Zenon
<1> QED BY <1>1, <1>2 DEF Operations

\* A change keeps the types, changes no record but to reverse it, and makes a new
\* revision of every row it changes.
LEMMA ChangesGrow ==
    ASSUME CouchInv, Changes
    PROVE  DbTyped' /\ Grows
<1>1. DbTyped /\ PhoneTyped
  BY DEF CouchInv
<1>2. ASSUME NEW judge, NEW s, NEW act, NEW op, NEW n, Made(judge, s, act, op, n)
      PROVE  DbTyped' /\ Grows
  BY <1>1, <1>2 DEF Made, DbTyped, Grows, SameEffect, SameOpinion
<1>3. ASSUME NEW op, NEW n, PhoneDecides(op, n) PROVE DbTyped' /\ Grows
  BY <1>2, <1>3 DEF PhoneDecides
<1>4. ASSUME NEW s \in Segments, NEW act \in Verdicts, NEW n, OwnerDecides(s, act, n)
      PROVE DbTyped' /\ Grows
  BY <1>2, <1>4 DEF OwnerDecides
<1>5. ASSUME NEW op, NEW n, SkipFiled(op, n) PROVE DbTyped' /\ Grows
  BY <1>1, <1>5 DEF SkipFiled, DbTyped, Grows, SameEffect, SameOpinion
<1>6. ASSUME NEW e, TakesBackLast(e) PROVE DbTyped' /\ Grows
  <2>1. e \in DOMAIN effects /\ Reversed(e, effects[e].seg, effects[e].by)
    BY <1>6 DEF TakesBackLast
  <2>2. SameEffect(e) /\ \A f \in DOMAIN effects : f # e => SameEffect(f)
    BY <2>1 DEF Reversed, SameEffect
  <2> QED BY <1>1, <2>1, <2>2 DEF Reversed, DbTyped, Grows, SameOpinion
<1>7. ASSUME NEW op, NEW n, GivesOpinion(op, n) PROVE DbTyped' /\ Grows
  <2>1. Given(op, ops[op].by, ops[op].seg, n)
    BY <1>7 DEF GivesOpinion
  <2> QED BY <1>1, <2>1 DEF Given, DbTyped, Grows, SameEffect, SameOpinion
<1>8. ASSUME NEW o, Withdraws(o) PROVE DbTyped' /\ Grows
  <2>1. o \in DOMAIN opinions /\ Withdrawn(o, opinions[o].by, opinions[o].seg)
    BY <1>8 DEF Withdraws
  <2>2. SameOpinion(o) /\ \A p \in DOMAIN opinions : p # o => SameOpinion(p)
    BY <2>1 DEF Withdrawn, SameOpinion
  <2> QED BY <1>1, <2>1, <2>2 DEF Withdrawn, DbTyped, Grows, SameEffect
<1>9. ASSUME NEW s \in Segments, Touched(s) PROVE DbTyped' /\ Grows
  BY <1>1, <1>9 DEF Touched, DbTyped, Grows, SameEffect, SameOpinion
<1> QED BY <1>3, <1>4, <1>5, <1>6, <1>7, <1>8, <1>9 DEF Changes

\* A step that leaves the database alone.
LEMMA StillGrows ==
    ASSUME DbTyped, UNCHANGED db
    PROVE  DbTyped' /\ Grows
  BY DEF db, DbTyped, Grows, SameEffect, SameOpinion

-----------------------------------------------------------------------------
(* The invariants of the database.                                         *)

\* Rows that move on leave what the phones show and what is recorded behind them.
LEMMA RowsAhead ==
    ASSUME CouchInv, \A x \in Segments : rows'[x].rev \in {rows[x].rev, rows[x].rev + 1},
           UNCHANGED <<ops, cards>>
    PROVE  /\ \A r \in Reviewers, x \in Segments : cards'[r][x] <= rows'[x].rev
           /\ \A op \in DOMAIN ops' : ops'[op].rev <= rows'[ops'[op].seg].rev
           /\ \A e \in DOMAIN effects : effects[e].rev <= rows'[effects[e].seg].rev
<1>1. DbTyped /\ PhoneTyped /\ Revisions
  BY DEF CouchInv
<1>2. \A x \in Segments : rows[x].rev \in Nat
  BY <1>1 DEF DbTyped, Rows
<1>3. \A e \in DOMAIN effects : effects[e].rev \in Nat /\ effects[e].seg \in Segments
  BY <1>1, Filed DEF Effects
<1>4. ASSUME NEW a \in Nat, NEW x \in Segments, a <= rows[x].rev PROVE a <= rows'[x].rev
  BY <1>2, <1>4
<1>5. \A r \in Reviewers, x \in Segments : cards[r][x] \in Nat /\ cards[r][x] <= rows[x].rev
  BY <1>1 DEF PhoneTyped, Revisions
<1>6. \A op \in DOMAIN ops : /\ ops[op].rev \in Nat /\ ops[op].seg \in Segments
                            /\ ops[op].rev <= rows[ops[op].seg].rev
  BY <1>1, OpTyped DEF Revisions
<1>7. \A e \in DOMAIN effects : effects[e].rev <= rows[effects[e].seg].rev
  BY <1>1 DEF Revisions
<1> QED BY <1>3, <1>4, <1>5, <1>6, <1>7

\* Revisions of the clips, when a decision is made.
LEMMA MadeRevisions ==
    ASSUME CouchInv, NEW judge, NEW s \in Segments, NEW act, NEW op, NEW n,
           Made(judge, s, act, op, n), UNCHANGED <<ops, cards>>
    PROVE  Revisions'
<1>1. DbTyped /\ PhoneTyped /\ Revisions
  BY DEF CouchInv
<1>2. \A x \in Segments : rows[x].rev \in Nat /\ rows[x].eff \in Nat
  BY <1>1 DEF DbTyped, Rows
<1>3. \A e \in DOMAIN effects : effects[e].rev \in Nat /\ e \in Nat /\ effects[e].seg \in Segments
  BY <1>1, Filed DEF Effects
<1>4. \A x \in Segments : rows'[x].eff # 0 =>
         rows'[x].eff \in DOMAIN effects' /\ effects'[rows'[x].eff].seg = x
  BY <1>1 DEF Made, Revisions
<1>0. \A x \in Segments : rows'[x].rev \in {rows[x].rev, rows[x].rev + 1}
  BY DEF Made
<1>5. \A e \in DOMAIN effects' : effects'[e].rev <= rows'[effects'[e].seg].rev
  <2>1. \A e \in DOMAIN effects : effects[e].rev <= rows'[effects[e].seg].rev
    BY <1>0, RowsAhead
  <2>2. effects'[n].rev <= rows'[effects'[n].seg].rev
    BY <1>2 DEF Made
  <2> QED BY <2>1, <2>2 DEF Made
<1>6. \A e, f \in DOMAIN effects' :
         e < f /\ effects'[e].seg = effects'[f].seg => effects'[e].rev < effects'[f].rev
  <2> SUFFICES ASSUME NEW e \in DOMAIN effects', NEW f \in DOMAIN effects', e < f,
                      effects'[e].seg = effects'[f].seg
               PROVE  effects'[e].rev < effects'[f].rev
    OBVIOUS
  <2>1. e \in DOMAIN effects
    BY <1>3 DEF Made
  <2>2. CASE f \in DOMAIN effects
    BY <1>1, <2>1, <2>2 DEF Made, Revisions
  <2>3. CASE f = n
    <3>1. effects[e].seg = s /\ effects'[e].rev = effects[e].rev /\ effects'[f].rev = rows[s].rev + 1
      BY <2>1, <2>3 DEF Made
    <3>2. effects[e].rev <= rows[s].rev
      BY <1>1, <2>1, <3>1 DEF Revisions
    <3> QED BY <1>2, <1>3, <2>1, <3>1, <3>2
  <2> QED BY <2>2, <2>3 DEF Made
<1>7. \A e \in DOMAIN effects' : effects'[e].prior # 0 =>
        effects'[e].prior \in DOMAIN effects' /\ effects'[effects'[e].prior].seg = effects'[e].seg
  <2> SUFFICES ASSUME NEW e \in DOMAIN effects', effects'[e].prior # 0
               PROVE  /\ effects'[e].prior \in DOMAIN effects'
                      /\ effects'[effects'[e].prior].seg = effects'[e].seg
    OBVIOUS
  <2>1. CASE e \in DOMAIN effects
    BY <1>1, <2>1 DEF Made, Revisions
  <2>2. CASE e = n
    BY <1>1, <2>2 DEF Made, Revisions
  <2> QED BY <2>1, <2>2 DEF Made
<1>8. \A r \in Reviewers, x \in Segments : cards'[r][x] <= rows'[x].rev
  BY <1>0, RowsAhead
<1>9. \A o \in DOMAIN ops' : ops'[o].rev <= rows'[ops'[o].seg].rev
  BY <1>0, RowsAhead
<1> QED BY <1>4, <1>5, <1>6, <1>7, <1>8, <1>9 DEF Revisions

\* When a decision is undone.
LEMMA ReversedRevisions ==
    ASSUME CouchInv, NEW e, TakesBackLast(e), UNCHANGED <<ops, cards>>
    PROVE  Revisions'
<1> SUFFICES ASSUME NEW s, s = effects[e].seg, NEW by, by = effects[e].by, Reversed(e, s, by),
                    e \in DOMAIN effects
             PROVE  Revisions'
  BY DEF TakesBackLast
<1>1. DbTyped /\ PhoneTyped /\ Revisions
  BY DEF CouchInv
<1>2. \A x \in Segments : rows[x].rev \in Nat /\ rows[x].eff \in Nat
  BY <1>1 DEF DbTyped, Rows
<1>3. \A f \in DOMAIN effects : effects[f].rev \in Nat /\ f \in Nat /\ effects[f].seg \in Segments
  BY <1>1, Filed DEF Effects
<1>4. \A f \in DOMAIN effects : /\ effects'[f].seg = effects[f].seg /\ effects'[f].rev = effects[f].rev
                                /\ effects'[f].prior = effects[f].prior
  BY DEF Reversed
<1>5. \A x \in Segments : rows'[x].eff # 0 =>
         rows'[x].eff \in DOMAIN effects' /\ effects'[rows'[x].eff].seg = x
  BY <1>1, <1>4 DEF Reversed, Revisions
<1>0. \A x \in Segments : rows'[x].rev \in {rows[x].rev, rows[x].rev + 1}
  BY DEF Reversed
<1>6. \A f \in DOMAIN effects' : effects'[f].rev <= rows'[effects'[f].seg].rev
  <2>1. \A f \in DOMAIN effects : effects[f].rev <= rows'[effects[f].seg].rev
    BY <1>0, RowsAhead
  <2> QED BY <1>4, <2>1 DEF Reversed
<1>7. \A r \in Reviewers, x \in Segments : cards'[r][x] <= rows'[x].rev
  BY <1>0, RowsAhead
<1>8. \A o \in DOMAIN ops' : ops'[o].rev <= rows'[ops'[o].seg].rev
  BY <1>0, RowsAhead
<1>9. DOMAIN effects' = DOMAIN effects
  BY DEF Reversed
<1> QED BY <1>1, <1>4, <1>5, <1>6, <1>7, <1>8, <1>9 DEF Revisions

\* The revisions are in order after every change.
LEMMA ChangesRevisions ==
    ASSUME CouchInv, Changes, UNCHANGED <<ops, cards>>
    PROVE  Revisions'
<1>1. DbTyped /\ PhoneTyped /\ Revisions
  BY DEF CouchInv
<1>2. CASE UNCHANGED <<rows, effects>>
  BY <1>1, <1>2 DEF Revisions
<1>3. ASSUME NEW op, NEW n, PhoneDecides(op, n) PROVE Revisions'
  BY <1>1, <1>3, MadeRevisions, OpTyped DEF PhoneDecides, Unrecorded
<1>4. ASSUME NEW s \in Segments, NEW act \in Verdicts, NEW n, OwnerDecides(s, act, n) PROVE Revisions'
  BY <1>4, MadeRevisions DEF OwnerDecides
<1>5. ASSUME NEW e, TakesBackLast(e) PROVE Revisions'
  BY <1>5, ReversedRevisions
<1>6. ASSUME NEW s \in Segments, Touched(s) PROVE Revisions'
  <2>1. /\ \A x \in Segments : rows'[x].eff = rows[x].eff
        /\ \A x \in Segments : rows'[x].rev \in {rows[x].rev, rows[x].rev + 1}
        /\ UNCHANGED effects
    BY <1>6 DEF Touched
  <2>2. /\ \A r \in Reviewers, x \in Segments : cards'[r][x] <= rows'[x].rev
        /\ \A op \in DOMAIN ops' : ops'[op].rev <= rows'[ops'[op].seg].rev
        /\ \A e \in DOMAIN effects : effects[e].rev <= rows'[effects[e].seg].rev
    BY <2>1, RowsAhead
  <2> QED BY <1>1, <2>1, <2>2 DEF Revisions
<1> QED BY <1>2, <1>3, <1>4, <1>5, <1>6 DEF Changes, SkipFiled, GivesOpinion, Given, Withdraws, Withdrawn

\* No operation gets a second record when a decision is made.
LEMMA MadeReceipts ==
    ASSUME CouchInv, NEW judge, NEW s, NEW act, NEW op, NEW n, Made(judge, s, act, op, n),
           UNCHANGED ops,
           (judge \in Reviewers /\ Unrecorded(op)) \/ (judge = Desktop /\ op = 0)
    PROVE  Receipts'
<1>1. Receipts /\ PhoneTyped
  BY DEF CouchInv
<1>2. /\ UNCHANGED <<skips, opinions, ops>> /\ DOMAIN effects' = DOMAIN effects \cup {n}
      /\ \A e \in DOMAIN effects : effects'[e] = effects[e]
      /\ effects'[n].op = op /\ effects'[n].by = judge
  BY DEF Made
<1>3. \A x : SkipsOf(x)' = SkipsOf(x) /\ OpinionsOf(x)' = OpinionsOf(x)
  BY <1>2 DEF SkipsOf, OpinionsOf
<1>4. \A x : x # op => EffectsOf(x)' = EffectsOf(x)
  BY <1>2 DEF EffectsOf
<1>5. EffectsOf(op)' = EffectsOf(op) \cup {n}
  BY <1>2 DEF EffectsOf
<1>6. op \in DOMAIN ops => EffectsOf(op) = {} /\ SkipsOf(op) = {} /\ OpinionsOf(op) = {}
  <2>1. 0 \notin DOMAIN ops
    BY <1>1, OpTyped
  <2> QED BY <2>1 DEF Unrecorded, CanonicalReceipt, PoolReceipt
<1>7. \A x \in DOMAIN ops' : \A e, f \in EffectsOf(x)' : e = f
  BY <1>1, <1>2, <1>4, <1>5, <1>6 DEF Receipts
<1>8. \A x \in DOMAIN ops' : EffectsOf(x)' = {} \/ SkipsOf(x)' = {}
  BY <1>1, <1>2, <1>3, <1>4, <1>5, <1>6 DEF Receipts
<1>9. \A x \in DOMAIN ops' : PoolReceipt(x)' => ~CanonicalReceipt(x)'
  BY <1>1, <1>2, <1>3, <1>4, <1>6 DEF Receipts, PoolReceipt, CanonicalReceipt
<1>10. /\ \A e \in DOMAIN effects' : effects'[e].by \in Reviewers => effects'[e].op \in DOMAIN ops'
       /\ \A e \in DOMAIN effects' : effects'[e].by = Desktop => effects'[e].op = 0
  <2>1. Desktop \notin Reviewers
    BY CouchAssumption, Zenon
  <2> QED BY <1>1, <1>2, <2>1 DEF Receipts, Unrecorded
<1> QED BY <1>1, <1>2, <1>3, <1>7, <1>8, <1>9, <1>10 DEF Receipts

\* Nor otherwise.
LEMMA ChangesReceipts ==
    ASSUME CouchInv, Changes, UNCHANGED <<ops, cards>>
    PROVE  Receipts'
<1>1. Receipts /\ PhoneTyped
  BY DEF CouchInv
<1>2. ASSUME NEW op, NEW n, PhoneDecides(op, n) PROVE Receipts'
  BY <1>1, <1>2, MadeReceipts, OpTyped DEF PhoneDecides, Unrecorded
<1>3. ASSUME NEW s \in Segments, NEW act \in Verdicts, NEW n, OwnerDecides(s, act, n) PROVE Receipts'
  BY <1>3, MadeReceipts DEF OwnerDecides
<1>4. CASE UNCHANGED <<effects, skips, opinions>>
  <2>1. \A x : /\ EffectsOf(x)' = EffectsOf(x) /\ SkipsOf(x)' = SkipsOf(x)
               /\ OpinionsOf(x)' = OpinionsOf(x)
    BY <1>4 DEF EffectsOf, SkipsOf, OpinionsOf
  <2> QED BY <1>1, <1>4, <2>1 DEF Receipts, PoolReceipt, CanonicalReceipt
<1>5. ASSUME NEW e, TakesBackLast(e) PROVE Receipts'
  <2>1. /\ DOMAIN effects' = DOMAIN effects /\ UNCHANGED <<skips, opinions>>
        /\ \A f \in DOMAIN effects : effects'[f].op = effects[f].op /\ effects'[f].by = effects[f].by
    BY <1>5 DEF TakesBackLast, Reversed
  <2>2. \A x : /\ EffectsOf(x)' = EffectsOf(x) /\ SkipsOf(x)' = SkipsOf(x)
               /\ OpinionsOf(x)' = OpinionsOf(x)
    BY <2>1 DEF EffectsOf, SkipsOf, OpinionsOf
  <2> QED BY <1>1, <2>1, <2>2 DEF Receipts, PoolReceipt, CanonicalReceipt
<1>6. ASSUME NEW o, Withdraws(o) PROVE Receipts'
  <2>1. /\ DOMAIN opinions' = DOMAIN opinions /\ UNCHANGED <<skips, effects>>
        /\ \A p \in DOMAIN opinions : opinions'[p].op = opinions[p].op
    BY <1>6 DEF Withdraws, Withdrawn
  <2>2. \A x : /\ EffectsOf(x)' = EffectsOf(x) /\ SkipsOf(x)' = SkipsOf(x)
               /\ OpinionsOf(x)' = OpinionsOf(x)
    BY <2>1 DEF EffectsOf, SkipsOf, OpinionsOf
  <2> QED BY <1>1, <2>1, <2>2 DEF Receipts, PoolReceipt, CanonicalReceipt
<1>7. ASSUME NEW op, NEW n, SkipFiled(op, n), Unrecorded(op) PROVE Receipts'
  <2>1. /\ UNCHANGED <<effects, opinions>> /\ DOMAIN skips' = DOMAIN skips \cup {n}
        /\ \A k \in DOMAIN skips : skips'[k] = skips[k]
        /\ skips'[n].op = op
    BY <1>7 DEF SkipFiled
  <2>2. /\ \A x : EffectsOf(x)' = EffectsOf(x) /\ OpinionsOf(x)' = OpinionsOf(x)
        /\ \A x : x # op => SkipsOf(x)' = SkipsOf(x)
        /\ SkipsOf(op)' = SkipsOf(op) \cup {n}
    BY <2>1 DEF EffectsOf, SkipsOf, OpinionsOf
  <2>3. op \in DOMAIN ops /\ EffectsOf(op) = {} /\ SkipsOf(op) = {} /\ OpinionsOf(op) = {}
    BY <1>7 DEF Unrecorded, CanonicalReceipt, PoolReceipt
  <2>4. \A x \in DOMAIN ops' : /\ \A j, k \in SkipsOf(x)' : j = k
                               /\ EffectsOf(x)' = {} \/ SkipsOf(x)' = {}
    BY <1>1, <2>2, <2>3 DEF Receipts
  <2>5. \A x \in DOMAIN ops' : PoolReceipt(x)' => ~CanonicalReceipt(x)'
    BY <1>1, <2>2, <2>3 DEF Receipts, PoolReceipt, CanonicalReceipt
  <2> QED BY <1>1, <2>1, <2>2, <2>3, <2>4, <2>5 DEF Receipts
<1>8. ASSUME NEW op, NEW n, GivesOpinion(op, n) PROVE Receipts'
  <2>1. /\ UNCHANGED <<effects, skips>> /\ DOMAIN opinions' = DOMAIN opinions \cup {n}
        /\ \A k \in DOMAIN opinions : opinions'[k] = opinions[k]
        /\ opinions'[n].op = op
    BY <1>8 DEF GivesOpinion, Given
  <2>2. /\ \A x : EffectsOf(x)' = EffectsOf(x) /\ SkipsOf(x)' = SkipsOf(x)
        /\ \A x : x # op => OpinionsOf(x)' = OpinionsOf(x)
        /\ OpinionsOf(op)' = OpinionsOf(op) \cup {n}
    BY <2>1 DEF EffectsOf, SkipsOf, OpinionsOf
  <2>3. op \in DOMAIN ops /\ EffectsOf(op) = {} /\ SkipsOf(op) = {} /\ OpinionsOf(op) = {}
    BY <1>8 DEF GivesOpinion, Unrecorded, CanonicalReceipt, PoolReceipt
  <2>4. \A x \in DOMAIN ops' : \A j, k \in OpinionsOf(x)' : j = k
    BY <1>1, <2>2, <2>3 DEF Receipts
  <2>5. \A x \in DOMAIN ops' : PoolReceipt(x)' => ~CanonicalReceipt(x)'
    BY <1>1, <2>2, <2>3 DEF Receipts, PoolReceipt, CanonicalReceipt
  <2> QED BY <1>1, <2>1, <2>2, <2>3, <2>4, <2>5 DEF Receipts
<1> QED BY <1>2, <1>3, <1>4, <1>5, <1>6, <1>7, <1>8 DEF Changes, Touched

\* No verdict is replaced by another phone's, and each is on the text it was given for.
LEMMA ChangesVerdicts ==
    ASSUME CouchInv, Changes, UNCHANGED <<ops, cards>>
    PROVE  NoVerdictReplaced' /\ VerdictOnServedText' /\ NoPool'
<1>1. DbTyped /\ PhoneTyped /\ Revisions /\ NoVerdictReplaced /\ VerdictOnServedText /\ NoPool
  BY DEF CouchInv
<1>2. \A e \in DOMAIN effects : effects[e].prior # 0 => effects[e].prior \in DOMAIN effects
  BY <1>1 DEF Revisions
<1>3. CASE UNCHANGED <<effects, opinions>>
  BY <1>1, <1>3 DEF NoVerdictReplaced, VerdictOnServedText, NoPool
<1>4. ASSUME NEW op, NEW n, PhoneDecides(op, n)
      PROVE  NoVerdictReplaced' /\ VerdictOnServedText' /\ NoPool'
  <2>1. /\ DOMAIN effects' = DOMAIN effects \cup {n} /\ UNCHANGED opinions
        /\ \A e \in DOMAIN effects : effects'[e] = effects[e]
        /\ effects'[n].op = op /\ effects'[n].by = ops[op].by
        /\ effects'[n].rev = rows[ops[op].seg].rev + 1 /\ effects'[n].prior = rows[ops[op].seg].eff
    BY <1>4 DEF PhoneDecides, Made
  <2>2. /\ rows[ops[op].seg].rev = ops[op].rev
        /\ rows[ops[op].seg].eff # 0 => effects[rows[ops[op].seg].eff].by = ops[op].by
    BY <1>4 DEF PhoneDecides, AsServed, Verified, JudgeOf
  <2>3. rows[ops[op].seg].eff # 0 => rows[ops[op].seg].eff \in DOMAIN effects
    BY <1>1, <1>4, OpTyped DEF Revisions, PhoneDecides, Unrecorded
  <2>4. NoVerdictReplaced'
    BY <1>1, <1>2, <2>1, <2>2, <2>3 DEF NoVerdictReplaced
  <2>5. VerdictOnServedText'
    BY <1>1, <2>1, <2>2 DEF VerdictOnServedText
  <2> QED BY <1>1, <2>1, <2>4, <2>5 DEF NoPool
<1>5. ASSUME NEW s \in Segments, NEW act \in Verdicts, NEW n, OwnerDecides(s, act, n)
      PROVE  NoVerdictReplaced' /\ VerdictOnServedText' /\ NoPool'
  <2>1. /\ DOMAIN effects' = DOMAIN effects \cup {n} /\ UNCHANGED opinions
        /\ \A e \in DOMAIN effects : effects'[e] = effects[e]
        /\ effects'[n].by = Desktop
    BY <1>5 DEF OwnerDecides, Made
  <2>2. Desktop \notin Reviewers
    BY CouchAssumption, Zenon
  <2> QED BY <1>1, <1>2, <2>1, <2>2 DEF NoVerdictReplaced, VerdictOnServedText, NoPool
<1>6. ASSUME NEW e, TakesBackLast(e) PROVE NoVerdictReplaced' /\ VerdictOnServedText' /\ NoPool'
  <2>1. /\ DOMAIN effects' = DOMAIN effects /\ UNCHANGED opinions
        /\ \A f \in DOMAIN effects : /\ effects'[f].op = effects[f].op /\ effects'[f].by = effects[f].by
                                     /\ effects'[f].rev = effects[f].rev
                                     /\ effects'[f].prior = effects[f].prior
    BY <1>6 DEF TakesBackLast, Reversed
  <2> QED BY <1>1, <1>2, <2>1 DEF NoVerdictReplaced, VerdictOnServedText, NoPool
<1>7. ASSUME NEW op, NEW n, GivesOpinion(op, n)
      PROVE  NoVerdictReplaced' /\ VerdictOnServedText' /\ NoPool'
  <2>1. /\ Pool /\ UNCHANGED effects /\ DOMAIN opinions' = DOMAIN opinions \cup {n}
        /\ \A k \in DOMAIN opinions : opinions'[k] = opinions[k]
        /\ opinions'[n].op = op /\ opinions'[n].rev = ops[op].rev
    BY <1>7 DEF GivesOpinion, Given
  <2> QED BY <1>1, <2>1 DEF NoVerdictReplaced, VerdictOnServedText, NoPool
<1>8. ASSUME NEW o, Withdraws(o) PROVE NoVerdictReplaced' /\ VerdictOnServedText' /\ NoPool'
  <2>1. /\ DOMAIN opinions' = DOMAIN opinions /\ UNCHANGED effects /\ o \in DOMAIN opinions
        /\ \A p \in DOMAIN opinions : /\ opinions'[p].op = opinions[p].op
                                      /\ opinions'[p].rev = opinions[p].rev
    BY <1>8 DEF Withdraws, Withdrawn
  <2>2. Pool
    <3>1. opinions # <<>>
      BY <2>1
    <3> QED BY <1>1, <3>1 DEF NoPool
  <2> QED BY <1>1, <2>1, <2>2 DEF NoVerdictReplaced, VerdictOnServedText, NoPool
<1> QED BY <1>3, <1>4, <1>5, <1>6, <1>7, <1>8 DEF Changes, Touched, SkipFiled

\* Opinions stay beside the first judgement.
LEMMA ChangesBeside ==
    ASSUME CouchInv, Changes, UNCHANGED <<ops, cards>>
    PROVE  Beside'
<1>1. DbTyped /\ PhoneTyped /\ Revisions /\ Beside
  BY DEF CouchInv
<1>2. \A s \in Segments : rows[s].eff # 0 => rows[s].eff \in DOMAIN effects
  BY <1>1 DEF Revisions
<1>3. Desktop \notin Reviewers /\ \A o \in DOMAIN opinions : opinions[o].by \in Reviewers
  <2>1. Desktop \notin Reviewers
    BY CouchAssumption, Zenon
  <2> QED BY <1>1, <2>1, Filed DEF Opinions
<1>4. CASE UNCHANGED opinions
           /\ \A s \in Segments : \A o \in SecondOpinions(s) : Verified(s) =>
                Verified(s)' /\ (JudgeOf(s)' = JudgeOf(s) \/ JudgeOf(s)' # opinions[o].by)
  <2>1. \A s \in Segments : Effective(s)' = Effective(s) /\ SecondOpinions(s)' = SecondOpinions(s)
    BY <1>4 DEF Effective, SecondOpinions
  <2> QED BY <1>1, <1>4, <2>1 DEF Beside
<1>5. ASSUME NEW judge, NEW s \in Segments, NEW act, NEW op, NEW n, Made(judge, s, act, op, n),
             \A o \in Effective(s) : opinions[o].by # judge
      PROVE  Beside'
  <2>1. /\ UNCHANGED opinions /\ n # 0 /\ effects'[n].by = judge /\ rows'[s].eff = n
        /\ \A e \in DOMAIN effects : effects'[e] = effects[e]
        /\ \A x \in Segments : x # s => rows'[x] = rows[x]
    BY <1>5 DEF Made
  <2>2. ASSUME NEW x \in Segments, NEW o \in SecondOpinions(x), Verified(x)
        PROVE  Verified(x)' /\ (JudgeOf(x)' = JudgeOf(x) \/ JudgeOf(x)' # opinions[o].by)
    BY <1>2, <1>5, <2>1, <2>2 DEF Verified, JudgeOf, SecondOpinions
  <2> QED BY <1>4, <2>1, <2>2
<1>6. ASSUME NEW op, NEW n, PhoneDecides(op, n) PROVE Beside'
  BY <1>1, <1>5, <1>6, OpTyped DEF PhoneDecides, Unrecorded
<1>7. ASSUME NEW s \in Segments, NEW act \in Verdicts, NEW n, OwnerDecides(s, act, n) PROVE Beside'
  BY <1>3, <1>5, <1>7 DEF OwnerDecides, Effective
<1>8. ASSUME NEW e, TakesBackLast(e) PROVE Beside'
  <2>1. /\ UNCHANGED opinions /\ DOMAIN effects' = DOMAIN effects /\ SecondOpinions(effects[e].seg) = {}
        /\ \A f \in DOMAIN effects : effects'[f].by = effects[f].by
        /\ \A x \in Segments : x # effects[e].seg => rows'[x] = rows[x]
    BY <1>8 DEF TakesBackLast, Reversed, BuiltUpon
  <2>2. ASSUME NEW x \in Segments, NEW o \in SecondOpinions(x), Verified(x)
        PROVE  Verified(x)' /\ (JudgeOf(x)' = JudgeOf(x) \/ JudgeOf(x)' # opinions[o].by)
    BY <1>2, <2>1, <2>2 DEF Verified, JudgeOf
  <2> QED BY <1>4, <2>1, <2>2
<1>9. ASSUME NEW s \in Segments, Touched(s) PROVE Beside'
  <2>1. /\ UNCHANGED <<effects, opinions>> /\ \A x \in Segments : rows'[x].eff = rows[x].eff
    BY <1>9 DEF Touched
  <2> QED BY <1>4, <2>1 DEF Verified, JudgeOf
<1>10. ASSUME NEW op, NEW n, GivesOpinion(op, n) PROVE Beside'
  <2> SUFFICES ASSUME NEW r, r = ops[op].by, NEW s, s = ops[op].seg PROVE Beside'
    OBVIOUS
  <2>1. /\ UNCHANGED <<rows, effects>> /\ DOMAIN opinions' = DOMAIN opinions \cup {n}
        /\ n \notin DOMAIN opinions
        /\ \A k \in DOMAIN opinions : opinions'[k] = opinions[k]
        /\ opinions'[n].by = r /\ opinions'[n].seg = s
        /\ Verified(s) /\ r \notin Seen(s)
    BY <1>10 DEF GivesOpinion, Given
  <2>2. \A x \in Segments : /\ Effective(x)' \subseteq Effective(x) \cup {n}
                            /\ x # s => Effective(x)' = Effective(x)
    BY <2>1 DEF Effective
  <2>3. /\ \A x \in Segments : SecondOpinions(x)' \subseteq SecondOpinions(x) \cup {n}
        /\ \A x \in Segments : x # s => SecondOpinions(x)' = SecondOpinions(x)
    BY <2>1, <2>2 DEF SecondOpinions, Effective
  <2>4. JudgeOf(s) # r /\ \A o \in Effective(s) : opinions[o].by # r
    BY <2>1 DEF Seen
  <2>5. \A x : Verified(x)' = Verified(x) /\ JudgeOf(x)' = JudgeOf(x)
    BY <2>1 DEF Verified, JudgeOf
  <2>6. \A x \in Segments : \A o \in Effective(x) : o \in DOMAIN opinions
    BY DEF Effective
  <2>7. \A x \in Segments : \A o \in SecondOpinions(x) : o \in DOMAIN opinions
    BY DEF Effective, SecondOpinions
  <2>8. ASSUME NEW x \in Segments, NEW o \in SecondOpinions(x)'
        PROVE  Verified(x)' /\ JudgeOf(x)' # opinions'[o].by
    BY <1>1, <2>1, <2>3, <2>4, <2>5, <2>7, <2>8 DEF Beside
  <2>9. ASSUME NEW x \in Segments, NEW o \in Effective(x)', NEW p \in Effective(x)',
               opinions'[o].by = opinions'[p].by
        PROVE  o = p
    <3>1. CASE x = s
      BY <1>1, <2>1, <2>2, <2>4, <2>6, <2>9, <3>1 DEF Beside
    <3>2. CASE x # s
      BY <1>1, <2>1, <2>2, <2>6, <2>9, <3>2 DEF Beside
    <3> QED BY <3>1, <3>2
  <2> QED BY <2>8, <2>9 DEF Beside
<1>11. ASSUME NEW o, Withdraws(o) PROVE Beside'
  <2>1. /\ UNCHANGED <<rows, effects>> /\ DOMAIN opinions' = DOMAIN opinions
        /\ \A p \in DOMAIN opinions : p # o => opinions'[p] = opinions[p]
        /\ opinions'[o].undone
    BY <1>11 DEF Withdraws, Withdrawn
  <2>2. \A x \in Segments : /\ \A p \in Effective(x)' : p \in Effective(x) /\ opinions'[p] = opinions[p]
                            /\ \A p \in SecondOpinions(x)' : p \in SecondOpinions(x)
                                                             /\ opinions'[p] = opinions[p]
    BY <2>1 DEF Effective, SecondOpinions
  <2>3. \A x : Verified(x)' = Verified(x) /\ JudgeOf(x)' = JudgeOf(x)
    BY <2>1 DEF Verified, JudgeOf
  <2> QED BY <1>1, <2>2, <2>3 DEF Beside
<1>12. CASE UNCHANGED <<rows, effects, opinions>>
  BY <1>4, <1>12 DEF Verified, JudgeOf
<1> QED BY <1>6, <1>7, <1>8, <1>9, <1>10, <1>11, <1>12 DEF Changes, SkipFiled
-----------------------------------------------------------------------------
(* The threads.                                                            *)

\* Whoever serves no operation knows nothing of one.
LEMMA KnowsNothing ==
    ASSUME NEW t, job'[t].pc \notin {"arrived", "route"} \cup Canonical \cup InPool
    PROVE  Knows(t)'
  BY DEF Knows, Fork, CanonicalPath, PoolPath, Claim, Canonical, InPool

\* An operation may get a receipt only through the thread that brings it, or so
\* that nothing another thread knows of it is lost.
LEMMA ReceiptsOfOthers ==
    ASSUME CouchInv, Writes, NEW u \in Threads, job'[u] = job[u], NEW op, op = job[u].op,
           job[u].pc \in {"arrived", "route"} \cup Canonical \cup InPool
    PROVE  /\ Pool /\ job[u].pc \in {"route", "canonical", "commit"} /\ ~job[u].first =>
                ~PoolReceipt(op)'
           /\ job[u].pc \in InPool => EffectsOf(op)' = {}
           /\ job[u].pc = "commit" => ~CanonicalReceipt(op)'
<1>1. Knows(u) /\ DbTyped /\ PhoneTyped /\ JobTyped /\ Threading
  BY DEF CouchInv, Threading
<1>2. op \in DOMAIN ops /\ op # 0
  BY <1>1, Brings
<1>3. CASE OpinionsOf(op)' = OpinionsOf(op) /\ EffectsOf(op)' = EffectsOf(op) /\ SkipsOf(op)' = SkipsOf(op)
  BY <1>1, <1>3 DEF Knows, CanonicalPath, PoolPath, Claim, PoolReceipt, CanonicalReceipt
<1>4. ASSUME NEW t \in Threads, SkipTaken(t)
      PROVE  /\ OpinionsOf(op)' = OpinionsOf(op) /\ EffectsOf(op)' = EffectsOf(op)
             /\ job[u].pc # "commit"
  <2>1. UNCHANGED <<effects, opinions>> /\ lock = NoOne
    BY <1>4 DEF SkipTaken, RecordSkip
  <2>2. NoOne \notin Threads
    BY CouchAssumption, Zenon
  <2> QED BY <1>1, <2>1, <2>2 DEF Knows, Fork, OpinionsOf, EffectsOf
<1>5. ASSUME NEW t \in Threads, Committed(t)
      PROVE  /\ OpinionsOf(op)' = OpinionsOf(op) /\ SkipsOf(op)' = SkipsOf(op)
             /\ job[u].pc # "commit"
             /\ job[u].pc \in InPool => EffectsOf(op)' = EffectsOf(op)
  <2>1. PhoneDecides(job[t].op, Len(effects) + 1) /\ job[t].pc = "commit"
    BY <1>5, CommitDecides DEF Committed, At
  <2>2. /\ AsServed(job[t].op) /\ ~PoolReceipt(job[t].op)
        /\ Made(ops[job[t].op].by, ops[job[t].op].seg, ops[job[t].op].act, job[t].op, Len(effects) + 1)
    BY <2>1 DEF PhoneDecides, Unrecorded
  <2>3. u # t
    <3>1. job'[t].pc = "committed"
      BY <1>1, <1>5 DEF Committed, Goto, JobTyped
    <3> QED BY <2>1, <3>1
  <2>4. job[u].pc # "commit"
    BY <1>1, <2>1, <2>3 DEF Knows, Fork, Threading
  <2>5. job[u].pc \in InPool => op # job[t].op
    <3> SUFFICES ASSUME job[u].pc \in InPool, op = job[t].op PROVE FALSE
      OBVIOUS
    <3>1. Pool /\ Verified(ops[op].seg)
      BY <1>1, <2>2 DEF Knows, Fork, PoolPath
    <3>2. ~Verified(ops[op].seg)
      BY <1>1, <2>1, <2>2, <3>1 DEF Threading, Knows, Fork, CanonicalPath, Canonical
    <3> QED BY <3>1, <3>2
  <2>6. op # job[t].op => EffectsOf(op)' = EffectsOf(op)
    <3>1. PICK n : /\ DOMAIN effects' = DOMAIN effects \cup {n} /\ n \notin DOMAIN effects
                   /\ \A e \in DOMAIN effects : effects'[e] = effects[e]
                   /\ effects'[n].op = job[t].op
      BY <2>2, Zenon DEF Made
    <3> QED BY <3>1 DEF EffectsOf
  <2>7. OpinionsOf(op)' = OpinionsOf(op) /\ SkipsOf(op)' = SkipsOf(op)
    BY <2>2, Zenon DEF Made, OpinionsOf, SkipsOf
  <2> QED BY <2>4, <2>5, <2>6, <2>7
<1>6. ASSUME NEW t \in Threads, OpinionTaken(t)
      PROVE  /\ EffectsOf(op)' = EffectsOf(op) /\ SkipsOf(op)' = SkipsOf(op)
             /\ Pool /\ job[u].pc \in {"route", "canonical", "commit"} /\ ~job[u].first =>
                  OpinionsOf(op)' = OpinionsOf(op)
  <2>1. /\ Given(job[t].op, ops[job[t].op].by, ops[job[t].op].seg, Len(opinions) + 1)
        /\ AsServed(job[t].op) /\ Verified(ops[job[t].op].seg)
    BY <1>1, <1>6, OpinionTakenDoes, Zenon DEF OpinionTaken, StaleServe, AsServed
  <2>2. Pool /\ job[u].pc \in {"route", "canonical", "commit"} /\ ~job[u].first => op # job[t].op
    BY <1>1, <2>1 DEF Knows, CanonicalPath
  <2>3. op # job[t].op => OpinionsOf(op)' = OpinionsOf(op)
    BY <2>1, Zenon DEF Given, OpinionsOf
  <2>4. EffectsOf(op)' = EffectsOf(op) /\ SkipsOf(op)' = SkipsOf(op)
    BY <2>1, Zenon DEF Given, EffectsOf, SkipsOf
  <2> QED BY <2>2, <2>3, <2>4
<1>7. ASSUME NEW e, TakesBackLast(e)
      PROVE  OpinionsOf(op)' = OpinionsOf(op) /\ EffectsOf(op)' = EffectsOf(op) /\ SkipsOf(op)' = SkipsOf(op)
  <2>1. /\ DOMAIN effects' = DOMAIN effects /\ UNCHANGED <<skips, opinions>>
        /\ \A f \in DOMAIN effects : effects'[f].op = effects[f].op
    BY <1>7 DEF TakesBackLast, Reversed
  <2> QED BY <2>1 DEF EffectsOf, SkipsOf, OpinionsOf
<1>8. ASSUME NEW t \in Threads, EffectUndone(t) PROVE \E e : TakesBackLast(e)
  <2> SUFFICES ASSUME NEW e, e = job[t].effect PROVE TakesBackLast(e)
    OBVIOUS
  <2>1. /\ job[t].pc = "reverse" /\ Reverses(e, job[t].since) /\ effects[e].undone = 0
        /\ ~BuiltUpon(e) /\ UNCHANGED <<skips, opinions>>
    BY <1>8 DEF EffectUndone, At
  <2>2. e \in DOMAIN effects /\ job[t].since \in Nat
    BY <1>1, <2>1, TakesBack
  <2>3. Reversed(e, effects[e].seg, effects[e].by)
    BY <1>1, <2>1, <2>2, ReversesDoes
  <2> QED BY <2>1, <2>2, <2>3 DEF TakesBackLast
<1>9. CASE DesktopUndoes
  <2>1. \E e : TakesBackLast(e)
    BY <1>1, <1>9, DesktopUndoesDoes DEF TakesBackLast
  <2> QED BY <1>3, <1>7, <2>1
<1>10. ASSUME NEW t \in Threads, OpinionUndone(t)
       PROVE  OpinionsOf(op)' = OpinionsOf(op) /\ EffectsOf(op)' = EffectsOf(op) /\ SkipsOf(op)' = SkipsOf(op)
  <2>1. Withdrawn(job[t].opinion, job[t].by, opinions[job[t].opinion].seg)
    BY <1>1, <1>10, OpinionUndoneDoes
  <2>2. /\ DOMAIN opinions' = DOMAIN opinions /\ UNCHANGED <<skips, effects>>
        /\ \A p \in DOMAIN opinions : opinions'[p].op = opinions[p].op
    BY <2>1 DEF Withdrawn
  <2> QED BY <2>2 DEF EffectsOf, SkipsOf, OpinionsOf
<1>11. ASSUME NEW s \in Segments, Touch(s)
       PROVE  OpinionsOf(op)' = OpinionsOf(op) /\ EffectsOf(op)' = EffectsOf(op) /\ SkipsOf(op)' = SkipsOf(op)
  BY <1>11 DEF Touch, EffectsOf, SkipsOf, OpinionsOf
<1>12. ASSUME NEW s \in Segments, NEW act \in Verdicts, DesktopDecides(s, act)
       PROVE  OpinionsOf(op)' = OpinionsOf(op) /\ EffectsOf(op)' = EffectsOf(op) /\ SkipsOf(op)' = SkipsOf(op)
  <2>1. Decides(Desktop, s, act, 0) /\ UNCHANGED <<skips, opinions>> /\ Desktop \in Judges
    BY <1>12 DEF DesktopDecides, Judges
  <2>2. Made(Desktop, s, act, 0, Len(effects) + 1)
    BY <1>1, <2>1, DecidesDoes
  <2> QED BY <1>2, <2>2 DEF Made, EffectsOf, SkipsOf, OpinionsOf
<1>13. CASE \E t \in Threads : SkipTaken(t)
  BY <1>1, <1>4, <1>13 DEF Knows, CanonicalPath, PoolPath, PoolReceipt
<1>14. CASE \E t \in Threads : Committed(t)
  BY <1>1, <1>5, <1>14 DEF Knows, CanonicalPath, PoolPath, PoolReceipt
<1>15. CASE \E t \in Threads : OpinionTaken(t)
  BY <1>1, <1>6, <1>15 DEF Knows, CanonicalPath, PoolPath, Claim, PoolReceipt, CanonicalReceipt
<1> QED BY <1>3, <1>7, <1>8, <1>9, <1>10, <1>11, <1>12, <1>13, <1>14, <1>15 DEF Writes

\* What a thread knows stays true while the others work.
LEMMA KnowsOn ==
    ASSUME CouchInv, Writes \/ UNCHANGED db, NEW u \in Threads, job'[u] = job[u],
           lock = u => lock' = u, \A op \in DOMAIN ops : ops'[op] = ops[op]
    PROVE  Knows(u)'
<1>1. CASE job[u].pc \notin {"arrived", "route"} \cup Canonical \cup InPool
  BY <1>1, KnowsNothing
<1>2. CASE job[u].pc \in {"arrived", "route"} \cup Canonical \cup InPool
  <2> SUFFICES ASSUME NEW op, op = job[u].op, NEW s, s = ops[op].seg PROVE Knows(u)'
    OBVIOUS
  <2>1. Knows(u) /\ DbTyped /\ PhoneTyped /\ JobTyped /\ Revisions
    BY DEF CouchInv, Threading
  <2>2. op \in DOMAIN ops /\ s \in Segments /\ ops[op].rev \in Nat /\ job'[u].op = op
        /\ ops'[op] = ops[op]
    BY <1>2, <2>1, Brings
  <2>3. Grows
    BY <2>1, WritesChange, ChangesGrow, StillGrows
  <2>4. AsServed(op)' => AsServed(op) /\ rows'[s] = rows[s]
    <3>1. rows[s].rev \in Nat /\ ops[op].rev <= rows[s].rev
      BY <2>1, <2>2 DEF DbTyped, Rows, Revisions
    <3>2. rows'[s] = rows[s] \/ rows'[s].rev = rows[s].rev + 1
      BY <2>2, <2>3 DEF Grows
    <3> QED BY <2>2, <3>1, <3>2 DEF AsServed
  <2>5. rows'[s] = rows[s] =>
          Verified(s)' = Verified(s) /\ (Verified(s) => JudgeOf(s)' = JudgeOf(s))
    <3>1. Verified(s) => rows[s].eff \in DOMAIN effects
      BY <2>1, <2>2 DEF Revisions, Verified
    <3> QED BY <2>3, <3>1, Zenon DEF Verified, JudgeOf, Grows, SameEffect
  <2>6. /\ EffectsOf(op) \subseteq EffectsOf(op)'
        /\ PoolReceipt(op) => PoolReceipt(op)'
    BY <2>3 DEF Grows, SameEffect, SameOpinion, EffectsOf, PoolReceipt, OpinionsOf
  <2>7. /\ Pool /\ job[u].pc \in {"route", "canonical", "commit"} /\ ~job[u].first =>
             ~PoolReceipt(op)'
        /\ job[u].pc \in InPool => EffectsOf(op)' = {}
        /\ job[u].pc = "commit" => ~CanonicalReceipt(op)'
    <3>1. CASE Writes
      BY <1>2, <3>1, ReceiptsOfOthers
    <3>2. CASE UNCHANGED db
      BY <2>1, <3>2 DEF db, Knows, CanonicalPath, PoolPath, Claim, PoolReceipt, OpinionsOf,
         EffectsOf, SkipsOf, CanonicalReceipt
    <3> QED BY <3>1, <3>2
  <2>8. Fork(u)'
    BY <2>1 DEF Knows, Fork
  <2>9. CanonicalPath(u)'
    BY <2>1, <2>2, <2>4, <2>5, <2>7 DEF Knows, CanonicalPath
  <2>10. PoolPath(u)'
    BY <2>1, <2>2, <2>4, <2>5, <2>6, <2>7 DEF Knows, PoolPath
  <2>11. Claim(u)'
    BY <2>1, <2>2, <2>4, <2>5, <2>6, <2>7 DEF Knows, Claim
  <2> QED BY <2>8, <2>9, <2>10, <2>11 DEF Knows
<1> QED BY <1>1, <1>2

\* A thread works on its own request, and takes no lock from another.
Alone(t) ==
    /\ job' = [u \in Threads |-> job'[u]]
    /\ \A u \in Threads : u # t => job'[u] = job[u] /\ (lock = u => lock' = u)

\* The thread whose lock is free or its own disturbs no other.
LEMMA WorksAlone ==
    ASSUME CouchInv, NEW t \in Threads, NEW j, job' = [job EXCEPT ![t] = j],
           Unlock(t) \/ UNCHANGED lock \/ lock \in {NoOne, t}
    PROVE  Alone(t) /\ job'[t] = j
<1>1. /\ \A u \in Threads : u # t => job'[u] = job[u]
      /\ job' = [u \in Threads |-> job'[u]]
  BY DEF CouchInv, JobTyped
<1>2. \A u \in Threads : u # t => (lock = u => lock' = u)
  <2>1. NoOne \notin Threads
    BY CouchAssumption, Zenon
  <2> QED BY <2>1 DEF Unlock
<1>3. job'[t] = j
  BY DEF CouchInv, JobTyped
<1> QED BY <1>1, <1>2, <1>3 DEF Alone

\* It is done.
LEMMA DoneKnows ==
    ASSUME CouchInv, NEW t \in Threads, Done(t), Unlock(t) \/ UNCHANGED lock \/ lock \in {NoOne, t}
    PROVE  Alone(t) /\ Knows(t)' /\ job'[t] = Idle
<1>1. Alone(t) /\ job'[t] = Idle
  BY WorksAlone DEF Done
<1>2. job'[t].pc \notin {"arrived", "route"} \cup Canonical \cup InPool
  BY <1>1 DEF Idle, Canonical, InPool
<1> QED BY <1>1, <1>2, KnowsNothing

\* It goes on with its operation.
LEMMA GoesOn ==
    ASSUME CouchInv, NEW t \in Threads, NEW pc, Goto(t, pc),
           UNCHANGED lock \/ lock \in {NoOne, t}
    PROVE  /\ Alone(t) /\ job'[t] = [job[t] EXCEPT !.pc = pc]
           /\ job[t] \in DecisionJobs =>
                job'[t].pc = pc /\ job'[t].op = job[t].op /\ job'[t].first = job[t].first
<1>1. job' = [job EXCEPT ![t] = [job[t] EXCEPT !.pc = pc]]
  BY DEF Goto, CouchInv, JobTyped
<1>2. Alone(t) /\ job'[t] = [job[t] EXCEPT !.pc = pc]
  BY <1>1, WorksAlone
<1> QED BY <1>2 DEF DecisionJobs

\* A request with what it names.
Placed(t) ==
    /\ job[t] \in Jobs
    /\ job[t] \in DecisionJobs => job[t].op \in DOMAIN ops
    /\ job[t] \in ReverseJobs => job[t].effect \in DOMAIN effects

Moves(t) == Alone(t) /\ Knows(t)' /\ Placed(t)'

\* A thread that is done names nothing.
LEMMA DoneMoves ==
    ASSUME CouchInv, NEW t \in Threads, Done(t), Unlock(t) \/ UNCHANGED lock \/ lock \in {NoOne, t}
    PROVE  Moves(t)
<1>1. Alone(t) /\ Knows(t)' /\ job'[t] = Idle
  BY DoneKnows
<1>2. Idle \in Jobs /\ Idle.pc = "idle"
  BY DEF Jobs, Idle
<1>3. Idle \notin DecisionJobs /\ Idle \notin ReverseJobs
  BY <1>2 DEF DecisionJobs, ReverseJobs, Canonical, InPool
<1> QED BY <1>1, <1>2, <1>3 DEF Moves, Placed

\* A thread that goes on with an operation names the same one.
LEMMA OnwardPlaced ==
    ASSUME CouchInv, NEW t \in Threads, job[t].pc \in {"arrived", "route"} \cup Canonical \cup InPool,
           NEW pc \in {"route"} \cup Canonical \cup InPool, Goto(t, pc),
           UNCHANGED lock \/ lock \in {NoOne, t}, UNCHANGED ops
    PROVE  /\ Alone(t) /\ Placed(t)' /\ job'[t].pc = pc /\ job'[t].op = job[t].op
           /\ job'[t].first = job[t].first
<1>1. job[t] \in DecisionJobs /\ job[t].op \in DOMAIN ops
  BY Brings DEF CouchInv
<1>2. /\ Alone(t) /\ job'[t] = [job[t] EXCEPT !.pc = pc]
      /\ job'[t].pc = pc /\ job'[t].op = job[t].op /\ job'[t].first = job[t].first
  BY <1>1, GoesOn
<1>3. job'[t] \in DecisionJobs
  BY <1>1, <1>2 DEF DecisionJobs
<1>4. job'[t] \notin ReverseJobs
  BY <1>2 DEF ReverseJobs, Canonical, InPool
<1> QED BY <1>1, <1>2, <1>3, <1>4 DEF Placed, Jobs

\* The database is as it was, and so is what is read from it.
LEMMA SameReads ==
    ASSUME UNCHANGED <<db, ops>>
    PROVE  \A op : /\ PoolReceipt(op)' = PoolReceipt(op) /\ CanonicalReceipt(op)' = CanonicalReceipt(op)
                   /\ EffectsOf(op)' = EffectsOf(op) /\ AsServed(op)' = AsServed(op)
                   /\ \A s : Verified(s)' = Verified(s) /\ JudgeOf(s)' = JudgeOf(s)
  BY DEF db, PoolReceipt, CanonicalReceipt, EffectsOf, SkipsOf, OpinionsOf, AsServed, Verified, JudgeOf

\* The row is read: the fork is taken on a clip that may change later.
LEMMA ReadRowMoves ==
    ASSUME CouchInv, NEW t \in Threads, ReadRow(t)
    PROVE  Moves(t)
<1> SUFFICES ASSUME NEW op, op = job[t].op, NEW first,
                    first = (PoolReceipt(op) \/ Verified(ops[op].seg))
             PROVE  Moves(t)
  OBVIOUS
<1>1. /\ job[t].pc = "arrived" /\ UNCHANGED <<db, lock, ops>>
      /\ job' = [job EXCEPT ![t] = [job[t] EXCEPT !.pc = "route", !.first = first]]
  BY DEF ReadRow, At, page, CouchInv, JobTyped
<1>2. job[t] \in DecisionJobs /\ op \in DOMAIN ops
  BY <1>1, Brings DEF CouchInv
<1>3. Alone(t) /\ job'[t] = [job[t] EXCEPT !.pc = "route", !.first = first]
  BY <1>1, WorksAlone
<1>4. first \in BOOLEAN
  BY DEF PoolReceipt, Verified
<1>5. job'[t] \in DecisionJobs /\ job'[t].pc = "route" /\ job'[t].first = first /\ job'[t].op = op
  BY <1>2, <1>3, <1>4 DEF DecisionJobs
<1>6. Placed(t)'
  <2>1. job'[t] \notin ReverseJobs
    BY <1>5 DEF ReverseJobs
  <2> QED BY <1>1, <1>2, <1>5, <2>1 DEF Placed, Jobs
<1>7. Pool
  BY <1>1 DEF CouchInv, Threading, Knows, Fork
<1>8. /\ PoolReceipt(op)' = PoolReceipt(op) /\ AsServed(op)' = AsServed(op)
      /\ Verified(ops[op].seg)' = Verified(ops[op].seg)
  BY <1>1, SameReads
<1>9. Fork(t)'
  BY <1>5, <1>7 DEF Fork, Canonical, InPool
<1>10. CanonicalPath(t)' /\ PoolPath(t)' /\ Claim(t)'
  BY <1>5, <1>8 DEF CanonicalPath, PoolPath, Claim, InPool
<1> QED BY <1>3, <1>6, <1>9, <1>10 DEF Moves, Knows

\* The fork is taken on the receipt that is read after the row.
LEMMA RouteMoves ==
    ASSUME CouchInv, NEW t \in Threads, Route(t)
    PROVE  Moves(t)
<1>1. CASE ReplaysCanonical(t, job[t].op)
  BY <1>1, DoneMoves DEF ReplaysCanonical
<1>2. CASE /\ ~CanonicalReceipt(job[t].op)
           /\ Goto(t, IF job[t].first THEN "pool" ELSE "canonical")
           /\ UNCHANGED <<db, session, lock, phone, page, left>>
  <2> SUFFICES ASSUME NEW op, op = job[t].op,
                      NEW pc, pc = IF job[t].first THEN "pool" ELSE "canonical"
               PROVE  Moves(t)
    OBVIOUS
  <2>1. /\ job[t].pc = "route" /\ UNCHANGED <<db, lock, ops>> /\ ~CanonicalReceipt(op) /\ Goto(t, pc)
        /\ pc \in {"route"} \cup Canonical \cup InPool
    BY <1>2 DEF Route, At, page, Canonical, InPool
  <2>2. /\ Alone(t) /\ Placed(t)' /\ job'[t].pc = pc /\ job'[t].op = op
        /\ job'[t].first = job[t].first
    BY <2>1, OnwardPlaced
  <2>3. /\ PoolReceipt(op)' = PoolReceipt(op) /\ AsServed(op)' = AsServed(op)
        /\ EffectsOf(op)' = EffectsOf(op)
        /\ Verified(ops[op].seg)' = Verified(ops[op].seg)
    BY <2>1, SameReads
  <2>4. EffectsOf(op) = {}
    BY <2>1 DEF CanonicalReceipt
  <2>5. Knows(t)
    BY DEF CouchInv, Threading
  <2>6. job[t].first \in BOOLEAN
    BY <2>1, Brings DEF CouchInv
  <2>7. Fork(t)'
    BY <2>1, <2>2, <2>5, <2>6 DEF Knows, Fork, Canonical, InPool
  <2>8. CanonicalPath(t)' /\ PoolPath(t)' /\ Claim(t)'
    BY <2>1, <2>2, <2>3, <2>4, <2>5, <2>6 DEF Knows, CanonicalPath, PoolPath, Claim, InPool
  <2> QED BY <2>2, <2>7, <2>8 DEF Moves, Knows
<1> QED BY <1>1, <1>2 DEF Route

\* The clip is claimed under the commit guard.
LEMMA ClaimMoves ==
    ASSUME CouchInv, NEW t \in Threads, job[t].pc = "canonical", lock = NoOne,
           NEW op, op = job[t].op, ~CanonicalReceipt(op), ClaimClip(t, op)
    PROVE  Moves(t)
<1>1. /\ UNCHANGED <<db, ops>> /\ lock' = t /\ Goto(t, "commit") /\ ops[op].act # "skip"
      /\ ~LateSubmit(op)
  BY DEF ClaimClip, page, Refusable
<1>2. /\ Alone(t) /\ Placed(t)' /\ job'[t].pc = "commit" /\ job'[t].op = op
      /\ job'[t].first = job[t].first
  BY <1>1, OnwardPlaced DEF Canonical
<1>3. /\ PoolReceipt(op)' = PoolReceipt(op) /\ AsServed(op)' = AsServed(op)
      /\ CanonicalReceipt(op)' = CanonicalReceipt(op)
      /\ Verified(ops[op].seg)' = Verified(ops[op].seg) /\ JudgeOf(ops[op].seg)' = JudgeOf(ops[op].seg)
  BY <1>1, SameReads
<1>4. ops'[op] = ops[op]
  BY <1>1
<1>5. Knows(t)
  BY DEF CouchInv, Threading
<1>6. Fork(t)'
  BY <1>1, <1>2, <1>5 DEF Knows, Fork, Canonical, InPool
<1>7. CanonicalPath(t)' /\ PoolPath(t)'
  BY <1>2, <1>3, <1>4, <1>5 DEF Knows, Fork, CanonicalPath, PoolPath, InPool, Canonical
<1>8. Claim(t)'
  BY <1>1, <1>2, <1>3, <1>4 DEF Claim, LateSubmit
<1> QED BY <1>2, <1>6, <1>7, <1>8 DEF Moves, Knows

LEMMA TakeGuardMoves ==
    ASSUME CouchInv, NEW t \in Threads, TakeGuard(t)
    PROVE  Moves(t)
<1> SUFFICES ASSUME NEW op, op = job[t].op PROVE Moves(t)
  OBVIOUS
<1>1. job[t].pc = "canonical" /\ lock = NoOne
  BY DEF TakeGuard, At
<1>2. CASE ReplaysCanonical(t, op) \/ RecordSkip(t, op) \/ Refused(t, op) \/ Held(t)
  BY <1>1, <1>2, DoneMoves DEF ReplaysCanonical, RecordSkip, Refused, Held
<1>3. CASE ~CanonicalReceipt(op) /\ ClaimClip(t, op)
  BY <1>1, <1>3, ClaimMoves
<1> QED BY <1>2, <1>3 DEF TakeGuard, CommittedMeanwhile

\* The decision is committed, with the guard kept, or refused.
LEMMA CommitMoves ==
    ASSUME CouchInv, NEW t \in Threads, Commit(t)
    PROVE  Moves(t)
<1>1. CASE Done(t) /\ Unlock(t)
  BY <1>1, DoneMoves
<1>2. CASE Committed(t)
  <2> SUFFICES ASSUME NEW op, op = job[t].op PROVE Moves(t)
    OBVIOUS
  <2>1. /\ job[t].pc = "commit" /\ UNCHANGED <<lock, ops>> /\ Goto(t, "committed")
    BY <1>2 DEF Committed, At, page
  <2>2. /\ Alone(t) /\ Placed(t)' /\ job'[t].pc = "committed" /\ job'[t].op = op
        /\ job'[t].first = job[t].first
    BY <2>1, OnwardPlaced DEF Canonical
  <2>3. EffectsOf(op)' # {}
    <3>1. PhoneDecides(op, Len(effects) + 1)
      BY <1>2, CommitDecides
    <3>2. /\ Len(effects) + 1 \in DOMAIN effects' /\ effects'[Len(effects) + 1].op = op
      BY <3>1, Zenon DEF PhoneDecides, Made
    <3> QED BY <3>2 DEF EffectsOf
  <2>4. Knows(t)
    BY DEF CouchInv, Threading
  <2>5. Fork(t)' /\ CanonicalPath(t)' /\ PoolPath(t)' /\ Claim(t)'
    BY <2>1, <2>2, <2>3, <2>4 DEF Knows, Fork, CanonicalPath, PoolPath, Claim, Canonical, InPool
  <2> QED BY <2>2, <2>5 DEF Moves, Knows
<1> QED BY <1>1, <1>2 DEF Commit, Committed

\* The pool's path goes on while nothing is recorded.
LEMMA PoolOnward ==
    ASSUME CouchInv, NEW t \in Threads, NEW from, NEW to \in InPool, job[t].pc = from, from \in InPool,
           Goto(t, to), UNCHANGED <<db, lock, ops>>,
           to = "recorded" => PoolReceipt(job[t].op)
    PROVE  Moves(t)
<1> SUFFICES ASSUME NEW op, op = job[t].op PROVE Moves(t)
  OBVIOUS
<1>1. /\ Alone(t) /\ Placed(t)' /\ job'[t].pc = to /\ job'[t].op = op
      /\ job'[t].first = job[t].first
  BY OnwardPlaced
<1>2. /\ PoolReceipt(op)' = PoolReceipt(op) /\ AsServed(op)' = AsServed(op)
      /\ EffectsOf(op)' = EffectsOf(op)
      /\ Verified(ops[op].seg)' = Verified(ops[op].seg)
  BY SameReads
<1>3. Knows(t)
  BY DEF CouchInv, Threading
<1>4. Fork(t)'
  BY <1>1, <1>3 DEF Knows, Fork, Canonical, InPool
<1>5. CanonicalPath(t)' /\ PoolPath(t)' /\ Claim(t)'
  BY <1>1, <1>2, <1>3 DEF Knows, CanonicalPath, PoolPath, Claim, InPool
<1> QED BY <1>1, <1>4, <1>5 DEF Moves, Knows

LEMMA PoolMoves ==
    ASSUME CouchInv, NEW t \in Threads, ReadPoolReceipt(t) \/ ClaimOpinion(t)
    PROVE  Moves(t)
<1>1. CASE ReadPoolReceipt(t)
  <2>1. CASE ReplaysPool(t, job[t].op) \/ Refused(t, job[t].op)
    BY <2>1, DoneMoves DEF ReplaysPool, Refused
  <2>2. CASE Goto(t, "claim") /\ UNCHANGED <<db, session, lock, phone, page, left>>
    BY <1>1, <2>2, PoolOnward DEF ReadPoolReceipt, At, InPool, page
  <2> QED BY <1>1, <2>1, <2>2 DEF ReadPoolReceipt
<1>2. CASE ClaimOpinion(t)
  <2>1. CASE Refused(t, job[t].op) \/ Held(t)
    BY <2>1, DoneMoves DEF Refused, Held
  <2>2. CASE Goto(t, "record") /\ UNCHANGED <<db, leases, served, undo, token, lock, phone, page, left>>
    BY <1>2, <2>2, PoolOnward, Zenon DEF ClaimOpinion, At, InPool, page
  <2> QED BY <1>2, <2>1, <2>2 DEF ClaimOpinion
<1> QED BY <1>1, <1>2

\* The opinion is recorded, was recorded before, or is not.
LEMMA RecordMoves ==
    ASSUME CouchInv, NEW t \in Threads, RecordOpinion(t)
    PROVE  Moves(t)
<1> SUFFICES ASSUME NEW op, op = job[t].op PROVE Moves(t)
  OBVIOUS
<1>1. job[t].pc = "record" /\ UNCHANGED <<lock, ops>>
  BY Zenon DEF RecordOpinion, At, page
<1>2. CASE Done(t)
  BY <1>1, <1>2, DoneMoves
<1>3. CASE PoolReceipt(op) /\ Goto(t, "recorded") /\ UNCHANGED db
  BY <1>1, <1>3, PoolOnward DEF InPool
<1>4. CASE OpinionTaken(t)
  <2>1. Goto(t, "recorded")
    BY <1>4, Zenon DEF OpinionTaken
  <2>2. /\ Alone(t) /\ Placed(t)' /\ job'[t].pc = "recorded" /\ job'[t].op = op
        /\ job'[t].first = job[t].first
    BY <1>1, <2>1, OnwardPlaced DEF InPool
  <2>3. Given(op, ops[op].by, ops[op].seg, Len(opinions) + 1)
    BY <1>4, OpinionTakenDoes DEF CouchInv
  <2>4. PoolReceipt(op)' /\ EffectsOf(op)' = EffectsOf(op)
    BY <2>3, Zenon DEF Given, PoolReceipt, OpinionsOf, EffectsOf
  <2>5. Knows(t)
    BY DEF CouchInv, Threading
  <2>6. Fork(t)' /\ CanonicalPath(t)' /\ PoolPath(t)' /\ Claim(t)'
    BY <1>1, <2>2, <2>4, <2>5 DEF Knows, Fork, CanonicalPath, PoolPath, Claim, Canonical, InPool
  <2> QED BY <2>2, <2>6 DEF Moves, Knows
<1> QED BY <1>1, <1>2, <1>3, <1>4, Zenon DEF RecordOpinion, OpinionTaken

-----------------------------------------------------------------------------
(* The other requests.                                                     *)

\* A sequence of some ids is one of more ids.
LEMMA SeqGrows ==
    ASSUME NEW A, NEW B, A \subseteq B, NEW q \in Seq(A)
    PROVE  q \in Seq(B)
<1>1. Len(q) \in Nat /\ q \in [1 .. Len(q) -> A]
  BY LenProperties
<1>2. q \in [1 .. Len(q) -> B]
  BY <1>1
<1> QED BY <1>1, <1>2, SeqDef

\* What a thread does after an undo, or with a page, concerns no operation.
LEMMA OtherMoves ==
    ASSUME CouchInv, NEW t \in Threads, NEW j \in ReverseJobs \cup PoolUndoJobs \cup UndoJobs \cup QueueJobs,
           job' = [job EXCEPT ![t] = j], UNCHANGED lock,
           j \in ReverseJobs => j.effect \in DOMAIN effects'
    PROVE  Moves(t)
<1>1. Alone(t) /\ job'[t] = j
  BY WorksAlone
<1>2. j.pc \in {"reverse", "reversed", "pool undo", "opinion undone", "undo", "queue"}
  BY Zenon DEF ReverseJobs, PoolUndoJobs, UndoJobs, QueueJobs
<1>3. j.pc \notin {"arrived", "route"} \cup Canonical \cup InPool
  BY <1>2, Zenon DEF Canonical, InPool
<1>4. j \notin DecisionJobs
  BY <1>3 DEF DecisionJobs
<1> QED BY <1>1, <1>3, <1>4, KnowsNothing DEF Moves, Placed, Jobs

\* The token on top of the stack, or the last decision.
LEMMA PopUndoMoves ==
    ASSUME CouchInv, NEW t \in Threads, PopUndo(t)
    PROVE  Moves(t) /\ UndoTyped'
<1> SUFFICES ASSUME NEW r, r = job[t].by, NEW n, n = Len(undo[r]),
                    NEW effect, effect = IF n > 0 THEN undo[r][n] ELSE LatestOf(PhoneEffects(r))
             PROVE  Moves(t) /\ UndoTyped'
  OBVIOUS
<1>1. /\ job[t].pc = "undo" /\ UNCHANGED <<db, lock>>
  BY DEF PopUndo, At
<1>2. DbTyped /\ JobTyped /\ UndoTyped
  BY DEF CouchInv
<1>3. job[t] \in UndoJobs /\ r \in Reviewers /\ job[t].since \in Nat
  BY <1>1, <1>2, Asks, Zenon DEF UndoJobs
<1>4. undo[r] \in Seq(DOMAIN effects) /\ n \in Nat
  BY <1>2, <1>3, LenProperties DEF UndoTyped
<1>5. DOMAIN effects' = DOMAIN effects
  BY <1>1 DEF db
<1>6. CASE UNCHANGED undo /\ Done(t)
  BY <1>1, <1>2, <1>5, <1>6, DoneMoves DEF UndoTyped
<1>7. CASE /\ effect # 0
           /\ undo' = [undo EXCEPT ![r] = SubSeq(@, 1, n - 1)]
           /\ job' = [job EXCEPT ![t] = [pc |-> "reverse", by |-> r, effect |-> effect,
                        index |-> Max({0, n - 1}), since |-> @.since, ok |-> FALSE]]
  <2>1. SubSeq(undo[r], 1, n - 1) \in Seq(DOMAIN effects)
    <3>1. n - 1 \in Int /\ n - 1 <= Len(undo[r]) /\ 1 \in Nat \ {0}
      BY <1>4
    <3> QED BY <1>4, <3>1, PartOf
  <2>2. UndoTyped'
    BY <1>2, <1>5, <1>7, <2>1 DEF UndoTyped
  <2>3. effect \in DOMAIN effects /\ effect \in Nat
    <3>1. CASE n > 0
      <4>1. effect \in DOMAIN effects
        BY <1>4, <3>1, ElementOfSeq
      <4> QED BY <1>2, <4>1, Filed
    <3>2. CASE ~(n > 0)
      <4>1. PhoneEffects(r) \in SUBSET DOMAIN effects /\ effects \in Seq(Effects)
        BY <1>2 DEF PhoneEffects, DbTyped
      <4>2. LatestOf(PhoneEffects(r)) \in PhoneEffects(r)
        BY <1>7, <3>2, <4>1, Latest
      <4> QED BY <1>2, <3>2, <4>1, <4>2, Filed
    <3> QED BY <3>1, <3>2
  <2>4. PICK index \in Nat : index = Max({0, n - 1})
    <3>1. 0 \in Int /\ n - 1 \in Int
      BY <1>4
    <3>2. Max({0, n - 1}) \in {0, n - 1} /\ Max({0, n - 1}) >= 0
      BY <3>1, Pairs, Zenon
    <3> QED BY <1>4, <3>2
  <2> DEFINE j == [pc |-> "reverse", by |-> r, effect |-> effect, index |-> index,
                   since |-> job[t].since, ok |-> FALSE]
  <2>5. j \in ReverseJobs /\ j.effect = effect
    BY <1>3, <2>3 DEF ReverseJobs
  <2>6. job' = [job EXCEPT ![t] = j]
    BY <1>2, <1>7, <2>4 DEF JobTyped
  <2> HIDE DEF j
  <2>7. Moves(t)
    BY <1>1, <1>5, <2>3, <2>5, <2>6, OtherMoves
  <2> QED BY <2>2, <2>7
<1> QED BY <1>6, <1>7 DEF PopUndo

\* A reversal, or its refusal.
LEMMA ReverseMoves ==
    ASSUME CouchInv, NEW t \in Threads, ReverseEffect(t), DOMAIN effects \subseteq DOMAIN effects'
    PROVE  Moves(t)
<1>1. job[t].pc = "reverse" /\ UNCHANGED lock
  BY DEF ReverseEffect, At
<1>2. job[t] \in ReverseJobs /\ job[t].effect \in DOMAIN effects /\ job \in [Threads -> Jobs]
  BY <1>1, TakesBack DEF CouchInv, JobTyped
<1>3. PICK ok \in BOOLEAN : job' = [job EXCEPT ![t] = [job[t] EXCEPT !.pc = "reversed", !.ok = ok]]
  <2>1. CASE job' = [job EXCEPT ![t] = [@ EXCEPT !.pc = "reversed", !.ok = TRUE]]
    BY <1>2, <2>1, Zenon
  <2>2. CASE Goto(t, "reversed")
    <3>1. job' = [job EXCEPT ![t] = [job[t] EXCEPT !.pc = "reversed"]]
      BY <1>2, <2>2 DEF Goto
    <3>2. [job[t] EXCEPT !.pc = "reversed"] = [job[t] EXCEPT !.pc = "reversed", !.ok = job[t].ok]
          /\ job[t].ok \in BOOLEAN
      BY <1>2 DEF ReverseJobs
    <3> QED BY <3>1, <3>2, Zenon
  <2> QED BY <2>1, <2>2, Zenon DEF ReverseEffect
<1> DEFINE j == [job[t] EXCEPT !.pc = "reversed", !.ok = ok]
<1>4. j \in ReverseJobs /\ j.effect = job[t].effect
  BY <1>2 DEF ReverseJobs
<1> HIDE DEF j
<1> QED BY <1>1, <1>2, <1>3, <1>4, OtherMoves DEF j

\* An opinion is withdrawn, or is not the latest.
LEMMA WithdrawMoves ==
    ASSUME CouchInv, NEW t \in Threads, ReverseOpinion(t)
    PROVE  Moves(t)
<1>1. job[t].pc = "pool undo" /\ UNCHANGED lock
  BY Zenon DEF ReverseOpinion, At
<1>2. job[t] \in PoolUndoJobs /\ job \in [Threads -> Jobs]
  BY <1>1, Asks, Zenon DEF CouchInv, JobTyped
<1>3. CASE Done(t)
  BY <1>1, <1>3, DoneMoves, Zenon
<1>4. CASE Goto(t, "opinion undone")
  <2> DEFINE j == [job[t] EXCEPT !.pc = "opinion undone"]
  <2>1. job' = [job EXCEPT ![t] = j]
    BY <1>2, <1>4, Zenon DEF Goto
  <2>2. j \in PoolUndoJobs /\ j \notin ReverseJobs
    BY <1>2, Zenon DEF PoolUndoJobs, ReverseJobs
  <2> HIDE DEF j
  <2> QED BY <1>1, <2>1, <2>2, OtherMoves, Zenon
<1> QED BY <1>3, <1>4, Zenon DEF ReverseOpinion

\* Every step of a thread.
LEMMA ServeMoves ==
    ASSUME CouchInv, NEW t \in Threads, Serve(t), DOMAIN effects \subseteq DOMAIN effects'
    PROVE  Moves(t)
<1>1. CASE ReadRow(t) \/ Route(t) \/ TakeGuard(t) \/ Commit(t)
  BY <1>1, ReadRowMoves, RouteMoves, TakeGuardMoves, CommitMoves
<1>2. CASE ReadPoolReceipt(t) \/ ClaimOpinion(t) \/ RecordOpinion(t)
  BY <1>2, PoolMoves, RecordMoves
<1>3. CASE PopUndo(t) \/ ReverseEffect(t) \/ ReverseOpinion(t)
  BY <1>3, PopUndoMoves, ReverseMoves, WithdrawMoves
<1>4. CASE Acknowledge(t) \/ AcknowledgeOpinion(t) \/ AnswerUndo(t) \/ AnswerPoolUndo(t) \/ ServeQueue(t)
  BY <1>4, DoneMoves, Zenon DEF Acknowledge, AcknowledgeOpinion, AnswerUndo, AnswerPoolUndo, ServeQueue
<1> QED BY <1>1, <1>2, <1>3, <1>4 DEF Serve

\* A request reaches a thread that is idle.
LEMMA RequestMoves ==
    ASSUME CouchInv, NEW r \in Reviewers, Send(r) \/ PressUndo(r) \/ RequestQueue(r)
    PROVE  /\ \E t \in Threads : Moves(t)
           /\ UNCHANGED <<db, session, phone, page>>
<1>1. UNCHANGED <<db, session, lock, phone, page>> /\ DOMAIN effects' = DOMAIN effects
  BY Zenon DEF Send, Accepts, PressUndo, RequestQueue, db
<1>2. CASE Send(r)
  <2>1. PICK op \in outbox[r] : Accepts(op)
    BY <1>2 DEF Send, Oldest, Newest
  <2>2. op \in DOMAIN ops /\ op \in Nat
    <3>1. PhoneTyped
      BY DEF CouchInv
    <3>2. op \in DOMAIN ops
      BY <2>1, <3>1 DEF PhoneTyped
    <3> QED BY <3>1, <3>2, OpTyped
  <2>3. PICK t \in Threads : /\ job[t] = Idle
           /\ job' = [job EXCEPT ![t] =
                [pc |-> IF Pool THEN "arrived" ELSE "route", op |-> op, first |-> FALSE]]
    BY <2>1 DEF Accepts
  <2> DEFINE j == [pc |-> IF Pool THEN "arrived" ELSE "route", op |-> op, first |-> FALSE]
  <2>4. /\ j \in DecisionJobs /\ j.op = op /\ j.first = FALSE
        /\ j.pc = IF Pool THEN "arrived" ELSE "route"
    BY <2>2 DEF DecisionJobs
  <2> HIDE DEF j
  <2>5. Alone(t) /\ job'[t] = j
    BY <1>1, <2>3, WorksAlone DEF j
  <2>6. Knows(t)'
    BY <2>4, <2>5 DEF Knows, Fork, CanonicalPath, PoolPath, Claim, Canonical, InPool
  <2>7. Placed(t)'
    <3>1. j \notin ReverseJobs
      BY <2>4 DEF ReverseJobs
    <3>2. DOMAIN ops' = DOMAIN ops
      BY <1>1 DEF page
    <3> QED BY <2>2, <2>4, <2>5, <3>1, <3>2 DEF Placed, Jobs
  <2> QED BY <1>1, <2>5, <2>6, <2>7 DEF Moves
<1>3. CASE PressUndo(r)
  <2>1. PICK t, j :
           /\ t \in Threads
           /\ job' = [job EXCEPT ![t] = j]
           /\ j = IF Pool /\ target[r] # 0
                  THEN [pc |-> "pool undo", by |-> r, opinion |-> target[r]]
                  ELSE [pc |-> "undo", by |-> r, since |-> LatestOf(PhoneEffects(r))]
    BY <1>3, Zenon DEF PressUndo
  <2>2. target[r] \in Nat /\ LatestOf(PhoneEffects(r)) \in Nat
    <3>1. PhoneEffects(r) \in SUBSET DOMAIN effects /\ effects \in Seq(Effects)
      BY DEF PhoneEffects, CouchInv, DbTyped
    <3>2. LatestOf(PhoneEffects(r)) \in Nat
      BY <3>1, Latest
    <3> QED BY <3>2 DEF CouchInv, PhoneTyped
  <2>3. j \in PoolUndoJobs \cup UndoJobs /\ j \notin ReverseJobs
    BY <2>1, <2>2, Zenon DEF PoolUndoJobs, UndoJobs, ReverseJobs
  <2> QED BY <1>1, <2>1, <2>3, OtherMoves, Zenon
<1>4. CASE RequestQueue(r)
  <2>1. PICK t, j :
           /\ t \in Threads
           /\ job' = [job EXCEPT ![t] = j]
           /\ j = [pc |-> "queue", by |-> r, pending |-> Pending(r)]
    BY <1>4 DEF RequestQueue
  <2>2. j \in QueueJobs /\ j \notin ReverseJobs
    <3>1. Pending(r) \in SUBSET Segments
      BY DEF Pending
    <3> QED BY <2>1, <3>1 DEF QueueJobs, ReverseJobs
  <2> QED BY <1>1, <2>1, <2>2, OtherMoves
<1> QED BY <1>2, <1>3, <1>4

-----------------------------------------------------------------------------
(* What the phones hear.                                                   *)

Hears(op, answer) == told' = [told EXCEPT ![op] = @ \cup {answer}]

\* What a phone is told is true when it is told.
Truthful ==
    \/ UNCHANGED told
    \/ \E op \in DOMAIN ops : Hears(op, "saved") /\ (CanonicalReceipt(op) \/ PoolReceipt(op))'
    \/ \E op \in DOMAIN ops : Hears(op, "refused") /\ EffectsOf(op) = {}

\* An answer reaches its phone or is lost.
LEMMA AnswerHeard ==
    ASSUME PhoneTyped, NEW op \in DOMAIN ops, NEW x \in Nat, UNCHANGED page,
           Saves(op, x) \/ Refuses(op) \/ Holds
    PROVE  /\ PhoneTyped'
           /\ Saves(op, x) => UNCHANGED told \/ Hears(op, "saved")
           /\ Refuses(op) => UNCHANGED told \/ Hears(op, "refused")
           /\ Holds => UNCHANGED told
<1>1. /\ UNCHANGED <<ops, cards>> /\ ops[op].by \in Reviewers /\ DOMAIN told = DOMAIN ops
      /\ told \in Seq(SUBSET {"saved", "refused"})
  <2>1. DOMAIN told = 1 .. Len(told) /\ DOMAIN ops = 1 .. Len(ops)
    BY Ids DEF PhoneTyped
  <2> QED BY <2>1, OpTyped DEF page, PhoneTyped
<1>2. /\ Saves(op, x) => UNCHANGED told \/ Hears(op, "saved")
      /\ Refuses(op) => UNCHANGED told \/ Hears(op, "refused")
      /\ Holds => UNCHANGED told
  BY DEF Saves, Refuses, Holds, Hears, phone
<1>3. told' \in Seq(SUBSET {"saved", "refused"}) /\ Len(told') = Len(told)
  <2>1. CASE UNCHANGED told
    BY <1>1, <2>1
  <2>2. ASSUME NEW answer \in {"saved", "refused"}, Hears(op, answer)
        PROVE  told' \in Seq(SUBSET {"saved", "refused"}) /\ Len(told') = Len(told)
    <3>1. told[op] \in SUBSET {"saved", "refused"}
      BY <1>1, Ids
    <3>2. PICK v \in SUBSET {"saved", "refused"} : v = told[op] \cup {answer}
      BY <3>1
    <3>3. told' = [told EXCEPT ![op] = v]
      BY <2>2, <3>2 DEF Hears
    <3> QED BY <1>1, <3>3, Replaced
  <2> QED BY <1>2, <2>1, <2>2
<1>4. outbox' \in [Reviewers -> SUBSET DOMAIN ops]
  <2>1. outbox \in [Reviewers -> SUBSET DOMAIN ops]
    BY DEF PhoneTyped
  <2>2. CASE outbox' = [outbox EXCEPT ![ops[op].by] = @ \ {op}]
    <3>1. PICK v \in SUBSET DOMAIN ops : v = outbox[ops[op].by] \ {op}
      BY <1>1, <2>1
    <3>2. outbox' = [outbox EXCEPT ![ops[op].by] = v]
      BY <2>1, <2>2, <3>1
    <3> QED BY <2>1, <3>2
  <2>3. CASE UNCHANGED outbox
    BY <2>1, <2>3
  <2> QED BY <2>2, <2>3 DEF Saves, Refuses, Holds, phone
<1>5. target' \in [Reviewers -> Nat]
  <2>1. target \in [Reviewers -> Nat]
    BY DEF PhoneTyped
  <2>2. CASE Saves(op, x) /\ ~UNCHANGED target
    <3>1. PICK v \in Nat : target' = [target EXCEPT ![ops[op].by] = v]
      BY <1>1, <2>1, <2>2 DEF Saves, phone
    <3> QED BY <2>1, <3>1
  <2>3. CASE UNCHANGED target
    BY <2>1, <2>3
  <2> QED BY <2>2, <2>3 DEF Saves, Refuses, Holds, phone
<1> QED BY <1>1, <1>2, <1>3, <1>4, <1>5 DEF PhoneTyped

\* The newest record of an operation that has one.
LEMMA ReceiptIds ==
    ASSUME DbTyped, NEW op
    PROVE  /\ EffectsOf(op) # {} => Max(EffectsOf(op)) \in DOMAIN effects
           /\ PoolReceipt(op) => Max(OpinionsOf(op)) \in Nat
<1>1. EffectsOf(op) \in SUBSET DOMAIN effects /\ OpinionsOf(op) \in SUBSET DOMAIN opinions
      /\ effects \in Seq(Effects) /\ opinions \in Seq(Opinions)
  BY DEF EffectsOf, OpinionsOf, DbTyped
<1>2. EffectsOf(op) # {} => Max(EffectsOf(op)) \in EffectsOf(op)
  BY <1>1, Latest
<1>3. OpinionsOf(op) # {} => Max(OpinionsOf(op)) \in OpinionsOf(op)
  BY <1>1, Latest
<1> QED BY <1>1, <1>2, <1>3, Filed DEF PoolReceipt

\* A receipt is the answer.
LEMMA ReplayAnswers ==
    ASSUME CouchInv, NEW t \in Threads, NEW op \in DOMAIN ops,
           ReplaysCanonical(t, op) \/ ReplaysPool(t, op)
    PROVE  PhoneTyped' /\ Truthful
<1>1. DbTyped /\ PhoneTyped
  BY DEF CouchInv
<1>2. UNCHANGED <<db, page, ops>>
  BY DEF ReplaysCanonical, ReplaysPool, page
<1>3. (CanonicalReceipt(op) \/ PoolReceipt(op))'
  BY <1>2, SameReads DEF ReplaysCanonical, ReplaysPool
<1>4. PICK x \in Nat : Saves(op, x)
  BY <1>1, ReceiptIds DEF ReplaysCanonical, ReplaysPool
<1> QED BY <1>1, <1>2, <1>3, <1>4, AnswerHeard DEF Truthful

\* A refusal is made without a record of a decision.
LEMMA RefusalAnswers ==
    ASSUME CouchInv, NEW op \in DOMAIN ops, Refuses(op) \/ Holds, UNCHANGED page,
           Refuses(op) => EffectsOf(op) = {}
    PROVE  PhoneTyped' /\ Truthful
<1>1. PhoneTyped /\ 0 \in Nat
  BY DEF CouchInv
<1> QED BY <1>1, AnswerHeard DEF Truthful

\* Nothing is answered.
LEMMA SilentAnswers ==
    ASSUME CouchInv, UNCHANGED <<phone, page>>
    PROVE  PhoneTyped' /\ Truthful
  BY DEF CouchInv, PhoneTyped, phone, page, Truthful

\* What a request for a decision hears.
LEMMA DecisionAnswers ==
    ASSUME CouchInv, NEW t \in Threads,
           ReadRow(t) \/ Route(t) \/ TakeGuard(t) \/ Commit(t) \/ Acknowledge(t)
    PROVE  PhoneTyped' /\ Truthful
<1> SUFFICES ASSUME NEW op, op = job[t].op PROVE PhoneTyped' /\ Truthful
  OBVIOUS
<1>1. /\ job[t].pc \in {"arrived", "route"} \cup Canonical
      /\ (Commit(t) => job[t].pc = "commit") /\ (Acknowledge(t) => job[t].pc = "committed")
  BY DEF ReadRow, Route, TakeGuard, Commit, Acknowledge, At, Canonical
<1>2. DbTyped /\ PhoneTyped /\ Knows(t) /\ op \in DOMAIN ops
  BY <1>1, Brings DEF CouchInv, Threading
<1>3. CASE ReadRow(t)
  BY <1>3, SilentAnswers DEF ReadRow
<1>4. CASE Route(t)
  BY <1>2, <1>4, SilentAnswers, ReplayAnswers DEF Route
<1>5. CASE TakeGuard(t)
  <2>1. CASE ReplaysCanonical(t, op)
    BY <1>2, <2>1, ReplayAnswers
  <2>2. CASE ~CanonicalReceipt(op) /\ RecordSkip(t, op)
    <3>1. SkipTaken(t) /\ Saves(op, 0) /\ UNCHANGED page /\ 0 \in Nat
      BY <1>5, <2>2 DEF TakeGuard, SkipTaken, RecordSkip
    <3>2. CanonicalReceipt(op)'
      <4>1. SkipFiled(op, Len(skips) + 1)
        BY <3>1, SkipTakenDoes DEF CouchInv
      <4> QED BY <4>1 DEF SkipFiled, CanonicalReceipt, SkipsOf
    <3> QED BY <1>2, <3>1, <3>2, AnswerHeard DEF Truthful
  <2>3. CASE ClaimClip(t, op)
    BY <2>3, SilentAnswers DEF ClaimClip
  <2>4. CASE ~CanonicalReceipt(op) /\ (Refused(t, op) \/ Held(t))
    BY <1>2, <2>4, RefusalAnswers DEF Refused, Held, CanonicalReceipt
  <2> QED BY <1>5, <2>1, <2>2, <2>3, <2>4 DEF TakeGuard, CommittedMeanwhile
<1>6. CASE Commit(t)
  <2>1. EffectsOf(op) = {}
    BY <1>1, <1>2, <1>6 DEF Knows, Claim, CanonicalReceipt
  <2>2. CASE Refuses(op) /\ UNCHANGED page
    BY <1>2, <2>1, <2>2, RefusalAnswers
  <2>3. CASE UNCHANGED <<phone, page>>
    BY <2>3, SilentAnswers
  <2> QED BY <1>6, <2>2, <2>3 DEF Commit
<1>7. CASE Acknowledge(t)
  <2>1. Saves(op, 0) /\ UNCHANGED <<db, page, ops>> /\ 0 \in Nat
    BY <1>7 DEF Acknowledge, page
  <2>2. CanonicalReceipt(op)'
    BY <1>1, <1>2, <1>7, <2>1, SameReads DEF Knows, Claim, CanonicalReceipt
  <2> QED BY <1>2, <2>1, <2>2, AnswerHeard DEF Truthful
<1> QED BY <1>3, <1>4, <1>5, <1>6, <1>7

\* What a request for an opinion hears.
LEMMA OpinionAnswers ==
    ASSUME CouchInv, NEW t \in Threads,
           ReadPoolReceipt(t) \/ ClaimOpinion(t) \/ RecordOpinion(t) \/ AcknowledgeOpinion(t)
    PROVE  PhoneTyped' /\ Truthful
<1> SUFFICES ASSUME NEW op, op = job[t].op PROVE PhoneTyped' /\ Truthful
  OBVIOUS
<1>1. /\ job[t].pc \in InPool /\ (AcknowledgeOpinion(t) => job[t].pc = "recorded")
  BY Zenon DEF ReadPoolReceipt, ClaimOpinion, RecordOpinion, AcknowledgeOpinion, At, InPool
<1>2. /\ DbTyped /\ PhoneTyped /\ Knows(t) /\ op \in DOMAIN ops /\ EffectsOf(op) = {}
  BY <1>1, Brings DEF CouchInv, Threading, Knows, PoolPath
<1>3. CASE ReadPoolReceipt(t)
  <2>1. CASE ReplaysPool(t, op)
    BY <1>2, <2>1, ReplayAnswers
  <2>2. CASE Refused(t, op)
    BY <1>2, <2>2, RefusalAnswers DEF Refused
  <2>3. CASE UNCHANGED <<phone, page>>
    BY <2>3, SilentAnswers
  <2> QED BY <1>3, <2>1, <2>2, <2>3 DEF ReadPoolReceipt
<1>4. CASE ClaimOpinion(t)
  <2>1. CASE Refused(t, op) \/ Held(t)
    BY <1>2, <2>1, RefusalAnswers DEF Refused, Held
  <2>2. CASE UNCHANGED <<phone, page>>
    BY <2>2, SilentAnswers
  <2> QED BY <1>4, <2>1, <2>2 DEF ClaimOpinion
<1>5. CASE RecordOpinion(t)
  <2>1. UNCHANGED page
    BY <1>5, Zenon DEF RecordOpinion
  <2>2. CASE Refuses(op) \/ Holds
    BY <1>2, <2>1, <2>2, RefusalAnswers
  <2>3. CASE UNCHANGED phone
    BY <2>1, <2>3, SilentAnswers
  <2> QED BY <1>5, <2>2, <2>3, Zenon DEF RecordOpinion
<1>6. CASE AcknowledgeOpinion(t)
  <2>1. PICK x : x = Max(OpinionsOf(op)) /\ Saves(op, x) /\ UNCHANGED <<db, page, ops>>
    BY <1>6 DEF AcknowledgeOpinion, page
  <2>2. PoolReceipt(op)
    BY <1>1, <1>2, <1>6 DEF Knows, PoolPath
  <2>3. x \in Nat /\ PoolReceipt(op)'
    BY <1>2, <2>1, <2>2, ReceiptIds, SameReads
  <2> QED BY <1>2, <2>1, <2>3, AnswerHeard DEF Truthful
<1> QED BY <1>3, <1>4, <1>5, <1>6

\* An undo tells the phone nothing of an operation; a page shows it the rows.
LEMMA UndoAnswers ==
    ASSUME CouchInv, NEW t \in Threads,
           \/ PopUndo(t) \/ ReverseEffect(t) \/ AnswerUndo(t) \/ ReverseOpinion(t)
           \/ AnswerPoolUndo(t) \/ ServeQueue(t)
    PROVE  PhoneTyped' /\ Truthful
<1>1. CASE PopUndo(t) \/ ReverseEffect(t) \/ AnswerUndo(t) \/ ReverseOpinion(t)
  <2>1. UNCHANGED <<phone, page>>
    BY <1>1, Zenon DEF PopUndo, ReverseEffect, AnswerUndo, ReverseOpinion
  <2> QED BY <2>1, SilentAnswers
<1>2. CASE AnswerPoolUndo(t)
  <2>1. /\ UNCHANGED <<outbox, told, ops, cards>> /\ target \in [Reviewers -> Nat]
        /\ job[t].by \in Reviewers
    BY <1>2, Asks, Zenon DEF AnswerPoolUndo, At, page, CouchInv, PhoneTyped, PoolUndoJobs
  <2>2. target' \in [Reviewers -> Nat]
    <3>1. CASE UNCHANGED target
      BY <2>1, <3>1
    <3>2. CASE target' = [target EXCEPT ![job[t].by] = IF @ = job[t].opinion THEN 0 ELSE @]
      <4>1. PICK v \in Nat : v = IF target[job[t].by] = job[t].opinion THEN 0 ELSE target[job[t].by]
        BY <2>1
      <4>2. target' = [target EXCEPT ![job[t].by] = v]
        BY <2>1, <3>2, <4>1
      <4> QED BY <2>1, <4>2
    <3> QED BY <1>2, <3>1, <3>2, Zenon DEF AnswerPoolUndo
  <2> QED BY <2>1, <2>2 DEF CouchInv, PhoneTyped, Truthful
<1>3. CASE ServeQueue(t)
  <2>1. UNCHANGED <<outbox, target, told, ops>> /\ cards \in [Reviewers -> [Segments -> Nat]]
    BY <1>3 DEF ServeQueue, phone, CouchInv, PhoneTyped
  <2>2. cards' \in [Reviewers -> [Segments -> Nat]]
    <3>1. CASE UNCHANGED cards
      BY <2>1, <3>1
    <3>2. CASE \E shown : cards' = [cards EXCEPT ![job[t].by] =
                             [s \in Segments |-> IF s \in shown THEN rows[s].rev ELSE 0]]
      <4>1. PICK shown : cards' = [cards EXCEPT ![job[t].by] =
                           [s \in Segments |-> IF s \in shown THEN rows[s].rev ELSE 0]]
        BY <3>2
      <4>2. PICK v : v = [s \in Segments |-> IF s \in shown THEN rows[s].rev ELSE 0]
        OBVIOUS
      <4>3. \A s \in Segments : rows[s].rev \in Nat
        BY DEF CouchInv, DbTyped, Rows
      <4>4. v \in [Segments -> Nat] /\ cards' = [cards EXCEPT ![job[t].by] = v]
        BY <4>1, <4>2, <4>3
      <4> QED BY <2>1, <4>4
    <3> QED BY <1>3, <3>1, <3>2 DEF ServeQueue
  <2> QED BY <2>1, <2>2 DEF CouchInv, PhoneTyped, Truthful
<1> QED BY <1>1, <1>2, <1>3

\* Every step of a thread tells the truth.
LEMMA ServeAnswers ==
    ASSUME CouchInv, NEW t \in Threads, Serve(t)
    PROVE  PhoneTyped' /\ Truthful
  BY DecisionAnswers, OpinionAnswers, UndoAnswers DEF Serve

-----------------------------------------------------------------------------
(* The undo stacks.                                                        *)

\* A stack names decisions, of which there are no fewer later.
LEMMA UndoKept ==
    ASSUME CouchInv, UNCHANGED undo, DOMAIN effects \subseteq DOMAIN effects'
    PROVE  UndoTyped'
<1>1. \A r \in Reviewers : undo[r] \in Seq(DOMAIN effects) /\ undo[r] \in Seq(DOMAIN effects')
  BY SeqGrows DEF CouchInv, UndoTyped
<1> QED BY <1>1 DEF CouchInv, UndoTyped

\* One reviewer's stack is replaced.
LEMMA UndoReplaced ==
    ASSUME CouchInv, NEW r \in Reviewers, NEW stack \in Seq(DOMAIN effects),
           undo' = [undo EXCEPT ![r] = stack], UNCHANGED effects
    PROVE  UndoTyped'
  BY DEF CouchInv, UndoTyped

\* A decision with a record is remembered.
LEMMA RememberTyped ==
    ASSUME CouchInv, NEW r \in Reviewers, NEW e \in DOMAIN effects, RememberPhoneUndo(r, e),
           UNCHANGED effects
    PROVE  UndoTyped'
<1>1. undo[r] \in Seq(DOMAIN effects)
  BY DEF CouchInv, UndoTyped
<1>2. PICK stack \in Seq(DOMAIN effects) : stack = Pushed(undo[r], e)
  BY <1>1, PushedTyped
<1>3. undo' = [undo EXCEPT ![r] = stack]
  BY <1>2 DEF RememberPhoneUndo, CouchInv, UndoTyped
<1> QED BY <1>2, <1>3, UndoReplaced

\* Opinions empty the stack.
LEMMA PoolUndoTyped ==
    ASSUME CouchInv, NEW r \in Reviewers, RememberPoolUndo(r), UNCHANGED effects
    PROVE  UndoTyped'
<1>1. PICK stack \in Seq(DOMAIN effects) : stack = << >>
  BY EmptySeq
<1> QED BY <1>1, UndoReplaced DEF RememberPoolUndo

\* Every step of a thread keeps the stacks typed.
LEMMA ServeUndo ==
    ASSUME CouchInv, NEW t \in Threads, Serve(t), DOMAIN effects \subseteq DOMAIN effects'
    PROVE  UndoTyped'
<1> SUFFICES ASSUME NEW op, op = job[t].op PROVE UndoTyped'
  OBVIOUS
<1>1. job[t].pc \in {"arrived", "route"} \cup Canonical \cup InPool => ops[op].by \in Reviewers
  BY Brings DEF CouchInv
<1>2. DbTyped /\ Knows(t)
  BY DEF CouchInv, Threading
<1>3. CASE UNCHANGED undo
  BY <1>3, UndoKept
<1>4. CASE ReplaysCanonical(t, op) /\ job[t].pc \in {"route", "canonical"} /\ ~UNCHANGED undo
  <2>1. /\ EffectsOf(op) # {} /\ RememberPhoneUndo(ops[op].by, Max(EffectsOf(op)))
        /\ UNCHANGED effects /\ ops[op].by \in Reviewers
    BY <1>1, <1>4 DEF ReplaysCanonical, db, Canonical
  <2> QED BY <1>2, <2>1, ReceiptIds, RememberTyped
<1>5. CASE Acknowledge(t)
  <2>1. /\ EffectsOf(op) # {} /\ RememberPhoneUndo(ops[op].by, Max(EffectsOf(op)))
        /\ UNCHANGED effects /\ ops[op].by \in Reviewers
    BY <1>1, <1>2, <1>5 DEF Acknowledge, At, db, Canonical, Knows, Claim
  <2> QED BY <1>2, <2>1, ReceiptIds, RememberTyped
<1>6. CASE ReplaysPool(t, op) /\ At(t, "pool")
  BY <1>1, <1>6, PoolUndoTyped DEF ReplaysPool, At, db, InPool
<1>7. CASE AcknowledgeOpinion(t)
  BY <1>1, <1>7, PoolUndoTyped DEF AcknowledgeOpinion, At, db, InPool
<1>8. CASE AnswerPoolUndo(t)
  <2>1. job[t].by \in Reviewers
    BY <1>8, Asks, Zenon DEF AnswerPoolUndo, At, CouchInv, PoolUndoJobs
  <2> QED BY <1>8, <2>1, PoolUndoTyped, Zenon DEF AnswerPoolUndo, db
<1>9. CASE PopUndo(t)
  BY <1>9, PopUndoMoves
<1>10. CASE AnswerUndo(t)
  <2>1. /\ job[t].by \in Reviewers /\ job[t].effect \in DOMAIN effects /\ job[t].index \in Nat
        /\ UNCHANGED effects
    BY <1>10, TakesBack DEF AnswerUndo, At, CouchInv, db
  <2>2. undo[job[t].by] \in Seq(DOMAIN effects)
    BY <2>1 DEF CouchInv, UndoTyped
  <2>3. PICK stack \in Seq(DOMAIN effects) :
          stack = Retained(undo[job[t].by], job[t].index, job[t].effect)
    BY <2>1, <2>2, RetainedTyped
  <2>4. undo' = [undo EXCEPT ![job[t].by] = stack]
    BY <1>10, <2>1, <2>3 DEF AnswerUndo, CouchInv, UndoTyped
  <2> QED BY <2>1, <2>3, <2>4, UndoReplaced
<1>11. CASE ReadRow(t) \/ Route(t)
  BY <1>3, <1>4, <1>11 DEF ReadRow, Route, At, session
<1>12. CASE TakeGuard(t)
  BY <1>3, <1>4, <1>12 DEF TakeGuard, CommittedMeanwhile, RecordSkip, ClaimClip, Refused, Held, At, session
<1>13. CASE Commit(t)
  BY <1>3, <1>13 DEF Commit, session
<1>14. CASE ReadPoolReceipt(t) \/ ClaimOpinion(t)
  BY <1>3, <1>6, <1>14 DEF ReadPoolReceipt, ClaimOpinion, Refused, Held, session
<1>15. CASE RecordOpinion(t) \/ ReverseEffect(t) \/ ReverseOpinion(t) \/ ServeQueue(t)
  BY <1>3, <1>15, Zenon DEF RecordOpinion, ReverseEffect, ReverseOpinion, ServeQueue, session
<1> QED BY <1>5, <1>7, <1>8, <1>9, <1>10, <1>11, <1>12, <1>13, <1>14, <1>15 DEF Serve

-----------------------------------------------------------------------------
(* The steps together.                                                     *)

DbInv == DbTyped /\ Revisions /\ Receipts /\ NoPool /\ NoVerdictReplaced /\ VerdictOnServedText /\ Beside
ThreadInv == JobTyped /\ Threading

\* A step of a thread submits no operation, and a page it serves shows the rows.
LEMMA ServeKeeps ==
    ASSUME CouchInv, NEW t \in Threads, Serve(t)
    PROVE  /\ UNCHANGED ops
           /\ UNCHANGED db => \A r \in Reviewers, s \in Segments : cards'[r][s] <= rows[s].rev
<1>1. \A r \in Reviewers, s \in Segments : cards[r][s] <= rows[s].rev
  BY DEF CouchInv, Revisions
<1>2. CASE UNCHANGED page
  BY <1>1, <1>2 DEF page
<1>3. CASE ServeQueue(t)
  <2>1. UNCHANGED ops /\ cards \in [Reviewers -> [Segments -> Nat]]
    BY <1>3 DEF ServeQueue, CouchInv, PhoneTyped
  <2>2. CASE UNCHANGED cards
    BY <1>1, <2>1, <2>2
  <2>3. CASE \E shown : cards' = [cards EXCEPT ![job[t].by] =
                           [s \in Segments |-> IF s \in shown THEN rows[s].rev ELSE 0]]
    <3>1. PICK shown : cards' = [cards EXCEPT ![job[t].by] =
                         [s \in Segments |-> IF s \in shown THEN rows[s].rev ELSE 0]]
      BY <2>3
    <3>2. \A s \in Segments : rows[s].rev \in Nat
      BY DEF CouchInv, DbTyped, Rows
    <3>3. ASSUME NEW r \in Reviewers, NEW s \in Segments PROVE cards'[r][s] <= rows[s].rev
      BY <1>1, <2>1, <3>1, <3>2
    <3> QED BY <2>1, <3>3
  <2> QED BY <1>3, <2>2, <2>3 DEF ServeQueue
<1>4. CASE ReadRow(t) \/ Route(t) \/ TakeGuard(t) \/ Commit(t) \/ Acknowledge(t)
  <2>1. UNCHANGED page
    BY <1>4 DEF ReadRow, Route, TakeGuard, Commit, Acknowledge, ReplaysCanonical, RecordSkip, ClaimClip,
       Refused, Held
  <2> QED BY <1>2, <2>1
<1>5. CASE ReadPoolReceipt(t) \/ ClaimOpinion(t) \/ RecordOpinion(t) \/ AcknowledgeOpinion(t)
  <2>1. UNCHANGED page
    BY <1>5, Zenon DEF ReadPoolReceipt, ClaimOpinion, RecordOpinion, AcknowledgeOpinion, ReplaysPool, Refused,
       Held
  <2> QED BY <1>2, <2>1
<1>6. CASE PopUndo(t) \/ ReverseEffect(t) \/ AnswerUndo(t) \/ ReverseOpinion(t) \/ AnswerPoolUndo(t)
  <2>1. UNCHANGED page
    BY <1>6, Zenon DEF PopUndo, ReverseEffect, AnswerUndo, ReverseOpinion, AnswerPoolUndo
  <2> QED BY <1>2, <2>1
<1> QED BY <1>3, <1>4, <1>5, <1>6 DEF Serve

\* The database is left alone, and no phone gets ahead of it.
LEMMA QuietDb ==
    ASSUME CouchInv, UNCHANGED <<db, ops>>,
           \A r \in Reviewers, s \in Segments : cards'[r][s] <= rows[s].rev
    PROVE  DbInv'
<1>1. UNCHANGED <<rows, effects, skips, opinions, ledger, ops>>
  BY DEF db
<1>2. DbTyped' /\ NoPool' /\ NoVerdictReplaced' /\ VerdictOnServedText'
  BY <1>1 DEF CouchInv, DbTyped, NoPool, NoVerdictReplaced, VerdictOnServedText
<1>3. Revisions'
  BY <1>1 DEF CouchInv, Revisions
<1>4. Receipts'
  BY <1>1 DEF CouchInv, Receipts, EffectsOf, SkipsOf, OpinionsOf, PoolReceipt, CanonicalReceipt
<1>5. Beside'
  BY <1>1 DEF CouchInv, Beside, SecondOpinions, Effective, Verified, JudgeOf
<1> QED BY <1>2, <1>3, <1>4, <1>5 DEF DbInv

\* The database is written.
LEMMA WrittenDb ==
    ASSUME CouchInv, Writes
    PROVE  DbInv' /\ Grows /\ UNCHANGED <<ops, cards>>
<1>1. Changes /\ UNCHANGED <<ops, cards>>
  BY WritesChange
<1>2. DbTyped' /\ Grows
  BY <1>1, ChangesGrow
<1>3. Revisions' /\ Receipts' /\ Beside'
  BY <1>1, ChangesRevisions, ChangesReceipts, ChangesBeside
<1>4. NoVerdictReplaced' /\ VerdictOnServedText' /\ NoPool'
  BY <1>1, ChangesVerdicts
<1> QED BY <1>1, <1>2, <1>3, <1>4 DEF DbInv

\* One thread moves: what it and the others know is true.
LEMMA OneMoves ==
    ASSUME CouchInv, Writes \/ UNCHANGED db, NEW t \in Threads, Moves(t), UNCHANGED ops
    PROVE  ThreadInv'
<1>1. Grows
  BY WrittenDb, StillGrows DEF CouchInv
<1>2. job' = [u \in Threads |-> job'[u]] /\ job \in [Threads -> Jobs]
  BY DEF Moves, Alone, CouchInv, JobTyped
<1>3. ASSUME NEW u \in Threads PROVE Knows(u)' /\ Placed(u)'
  <2>1. CASE u = t
    BY <2>1 DEF Moves
  <2>2. CASE u # t
    <3>1. job'[u] = job[u] /\ (lock = u => lock' = u)
      BY <2>2 DEF Moves, Alone
    <3>2. Knows(u)'
      BY <3>1, KnowsOn
    <3>3. Placed(u)'
      BY <1>1, <3>1 DEF Placed, CouchInv, JobTyped, Grows
    <3> QED BY <3>2, <3>3
  <2> QED BY <2>1, <2>2
<1>4. job' \in [Threads -> Jobs]
  BY <1>2, <1>3 DEF Placed
<1> QED BY <1>3, <1>4 DEF ThreadInv, JobTyped, Threading, Placed

\* No thread moves, and no operation is changed.
LEMMA NoneMoves ==
    ASSUME CouchInv, Writes \/ UNCHANGED db, UNCHANGED <<job, lock>>, DOMAIN ops \subseteq DOMAIN ops',
           \A op \in DOMAIN ops : ops'[op] = ops[op]
    PROVE  ThreadInv'
<1>1. Grows
  BY WrittenDb, StillGrows DEF CouchInv
<1>2. \A u \in Threads : Knows(u)'
  BY KnowsOn
<1>3. JobTyped'
  BY <1>1 DEF CouchInv, JobTyped, Grows
<1> QED BY <1>2, <1>3 DEF ThreadInv, Threading

\* What was said stays true.
LEMMA ToldStays ==
    ASSUME CouchInv, Grows, UNCHANGED ops, Truthful
    PROVE  Told'
<1>1. \A op : (CanonicalReceipt(op) => CanonicalReceipt(op)') /\ (PoolReceipt(op) => PoolReceipt(op)')
  BY DEF Grows, SameEffect, SameOpinion, CanonicalReceipt, PoolReceipt, EffectsOf, SkipsOf, OpinionsOf
<1>2. \A op \in DOMAIN ops : "saved" \in told[op] => CanonicalReceipt(op) \/ PoolReceipt(op)
  BY DEF CouchInv, Told
<1>3. DOMAIN told = DOMAIN ops
  <2>1. DOMAIN told = 1 .. Len(told) /\ DOMAIN ops = 1 .. Len(ops) /\ Len(told) = Len(ops)
    BY Ids DEF CouchInv, PhoneTyped
  <2> QED BY <2>1
<1>4. CASE UNCHANGED told
  BY <1>1, <1>2, <1>4 DEF Told
<1>5. ASSUME NEW op \in DOMAIN ops, Hears(op, "saved"), (CanonicalReceipt(op) \/ PoolReceipt(op))'
      PROVE  Told'
  <2>1. \A x \in DOMAIN ops : x # op => told'[x] = told[x]
    BY <1>3, <1>5 DEF Hears
  <2> QED BY <1>1, <1>2, <1>5, <2>1 DEF Told
<1>6. ASSUME NEW op \in DOMAIN ops, Hears(op, "refused") PROVE Told'
  <2>1. \A x \in DOMAIN ops : "saved" \in told'[x] => "saved" \in told[x]
    BY <1>3, <1>6 DEF Hears
  <2> QED BY <1>1, <1>2, <2>1 DEF Told
<1> QED BY <1>4, <1>5, <1>6 DEF Truthful

\* A new operation: no record names it, and its phone has been told nothing.
LEMMA DecideKeeps ==
    ASSUME CouchInv, NEW r \in Reviewers, NEW s \in Segments, NEW act \in Acts, Decide(r, s, act)
    PROVE  CouchInv'
<1> SUFFICES ASSUME NEW n, n = Len(ops) + 1, NEW o,
                    o = [by |-> r, seg |-> s, act |-> act, rev |-> cards[r][s]]
             PROVE  CouchInv'
  OBVIOUS
<1>1. /\ ops' = Append(ops, o) /\ told' = Append(told, {})
      /\ outbox' = [outbox EXCEPT ![r] = @ \cup {n}]
      /\ cards' = [cards EXCEPT ![r][s] = 0]
      /\ UNCHANGED <<rows, effects, skips, opinions, ledger, undo, lock, job, target, db>>
  BY DEF Decide, db, session
<1>2. DbTyped /\ PhoneTyped /\ Revisions /\ Receipts /\ Told
  BY DEF CouchInv
<1>3. cards[r][s] \in Nat /\ cards[r][s] <= rows[s].rev
  BY <1>2 DEF PhoneTyped, Revisions
<1>4. o \in Operations /\ o.seg = s /\ o.rev = cards[r][s]
  BY <1>3 DEF Operations
<1>5. /\ ops' \in Seq(Operations) /\ Len(ops') = Len(ops) + 1 /\ Len(ops) \in Nat
      /\ DOMAIN ops' = DOMAIN ops \cup {n} /\ n \notin DOMAIN ops
      /\ \A op \in DOMAIN ops : ops'[op] = ops[op]
      /\ ops'[n] = o
  BY <1>1, <1>2, <1>4, Appended DEF PhoneTyped
<1>6. /\ told' \in Seq(SUBSET {"saved", "refused"}) /\ Len(told') = Len(ops')
      /\ \A op \in DOMAIN ops : told'[op] = told[op]
      /\ told'[n] = {}
  <2>1. told \in Seq(SUBSET {"saved", "refused"}) /\ {} \in SUBSET {"saved", "refused"}
        /\ Len(told) = Len(ops)
    BY <1>2 DEF PhoneTyped
  <2>2. /\ told' \in Seq(SUBSET {"saved", "refused"}) /\ Len(told') = Len(told) + 1
        /\ \A op \in DOMAIN told : told'[op] = told[op]
        /\ told'[Len(told) + 1] = {}
    BY <1>1, <2>1, Appended
  <2>3. DOMAIN told = DOMAIN ops
    <3>1. DOMAIN told = 1 .. Len(told) /\ DOMAIN ops = 1 .. Len(ops)
      BY <1>2, Ids DEF PhoneTyped
    <3> QED BY <2>1, <3>1
  <2> QED BY <1>5, <2>1, <2>2, <2>3
<1>7. outbox' \in [Reviewers -> SUBSET DOMAIN ops']
  <2>1. outbox \in [Reviewers -> SUBSET DOMAIN ops]
    BY <1>2 DEF PhoneTyped
  <2>2. outbox \in [Reviewers -> SUBSET DOMAIN ops']
    BY <1>5, <2>1
  <2>3. PICK v \in SUBSET DOMAIN ops' : v = outbox[r] \cup {n}
    BY <1>5, <2>2
  <2>4. outbox' = [outbox EXCEPT ![r] = v]
    BY <1>1, <2>2, <2>3
  <2> QED BY <2>2, <2>4
<1>8. /\ cards' \in [Reviewers -> [Segments -> Nat]]
      /\ \A q \in Reviewers, x \in Segments : cards'[q][x] \in {0, cards[q][x]}
  <2>1. cards \in [Reviewers -> [Segments -> Nat]]
    BY <1>2 DEF PhoneTyped
  <2>2. PICK v : v = [cards[r] EXCEPT ![s] = 0]
    OBVIOUS
  <2>3. v \in [Segments -> Nat] /\ \A x \in Segments : v[x] \in {0, cards[r][x]}
    BY <2>1, <2>2
  <2>4. cards' = [cards EXCEPT ![r] = v]
    BY <1>1, <2>1, <2>2
  <2> QED BY <2>1, <2>3, <2>4
<1>9. PhoneTyped'
  BY <1>1, <1>2, <1>5, <1>6, <1>7, <1>8 DEF PhoneTyped
<1>10. Revisions'
  <2>1. \A x \in Segments : rows[x].rev \in Nat
    BY <1>2 DEF DbTyped, Rows
  <2>2. \A q \in Reviewers, x \in Segments : cards'[q][x] <= rows[x].rev
    <3> SUFFICES ASSUME NEW q \in Reviewers, NEW x \in Segments PROVE cards'[q][x] <= rows[x].rev
      OBVIOUS
    <3>1. cards[q][x] <= rows[x].rev
      BY <1>2 DEF Revisions
    <3>2. cards'[q][x] = 0 \/ cards'[q][x] = cards[q][x]
      BY <1>8
    <3> QED BY <2>1, <3>1, <3>2
  <2>3. \A op \in DOMAIN ops' : ops'[op].rev <= rows[ops'[op].seg].rev
    BY <1>2, <1>3, <1>4, <1>5 DEF Revisions
  <2> QED BY <1>1, <1>2, <2>2, <2>3 DEF Revisions
<1>11. \A op : EffectsOf(op)' = EffectsOf(op) /\ SkipsOf(op)' = SkipsOf(op) /\ OpinionsOf(op)' = OpinionsOf(op)
  BY <1>1 DEF EffectsOf, SkipsOf, OpinionsOf
<1>12. EffectsOf(n) = {} /\ SkipsOf(n) = {} /\ OpinionsOf(n) = {}
  <2>1. n # 0
    BY <1>5
  <2>2. \A e \in DOMAIN effects : effects[e].by \in Judges
    BY <1>2, Filed DEF Effects
  <2>3. \A e \in DOMAIN effects : effects[e].op # n
    BY <1>2, <1>5, <2>1, <2>2 DEF Receipts, Judges
  <2> QED BY <1>2, <1>5, <2>3 DEF Receipts, EffectsOf, SkipsOf, OpinionsOf
<1>13. Receipts'
  <2>1. /\ \A e \in DOMAIN effects : effects[e].by \in Reviewers => effects[e].op \in DOMAIN ops'
        /\ \A k \in DOMAIN skips : skips[k].op \in DOMAIN ops'
        /\ \A p \in DOMAIN opinions : opinions[p].op \in DOMAIN ops'
        /\ \A e \in DOMAIN effects : effects[e].by = Desktop => effects[e].op = 0
    BY <1>2, <1>5 DEF Receipts
  <2>2. \A op \in DOMAIN ops' :
           /\ \A e, f \in EffectsOf(op) : e = f
           /\ \A j, k \in SkipsOf(op) : j = k
           /\ \A p, q \in OpinionsOf(op) : p = q
           /\ EffectsOf(op) = {} \/ SkipsOf(op) = {}
           /\ PoolReceipt(op) => ~CanonicalReceipt(op)
    BY <1>2, <1>5, <1>12 DEF Receipts, PoolReceipt
  <2> QED BY <1>1, <1>11, <2>1, <2>2 DEF Receipts, PoolReceipt, CanonicalReceipt
<1>14. Told'
  BY <1>2, <1>5, <1>6, <1>11 DEF Told, PoolReceipt, CanonicalReceipt
<1>15. VerdictOnServedText'
  <2>1. \A e \in DOMAIN effects : effects[e].by \in Reviewers => ops'[effects[e].op] = ops[effects[e].op]
    BY <1>2, <1>5 DEF Receipts
  <2>2. \A p \in DOMAIN opinions : ops'[opinions[p].op] = ops[opinions[p].op]
    BY <1>2, <1>5 DEF Receipts
  <2> QED BY <1>1, <2>1, <2>2 DEF CouchInv, VerdictOnServedText
<1>16. DbTyped' /\ UndoTyped' /\ NoPool' /\ NoVerdictReplaced'
  BY <1>1 DEF CouchInv, DbTyped, UndoTyped, NoPool, NoVerdictReplaced
<1>17. Beside'
  BY <1>1 DEF CouchInv, Beside, SecondOpinions, Effective, Verified, JudgeOf
<1>18. ThreadInv'
  BY <1>1, <1>5, NoneMoves
<1> QED BY <1>9, <1>10, <1>13, <1>14, <1>15, <1>16, <1>17, <1>18 DEF CouchInv, ThreadInv

\* A thread's step.
LEMMA ServeInv ==
    ASSUME CouchInv, NEW t \in Threads, Serve(t), [Next]_vars
    PROVE  CouchInv' /\ Truthful
<1>1. PhoneTyped' /\ Truthful
  BY ServeAnswers
<1>2. UNCHANGED ops
  BY ServeKeeps
<1>3. Writes \/ UNCHANGED db
  BY DbSteps
<1>4. DbInv' /\ Grows
  <2>1. CASE Writes
    BY <2>1, WrittenDb
  <2>2. CASE UNCHANGED db
    BY <1>2, <2>2, QuietDb, ServeKeeps, StillGrows DEF CouchInv
  <2> QED BY <1>3, <2>1, <2>2
<1>5. DOMAIN effects \subseteq DOMAIN effects'
  BY <1>4 DEF Grows
<1>6. ThreadInv'
  BY <1>2, <1>3, <1>5, ServeMoves, OneMoves
<1>7. UndoTyped'
  BY <1>5, ServeUndo
<1>8. Told'
  BY <1>1, <1>2, <1>4, ToldStays
<1> QED BY <1>1, <1>4, <1>6, <1>7, <1>8 DEF CouchInv, DbInv, ThreadInv

\* A step that leaves the page, the phones and the stacks alone.
LEMMA BesidesInv ==
    ASSUME CouchInv, UNCHANGED <<phone, page, undo>>, Writes \/ UNCHANGED db, ThreadInv'
    PROVE  CouchInv' /\ Truthful
<1>1. UNCHANGED <<ops, cards>>
  BY DEF page
<1>2. PhoneTyped' /\ Truthful
  BY SilentAnswers
<1>3. \A r \in Reviewers, s \in Segments : cards'[r][s] <= rows[s].rev
  BY <1>1 DEF CouchInv, Revisions
<1>4. DbInv' /\ Grows
  BY <1>1, <1>3, WrittenDb, QuietDb, StillGrows DEF CouchInv
<1>5. UndoTyped' /\ Told'
  BY <1>1, <1>2, <1>4, UndoKept, ToldStays DEF Grows
<1> QED BY <1>2, <1>4, <1>5 DEF CouchInv, DbInv, ThreadInv

\* A restart forgets the requests and the stacks, and nothing else.
LEMMA RestartInv ==
    ASSUME CouchInv, Restart
    PROVE  CouchInv' /\ Truthful
<1>1. /\ UNCHANGED <<db, phone, page, ops, cards>> /\ job' = [t \in Threads |-> Idle]
      /\ undo' = [r \in Reviewers |-> <<>>]
  BY DEF Restart, page
<1>2. PhoneTyped' /\ Truthful
  BY <1>1, SilentAnswers
<1>3. \A r \in Reviewers, s \in Segments : cards'[r][s] <= rows[s].rev
  BY <1>1 DEF CouchInv, Revisions
<1>4. DbInv' /\ Grows
  BY <1>1, <1>3, QuietDb, StillGrows DEF CouchInv
<1>5. Told'
  BY <1>1, <1>2, <1>4, ToldStays
<1>6. UndoTyped'
  <2>1. << >> \in Seq(DOMAIN effects')
    BY EmptySeq
  <2> QED BY <1>1, <2>1 DEF UndoTyped
<1>7. ThreadInv'
  <2>1. Idle \in Jobs /\ Idle.pc = "idle"
    BY DEF Jobs, Idle
  <2>2. Idle \notin DecisionJobs /\ Idle \notin ReverseJobs
    BY <2>1 DEF DecisionJobs, ReverseJobs, Canonical, InPool
  <2>3. \A t \in Threads : job'[t] = Idle
    BY <1>1
  <2>4. \A t \in Threads : Knows(t)'
    <3> SUFFICES ASSUME NEW t \in Threads PROVE Knows(t)'
      OBVIOUS
    <3>1. job'[t].pc \notin {"arrived", "route"} \cup Canonical \cup InPool
      BY <2>1, <2>3 DEF Canonical, InPool
    <3> QED BY <3>1, KnowsNothing
  <2> QED BY <1>1, <2>1, <2>2, <2>3, <2>4 DEF ThreadInv, Threading, JobTyped
<1> QED BY <1>2, <1>4, <1>5, <1>6, <1>7 DEF CouchInv, DbInv, ThreadInv

\* The invariant holds in every state, and what is said is true.
LEMMA CouchNext ==
    ASSUME CouchInv, [Next]_vars
    PROVE  /\ CouchInv'
           /\ Truthful \/ \E r \in Reviewers, s \in Segments, act \in Acts : Decide(r, s, act)
<1>1. Writes \/ UNCHANGED db
  BY DbSteps
<1>2. CASE UNCHANGED vars
  <2>1. UNCHANGED <<phone, page, undo, job, lock, db, ops>>
    BY <1>2 DEF vars, session, page
  <2>2. ThreadInv'
    BY <2>1, NoneMoves
  <2> QED BY <2>1, <2>2, BesidesInv
<1>3. CASE \E t \in Threads : Serve(t)
  BY <1>3, ServeInv
<1>4. CASE \E r \in Reviewers, s \in Segments, act \in Acts : Decide(r, s, act)
  BY <1>4, DecideKeeps
<1>5. CASE \E r \in Reviewers : Send(r) \/ PressUndo(r) \/ RequestQueue(r)
  <2>1. UNCHANGED <<phone, page, undo, db, ops>> /\ \E t \in Threads : Moves(t)
    BY <1>5, RequestMoves DEF session, page
  <2>2. ThreadInv'
    BY <2>1, OneMoves
  <2> QED BY <2>1, <2>2, BesidesInv
<1>6. CASE \/ \E r \in Reviewers, s \in Segments : Renew(r, s)
           \/ \E s \in Segments : Lapse(s) \/ Touch(s)
           \/ \E s \in Segments, act \in Verdicts : DesktopDecides(s, act)
           \/ DesktopUndoes
  <2>1. UNCHANGED <<phone, page, undo, job, lock, ops>>
    BY <1>6 DEF Renew, Lapse, Touch, DesktopDecides, DesktopUndoes, session, page
  <2>2. ThreadInv'
    BY <1>1, <2>1, NoneMoves
  <2> QED BY <1>1, <2>1, <2>2, BesidesInv
<1>7. CASE Restart
  BY <1>7, RestartInv
<1> QED BY <1>2, <1>3, <1>4, <1>5, <1>6, <1>7 DEF Next

\* At first nothing is recorded, and nobody is served.
LEMMA CouchInit == Init => CouchInv
<1> SUFFICES ASSUME Init PROVE CouchInv
  OBVIOUS
<1>1. /\ effects = <<>> /\ skips = <<>> /\ opinions = <<>> /\ ops = <<>> /\ told = <<>>
      /\ rows = [s \in Segments |-> [rev |-> 1, eff |-> 0]]
  BY DEF Init
<1>2. DOMAIN effects = {} /\ DOMAIN skips = {} /\ DOMAIN opinions = {} /\ DOMAIN ops = {}
  BY <1>1
<1>3. \A s \in Segments : rows[s] \in Rows /\ rows[s].rev = 1 /\ rows[s].eff = 0
  BY <1>1 DEF Rows
<1>4. DbTyped
  <2>1. effects \in Seq(Effects) /\ skips \in Seq(Skips) /\ opinions \in Seq(Opinions)
    BY <1>1, EmptySeq
  <2>2. rows \in [Segments -> Rows]
    BY <1>1, <1>3
  <2>3. ledger \in [Reviewers -> [Segments -> Int]]
    BY DEF Init
  <2> QED BY <2>1, <2>2, <2>3 DEF DbTyped
<1>5. PhoneTyped
  <2>1. ops \in Seq(Operations) /\ told \in Seq(SUBSET {"saved", "refused"}) /\ Len(told) = Len(ops)
    BY <1>1, EmptySeq
  <2>2. outbox \in [Reviewers -> SUBSET DOMAIN ops] /\ target \in [Reviewers -> Nat]
    BY DEF Init
  <2>3. cards \in [Reviewers -> [Segments -> Nat]]
    BY DEF Init
  <2> QED BY <2>1, <2>2, <2>3 DEF PhoneTyped
<1>6. UndoTyped
  <2>1. << >> \in Seq(DOMAIN effects)
    BY EmptySeq
  <2> QED BY <2>1 DEF Init, UndoTyped
<1>7. JobTyped /\ Threading
  <2>1. Idle \in Jobs /\ Idle.pc = "idle"
    BY DEF Jobs, Idle
  <2>2. Idle \notin DecisionJobs /\ Idle \notin ReverseJobs
    BY <2>1 DEF DecisionJobs, ReverseJobs, Canonical, InPool
  <2>3. job = [t \in Threads |-> Idle]
    BY DEF Init
  <2>4. ASSUME NEW t \in Threads PROVE Knows(t)
    <3>1. job[t].pc = "idle"
      BY <2>1, <2>3
    <3> QED BY <3>1 DEF Knows, Fork, CanonicalPath, PoolPath, Claim, Canonical, InPool
  <2> QED BY <2>1, <2>2, <2>3, <2>4 DEF Threading, JobTyped
<1>8. Revisions
  <2>1. \A r \in Reviewers, s \in Segments : cards[r][s] <= rows[s].rev
    BY <1>3 DEF Init
  <2> QED BY <1>2, <1>3, <2>1 DEF Revisions
<1>9. Receipts /\ Told /\ NoPool /\ NoVerdictReplaced /\ VerdictOnServedText
  BY <1>1, <1>2 DEF Receipts, Told, NoPool, NoVerdictReplaced, VerdictOnServedText
<1>10. Beside
  BY <1>2 DEF Beside, SecondOpinions, Effective
<1> QED BY <1>4, <1>5, <1>6, <1>7, <1>8, <1>9, <1>10 DEF CouchInv

\* CouchInv holds in every reachable state.
THEOREM CouchAlways == Spec => []CouchInv
<1>1. CouchInv /\ [Next]_vars => CouchInv'
  BY CouchNext
<1> QED BY CouchInit, <1>1, PTL DEF Spec

-----------------------------------------------------------------------------
(* The properties.                                                         *)

\* A phone's decision stands on no one else's verdict.
THEOREM VerdictsStand == Spec => []NoVerdictReplaced
<1>1. CouchInv => NoVerdictReplaced
  BY DEF CouchInv
<1> QED BY <1>1, CouchAlways, PTL

\* A verdict and an opinion are recorded for the revision their phone showed.
THEOREM VerdictsFitTheText == Spec => []VerdictOnServedText
<1>1. CouchInv => VerdictOnServedText
  BY DEF CouchInv
<1> QED BY <1>1, CouchAlways, PTL

\* The history of the pool is one that loads.
THEOREM HistoryLoads == Spec => []PoolHistoryLoads
<1>1. CouchInv => PoolHistoryLoads
  <2> SUFFICES ASSUME CouchInv PROVE PoolHistoryLoads
    OBVIOUS
  <2>1. \A o \in DOMAIN opinions : ~CanonicalReceipt(opinions[o].op)
    <3> SUFFICES ASSUME NEW o \in DOMAIN opinions PROVE ~CanonicalReceipt(opinions[o].op)
      OBVIOUS
    <3>1. opinions[o].op \in DOMAIN ops
      BY DEF CouchInv, Receipts
    <3>2. PoolReceipt(opinions[o].op)
      BY DEF PoolReceipt, OpinionsOf
    <3> QED BY <3>1, <3>2 DEF CouchInv, Receipts
  <2> QED BY <2>1 DEF CouchInv, Beside, PoolHistoryLoads
<1> QED BY <1>1, CouchAlways, PTL

\* A set with no two members counts one or nothing.
LEMMA Single ==
    ASSUME NEW ids, \A i, j \in ids : i = j
    PROVE  /\ Cardinality(ids) \in {0, 1}
           /\ ids = {} => Cardinality(ids) = 0
           /\ ids # {} => Cardinality(ids) = 1
<1>1. CASE ids = {}
  BY <1>1, FS_EmptySet
<1>2. CASE ids # {}
  <2>1. PICK i \in ids : TRUE
    BY <1>2
  <2>2. ids = {i}
    BY <2>1
  <2>3. Cardinality({i}) = 1
    BY FS_Singleton
  <2> QED BY <1>2, <2>2, <2>3
<1> QED BY <1>1, <1>2

\* An operation is recorded once at most, and once when its phone was told so.
THEOREM OperationsSavedOnce == Spec => []SavedOnce
<1>1. CouchInv => SavedOnce
  <2> SUFFICES ASSUME CouchInv, NEW op \in DOMAIN ops
               PROVE  Records(op) <= 1 /\ ("saved" \in told[op] => Records(op) = 1)
    BY DEF SavedOnce
  <2>1. /\ \A e, f \in EffectsOf(op) : e = f
        /\ \A j, k \in SkipsOf(op) : j = k
        /\ \A o, p \in OpinionsOf(op) : o = p
        /\ EffectsOf(op) = {} \/ SkipsOf(op) = {}
        /\ OpinionsOf(op) # {} => EffectsOf(op) = {} /\ SkipsOf(op) = {}
        /\ "saved" \in told[op] => EffectsOf(op) # {} \/ SkipsOf(op) # {} \/ OpinionsOf(op) # {}
    BY DEF CouchInv, Receipts, Told, PoolReceipt, CanonicalReceipt
  <2>2. PICK a, b, c : a = Cardinality(EffectsOf(op)) /\ b = Cardinality(SkipsOf(op))
                       /\ c = Cardinality(OpinionsOf(op))
    OBVIOUS
  <2>3. a \in {0, 1} /\ (EffectsOf(op) = {} => a = 0) /\ (EffectsOf(op) # {} => a = 1)
    BY <2>1, <2>2, Single
  <2>4. b \in {0, 1} /\ (SkipsOf(op) = {} => b = 0) /\ (SkipsOf(op) # {} => b = 1)
    BY <2>1, <2>2, Single
  <2>5. c \in {0, 1} /\ (OpinionsOf(op) = {} => c = 0) /\ (OpinionsOf(op) # {} => c = 1)
    BY <2>1, <2>2, Single
  <2>6. Records(op) = a + b + c
    BY <2>2 DEF Records
  <2> QED BY <2>1, <2>3, <2>4, <2>5, <2>6
<1> QED BY <1>1, CouchAlways, PTL

\* A phone is told of a refusal only while no decision is recorded for its operation.
THEOREM RefusalsAreTrue == Spec => CanonicalRefusalIsTrue
<1> DEFINE A == \A op \in DOMAIN told : "refused" \in told'[op] \ told[op] => EffectsOf(op) = {}
<1>1. CouchInv /\ [Next]_vars => [A]_vars
  <2> SUFFICES ASSUME CouchInv, [Next]_vars, NEW op \in DOMAIN told, "refused" \in told'[op] \ told[op]
               PROVE  EffectsOf(op) = {}
    OBVIOUS
  <2>1. CASE Truthful
    BY <2>1 DEF Truthful, Hears
  <2>2. ASSUME NEW r \in Reviewers, NEW s \in Segments, NEW act \in Acts, Decide(r, s, act)
        PROVE  FALSE
    <3>1. told \in Seq(SUBSET {"saved", "refused"}) /\ told' = Append(told, {})
          /\ {} \in SUBSET {"saved", "refused"}
      BY <2>2 DEF CouchInv, PhoneTyped, Decide
    <3>2. told'[op] = told[op]
      BY <3>1, Appended
    <3> QED BY <3>2
  <2> QED BY <2>1, <2>2, CouchNext
<1> QED BY <1>1, CouchAlways, PTL DEF Spec, CanonicalRefusalIsTrue

-----------------------------------------------------------------------------
(* What reviewers are paid.                                                *)

\* The reviewer's standing opinions of the clip, at most one.
Mine(r, s) == {o \in SecondOpinions(s) : opinions[o].by = r}

\* What decisions are worth depends on their acts.
LEMMA WorthSame ==
    ASSUME NEW q \in Seq(Effects), NEW D \in SUBSET DOMAIN q, NEW p, \A e \in D : p[e].act = q[e].act
    PROVE  WorthIn(D, p) = WorthIn(D, q)
<1>1. D # {} => Max(D) \in D
  BY Latest
<1> QED BY <1>1 DEF WorthIn

\* The last of them counts.
LEMMA WorthLast ==
    ASSUME NEW q \in Seq(Effects), NEW D \in SUBSET DOMAIN q, NEW n \in D, \A e \in D : e <= n
    PROVE  WorthIn(D, q) = Rates[q[n].act]
<1>1. Max(D) \in D /\ n <= Max(D)
  BY Latest
<1>2. \A e \in DOMAIN q : e \in Nat
  BY Ids
<1>3. Max(D) = n
  BY <1>1, <1>2
<1> QED BY <1>3 DEF WorthIn

\* The rate of the judgement that stands: of the opinion, else of the decisions.
Credits ==
    \A r \in Reviewers, s \in Segments :
        /\ Standing(r, s) \in SUBSET DOMAIN effects
        /\ Mine(r, s) = {} => StandingRate(r, s) = WorthIn(Standing(r, s), effects)
        /\ \A o \in Mine(r, s) : StandingRate(r, s) = Rates[opinions[o].act]

LEMMA Credit == CouchInv => Credits
<1> SUFFICES ASSUME CouchInv, NEW r \in Reviewers, NEW s \in Segments
             PROVE  /\ Standing(r, s) \in SUBSET DOMAIN effects
                    /\ Mine(r, s) = {} => StandingRate(r, s) = WorthIn(Standing(r, s), effects)
                    /\ \A o \in Mine(r, s) : StandingRate(r, s) = Rates[opinions[o].act]
  BY DEF Credits
<1>1. Standing(r, s) \in SUBSET DOMAIN effects
  BY DEF Standing, PhoneEffects
<1>2. StandingRate(r, s) = IF Mine(r, s) # {} THEN Rates[opinions[Max(Mine(r, s))].act]
                           ELSE WorthIn(Standing(r, s), effects)
  BY DEF StandingRate, Mine, Standing, WorthIn
<1>3. \A o, p \in Mine(r, s) : o = p
  BY DEF Mine, SecondOpinions, CouchInv, Beside
<1>4. Mine(r, s) # {} => Max(Mine(r, s)) \in Mine(r, s)
  <2>1. Mine(r, s) \in SUBSET DOMAIN opinions /\ opinions \in Seq(Opinions)
    BY DEF Mine, SecondOpinions, Effective, CouchInv, DbTyped
  <2> QED BY <2>1, Latest
<1> QED BY <1>1, <1>2, <1>3, <1>4

LEMMA CreditNext == CouchInv' => Credits'
  BY Credit, PTL

\* A decision is made: its entry tops up what stood before it.
LEMMA MadePay ==
    ASSUME CouchInv, CouchInv', PayInv, NEW judge \in Judges, NEW s \in Segments, NEW act \in Verdicts,
           NEW op, NEW n, Made(judge, s, act, op, n),
           judge \in Reviewers => \A o \in Effective(s) : opinions[o].by # judge
    PROVE  PayInv'
<1>1. /\ DOMAIN effects' = DOMAIN effects \cup {n} /\ n \notin DOMAIN effects /\ n \in Nat
      /\ \A e \in DOMAIN effects : effects'[e] = effects[e] /\ e < n
      /\ effects'[n].seg = s /\ effects'[n].by = judge /\ effects'[n].act = act /\ effects'[n].undone = 0
      /\ judge \in Reviewers => effects'[n].pay = Rates[act] - ledger[judge][s]
      /\ \A r \in Reviewers, x \in Segments :
           ledger'[r][x] = IF r = judge /\ x = s THEN Rates[act] ELSE ledger[r][x]
      /\ UNCHANGED opinions
  BY DEF Made
<1>2. effects \in Seq(Effects) /\ effects' \in Seq(Effects) /\ DbTyped
  BY DEF CouchInv, DbTyped
<1>3. Credits /\ Credits' /\ Entries /\ PayFollowsStandingWork
  BY Credit, CreditNext DEF PayInv
<1>4. \A r, x : Mine(r, x)' = Mine(r, x)
  BY <1>1 DEF Mine, SecondOpinions, Effective
<1>5. \A r, x : r # judge \/ x # s => Standing(r, x)' = Standing(r, x)
  BY <1>1 DEF Standing, PhoneEffects
<1>6. Standing(judge, s)' = Standing(judge, s) \cup {n}
  BY <1>1 DEF Standing, PhoneEffects
<1>7. \A D \in SUBSET DOMAIN effects : WorthIn(D, effects') = WorthIn(D, effects)
  BY <1>1, <1>2, WorthSame
<1>8. \A e \in DOMAIN effects : Before(e)' = Before(e) /\ Before(e) \in SUBSET DOMAIN effects
  BY <1>1, <1>2, Filed DEF Before, Standing, PhoneEffects
<1>9. Before(n)' = Standing(judge, s)
  BY <1>1 DEF Before, Standing, PhoneEffects
<1>10. ASSUME judge \in Reviewers
       PROVE  /\ Mine(judge, s) = {} /\ Standing(judge, s) \in SUBSET DOMAIN effects
              /\ ledger[judge][s] = WorthIn(Standing(judge, s), effects)
  <2>1. Mine(judge, s) = {}
    BY <1>10 DEF Mine, SecondOpinions
  <2> QED BY <1>3, <1>10, <2>1 DEF Credits, PayFollowsStandingWork
<1>11. Entries'
  <2>1. ASSUME NEW e \in DOMAIN effects', effects'[e].by \in Reviewers, effects'[e].undone = 0
        PROVE  Rates[effects'[e].act] - effects'[e].pay = WorthIn(Before(e)', effects')
    <3>1. CASE e \in DOMAIN effects
      BY <1>1, <1>3, <1>7, <1>8, <2>1, <3>1 DEF Entries, Worth
    <3>2. CASE e = n
      <4>1. /\ judge \in Reviewers /\ effects'[n].pay = Rates[act] - ledger[judge][s]
            /\ effects'[n].act = act
        BY <1>1, <2>1, <3>2
      <4>2. WorthIn(Before(n)', effects') = ledger[judge][s]
        BY <1>7, <1>9, <1>10, <4>1
      <4>3. ledger[judge][s] \in Int /\ Rates[act] \in Int
        BY <1>2, <4>1, RatesTyped DEF DbTyped
      <4> QED BY <3>2, <4>1, <4>2, <4>3
    <3> QED BY <1>1, <2>1, <3>1, <3>2
  <2>2. ASSUME NEW o \in DOMAIN opinions, ~opinions[o].undone, opinions[o].act # "skip"
        PROVE  WorthIn(Standing(opinions[o].by, opinions[o].seg)', effects')
                 = Worth(Standing(opinions[o].by, opinions[o].seg))
    <3>1. opinions[o].by \in Reviewers /\ opinions[o].seg \in Segments
      BY <1>2, Filed DEF Opinions
    <3>2. o \in Mine(opinions[o].by, opinions[o].seg)
      BY <2>2 DEF Mine, SecondOpinions, Effective
    <3>3. opinions[o].by # judge \/ opinions[o].seg # s
      BY <1>10, <3>1, <3>2
    <3>4. Standing(opinions[o].by, opinions[o].seg) \in SUBSET DOMAIN effects
      BY <1>3, <3>1 DEF Credits
    <3> QED BY <1>1, <1>5, <1>7, <3>3, <3>4 DEF Worth
  <2> QED BY <1>1, <1>3, <2>1, <2>2 DEF Entries, Worth
<1>12. PayFollowsStandingWork'
  <2> SUFFICES ASSUME NEW r \in Reviewers, NEW x \in Segments PROVE ledger'[r][x] = StandingRate(r, x)'
    BY DEF PayFollowsStandingWork
  <2>1. CASE r = judge /\ x = s
    <3>1. StandingRate(r, x)' = WorthIn(Standing(r, x)', effects')
      BY <1>3, <1>4, <1>10, <2>1 DEF Credits
    <3>2. WorthIn(Standing(r, x)', effects') = Rates[effects'[n].act]
      <4>1. PICK D : D = Standing(judge, s) \cup {n}
        OBVIOUS
      <4>2. D \in SUBSET DOMAIN effects' /\ n \in D /\ \A e \in D : e <= n
        BY <1>1, <1>10, <2>1, <4>1, <1>2, Filed
      <4>3. WorthIn(D, effects') = Rates[effects'[n].act]
        BY <1>2, <4>2, WorthLast
      <4> QED BY <1>6, <2>1, <4>1, <4>3
    <3> QED BY <1>1, <2>1, <3>1, <3>2
  <2>2. CASE r # judge \/ x # s
    <3>1. ledger'[r][x] = ledger[r][x] /\ ledger[r][x] = StandingRate(r, x)
      BY <1>1, <1>3, <2>2 DEF PayFollowsStandingWork
    <3>2. CASE Mine(r, x) = {}
      BY <1>3, <1>4, <1>5, <1>7, <2>2, <3>1, <3>2 DEF Credits
    <3>3. ASSUME NEW o \in Mine(r, x) PROVE StandingRate(r, x)' = StandingRate(r, x)
      <4>1. StandingRate(r, x) = Rates[opinions[o].act]
        BY <1>3, <3>3 DEF Credits
      <4>2. o \in Mine(r, x)'
        BY <1>4, <3>3
      <4>3. StandingRate(r, x)' = Rates[opinions'[o].act]
        BY <1>3, <4>2 DEF Credits
      <4> QED BY <1>1, <4>1, <4>3
    <3> QED BY <3>1, <3>2, <3>3
  <2> QED BY <2>1, <2>2
<1> QED BY <1>11, <1>12 DEF PayInv

\* A decision that nothing was built on is taken back: its entry goes, and what
\* stood before it counts again.
LEMMA ReversedPay ==
    ASSUME CouchInv, CouchInv', PayInv, NEW e, TakesBackLast(e)
    PROVE  PayInv'
<1> SUFFICES ASSUME NEW s, s = effects[e].seg, NEW by, by = effects[e].by PROVE PayInv'
  OBVIOUS
<1>1. /\ e \in DOMAIN effects /\ effects[e].undone = 0 /\ ~BuiltUpon(e) /\ Reversed(e, s, by)
  BY DEF TakesBackLast
<1>2. /\ s \in Segments /\ by \in Judges /\ DOMAIN effects' = DOMAIN effects
      /\ \A f \in DOMAIN effects : f # e => effects'[f] = effects[f]
      /\ effects'[e].seg = s /\ effects'[e].by = by /\ effects'[e].act = effects[e].act
      /\ effects'[e].undone # 0
      /\ \A r \in Reviewers, x \in Segments :
           ledger'[r][x] = IF r = by /\ x = s THEN ledger[r][x] - effects[e].pay ELSE ledger[r][x]
      /\ UNCHANGED opinions
  BY <1>1 DEF Reversed
<1>3. /\ effects \in Seq(Effects) /\ DbTyped /\ Revisions
      /\ Credits /\ Credits' /\ Entries /\ PayFollowsStandingWork
  BY Credit, CreditNext DEF PayInv, CouchInv, DbTyped
<1>4. /\ SecondOpinions(s) = {}
      /\ \A f \in DOMAIN effects : effects[f].seg = s => ~(effects[f].rev > effects[e].rev)
  BY <1>1 DEF BuiltUpon
<1>5. \A f \in DOMAIN effects : effects[f].seg = s => f <= e
  <2> SUFFICES ASSUME NEW f \in DOMAIN effects, effects[f].seg = s, ~(f <= e) PROVE FALSE
    OBVIOUS
  <2>1. f \in Nat /\ e \in Nat /\ effects[f].rev \in Nat /\ effects[e].rev \in Nat
    BY <1>1, <1>3, Filed DEF Effects
  <2>2. effects[e].rev < effects[f].rev
    BY <1>1, <1>3, <2>1 DEF Revisions
  <2> QED BY <1>4, <2>1, <2>2
<1>6. \A r, x : Mine(r, x)' = Mine(r, x)
  BY <1>2 DEF Mine, SecondOpinions, Effective
<1>7. \A r, x : r # by \/ x # s => Standing(r, x)' = Standing(r, x)
  BY <1>1, <1>2 DEF Standing, PhoneEffects
<1>8. Standing(by, s)' = Before(e)
  <2>1. \A f \in DOMAIN effects : f \in Nat
    BY <1>3, Filed
  <2>2. \A f \in DOMAIN effects : effects[f].seg = s => (f < e <=> f # e)
    BY <1>1, <1>5, <2>1
  <2> QED BY <1>1, <1>2, <2>2 DEF Standing, PhoneEffects, Before
<1>9. \A D \in SUBSET DOMAIN effects : WorthIn(D, effects') = WorthIn(D, effects)
  <2>1. \A f \in DOMAIN effects : effects'[f].act = effects[f].act
    BY <1>2
  <2> QED BY <1>3, <2>1, WorthSame
<1>10. \A f \in DOMAIN effects : f # e => Before(f)' = Before(f) /\ Before(f) \in SUBSET DOMAIN effects
  <2> SUFFICES ASSUME NEW f \in DOMAIN effects, f # e
               PROVE  Before(f)' = Before(f) /\ Before(f) \in SUBSET DOMAIN effects
    OBVIOUS
  <2>1. f \in Nat /\ e \in Nat /\ effects'[f] = effects[f]
    BY <1>1, <1>2, <1>3, Filed
  <2>2. effects[f].seg = s => ~(e < f)
    BY <1>5, <2>1
  <2> QED BY <1>1, <1>2, <2>1, <2>2 DEF Before, Standing, PhoneEffects
<1>11. Entries'
  <2>1. ASSUME NEW f \in DOMAIN effects', effects'[f].by \in Reviewers, effects'[f].undone = 0
        PROVE  Rates[effects'[f].act] - effects'[f].pay = WorthIn(Before(f)', effects')
    BY <1>2, <1>3, <1>9, <1>10, <2>1 DEF Entries, Worth
  <2>2. ASSUME NEW o \in DOMAIN opinions, ~opinions[o].undone, opinions[o].act # "skip"
        PROVE  WorthIn(Standing(opinions[o].by, opinions[o].seg)', effects')
                 = Worth(Standing(opinions[o].by, opinions[o].seg))
    <3>1. opinions[o].by \in Reviewers /\ opinions[o].seg \in Segments
      BY <1>3, Filed DEF Opinions
    <3>2. opinions[o].seg # s
      BY <1>4, <2>2 DEF SecondOpinions, Effective
    <3>3. Standing(opinions[o].by, opinions[o].seg) \in SUBSET DOMAIN effects
      BY <1>3, <3>1 DEF Credits
    <3> QED BY <1>2, <1>7, <1>9, <3>2, <3>3 DEF Worth
  <2> QED BY <1>2, <1>3, <2>1, <2>2 DEF Entries, Worth
<1>12. PayFollowsStandingWork'
  <2> SUFFICES ASSUME NEW r \in Reviewers, NEW x \in Segments PROVE ledger'[r][x] = StandingRate(r, x)'
    BY DEF PayFollowsStandingWork
  <2>1. ledger[r][x] = StandingRate(r, x) /\ Standing(r, x) \in SUBSET DOMAIN effects
    BY <1>3 DEF PayFollowsStandingWork, Credits
  <2>2. CASE r = by /\ x = s
    <3>1. Mine(r, x) = {}
      BY <1>4, <2>2 DEF Mine
    <3>2. /\ StandingRate(r, x) = WorthIn(Standing(r, x), effects)
          /\ StandingRate(r, x)' = WorthIn(Standing(r, x)', effects')
      BY <1>3, <1>6, <3>1 DEF Credits
    <3>3. WorthIn(Standing(r, x), effects) = Rates[effects[e].act]
      <4>1. e \in Standing(r, x) /\ \A f \in Standing(r, x) : f <= e
        BY <1>1, <1>5, <2>2 DEF Standing, PhoneEffects
      <4> QED BY <1>3, <2>1, <4>1, WorthLast
    <3>4. Rates[effects[e].act] - effects[e].pay = WorthIn(Before(e), effects)
      BY <1>1, <1>3, <2>2 DEF Entries, Worth
    <3>5. Before(e) \in SUBSET DOMAIN effects
      BY DEF Before, Standing, PhoneEffects
    <3>6. WorthIn(Standing(r, x)', effects') = WorthIn(Before(e), effects)
      BY <1>8, <1>9, <2>2, <3>5
    <3> QED BY <1>2, <2>1, <2>2, <3>2, <3>3, <3>4, <3>6
  <2>3. CASE r # by \/ x # s
    <3>1. ledger'[r][x] = ledger[r][x]
      BY <1>2, <2>3
    <3>2. CASE Mine(r, x) = {}
      BY <1>3, <1>6, <1>7, <1>9, <2>1, <2>3, <3>1, <3>2 DEF Credits
    <3>3. ASSUME NEW o \in Mine(r, x) PROVE StandingRate(r, x)' = StandingRate(r, x)
      <4>1. StandingRate(r, x) = Rates[opinions[o].act]
        BY <1>3, <3>3 DEF Credits
      <4>2. o \in Mine(r, x)'
        BY <1>6, <3>3
      <4>3. StandingRate(r, x)' = Rates[opinions'[o].act]
        BY <1>3, <4>2 DEF Credits
      <4> QED BY <1>2, <4>1, <4>3
    <3> QED BY <2>1, <3>1, <3>2, <3>3
  <2> QED BY <2>2, <2>3
<1> QED BY <1>11, <1>12 DEF PayInv

\* While the effects are left alone, so is what decisions are worth.
LEMMA WorthKept ==
    ASSUME UNCHANGED effects
    PROVE  /\ \A r, x : Standing(r, x)' = Standing(r, x)
           /\ \A e : Before(e)' = Before(e)
  BY DEF Standing, PhoneEffects, Before

\* An opinion is given: its entry tops up what the reviewer's decisions are worth.
LEMMA GivenPay ==
    ASSUME CouchInv, CouchInv', PayInv, NEW op, NEW n, GivesOpinion(op, n)
    PROVE  PayInv'
<1> SUFFICES ASSUME NEW s, s = ops[op].seg, NEW r, r = ops[op].by, NEW act, act = ops[op].act PROVE PayInv'
  OBVIOUS
<1>1. /\ op \in DOMAIN ops /\ Given(op, r, s, n) /\ r \notin Seen(s)
  BY DEF GivesOpinion, Unrecorded
<1>2. /\ r \in Reviewers /\ s \in Segments /\ DOMAIN opinions' = DOMAIN opinions \cup {n}
      /\ n \notin DOMAIN opinions
      /\ \A o \in DOMAIN opinions : opinions'[o] = opinions[o]
      /\ opinions'[n].seg = s /\ opinions'[n].by = r /\ opinions'[n].act = act /\ opinions'[n].undone = FALSE
      /\ opinions'[n].pay = IF act = "skip" THEN 0 ELSE Rates[act] - ledger[r][s]
      /\ \A q \in Reviewers, x \in Segments :
           ledger'[q][x] = IF q = r /\ x = s /\ act # "skip" THEN Rates[act] ELSE ledger[q][x]
      /\ UNCHANGED effects
  BY <1>1 DEF Given
<1>3. /\ DbTyped /\ PhoneTyped /\ Credits /\ Credits' /\ Entries /\ PayFollowsStandingWork
  BY Credit, CreditNext DEF PayInv, CouchInv
<1>4. Mine(r, s) = {}
  BY <1>1 DEF Mine, SecondOpinions, Seen
<1>5. ledger[r][s] = WorthIn(Standing(r, s), effects)
  BY <1>2, <1>3, <1>4 DEF Credits, PayFollowsStandingWork
<1>6. Entries'
  <2>1. ASSUME NEW e \in DOMAIN effects, effects[e].by \in Reviewers, effects[e].undone = 0
        PROVE  Rates[effects[e].act] - effects[e].pay = WorthIn(Before(e)', effects')
    BY <1>2, <1>3, <2>1, WorthKept DEF Entries, Worth
  <2>2. ASSUME NEW o \in DOMAIN opinions', ~opinions'[o].undone,
               NEW q, q = opinions'[o].by, NEW x, x = opinions'[o].seg
        PROVE  IF opinions'[o].act = "skip" THEN opinions'[o].pay = 0
               ELSE Rates[opinions'[o].act] - opinions'[o].pay = WorthIn(Standing(q, x)', effects')
    <3>1. CASE o \in DOMAIN opinions
      BY <1>2, <1>3, <2>2, <3>1, WorthKept DEF Entries, Worth
    <3>2. CASE o = n /\ act = "skip"
      BY <1>2, <3>2
    <3>3. CASE o = n /\ act # "skip"
      <4>1. Standing(q, x)' = Standing(r, s)
        BY <1>2, <2>2, <3>3, WorthKept
      <4>2. Rates[act] \in Int /\ ledger[r][s] \in Int
        <5>1. act \in Verdicts
          BY <1>1, <1>3, <3>3, OpTyped DEF Verdicts
        <5> QED BY <1>2, <1>3, <5>1, RatesTyped DEF DbTyped
      <4> QED BY <1>2, <1>5, <3>3, <4>1, <4>2
    <3> QED BY <1>2, <2>2, <3>1, <3>2, <3>3
  <2> QED BY <1>2, <2>1, <2>2 DEF Entries, Worth
<1>7. PayFollowsStandingWork'
  <2> SUFFICES ASSUME NEW q \in Reviewers, NEW x \in Segments PROVE ledger'[q][x] = StandingRate(q, x)'
    BY DEF PayFollowsStandingWork
  <2>1. ledger[q][x] = StandingRate(q, x)
    BY <1>3 DEF PayFollowsStandingWork
  <2>2. CASE q = r /\ x = s /\ act # "skip"
    <3>1. n \in Mine(q, x)'
      BY <1>2, <2>2 DEF Mine, SecondOpinions, Effective
    <3>2. StandingRate(q, x)' = Rates[opinions'[n].act]
      BY <1>3, <3>1 DEF Credits
    <3> QED BY <1>2, <2>2, <3>2
  <2>3. CASE ~(q = r /\ x = s /\ act # "skip")
    <3>1. ledger'[q][x] = ledger[q][x]
      BY <1>2, <2>3
    <3>2. Mine(q, x)' = Mine(q, x)
      BY <1>2, <2>3 DEF Mine, SecondOpinions, Effective
    <3>3. CASE Mine(q, x) = {}
      BY <1>2, <1>3, <2>1, <3>1, <3>2, <3>3, WorthKept DEF Credits
    <3>4. ASSUME NEW o \in Mine(q, x) PROVE StandingRate(q, x)' = StandingRate(q, x)
      <4>1. StandingRate(q, x) = Rates[opinions[o].act] /\ o \in DOMAIN opinions
        BY <1>3, <3>4 DEF Credits, Mine, SecondOpinions, Effective
      <4>2. o \in Mine(q, x)'
        BY <3>2, <3>4
      <4>3. StandingRate(q, x)' = Rates[opinions'[o].act]
        BY <1>3, <4>2 DEF Credits
      <4> QED BY <1>2, <4>1, <4>3
    <3> QED BY <2>1, <3>1, <3>3, <3>4
  <2> QED BY <2>2, <2>3
<1> QED BY <1>6, <1>7 DEF PayInv

\* An opinion is withdrawn: its entry goes the first time, and the reviewer's
\* decisions count again.
LEMMA WithdrawnPay ==
    ASSUME CouchInv, CouchInv', PayInv, NEW o, Withdraws(o)
    PROVE  PayInv'
<1> SUFFICES ASSUME NEW s, s = opinions[o].seg, NEW r, r = opinions[o].by PROVE PayInv'
  OBVIOUS
<1>1. o \in DOMAIN opinions /\ Withdrawn(o, r, s)
  BY DEF Withdraws
<1>2. /\ r \in Reviewers /\ s \in Segments /\ DOMAIN opinions' = DOMAIN opinions
      /\ \A p \in DOMAIN opinions : p # o => opinions'[p] = opinions[p]
      /\ opinions'[o].undone = TRUE
      /\ \A q \in Reviewers, x \in Segments :
           ledger'[q][x] = IF q = r /\ x = s /\ ~opinions[o].undone
                           THEN ledger[q][x] - opinions[o].pay ELSE ledger[q][x]
      /\ UNCHANGED effects
  BY <1>1 DEF Withdrawn
<1>3. /\ DbTyped /\ Beside /\ Credits /\ Credits' /\ Entries /\ PayFollowsStandingWork
  BY Credit, CreditNext DEF PayInv, CouchInv
<1>4. Entries'
  <2>1. ASSUME NEW e \in DOMAIN effects, effects[e].by \in Reviewers, effects[e].undone = 0
        PROVE  Rates[effects[e].act] - effects[e].pay = WorthIn(Before(e)', effects')
    BY <1>2, <1>3, <2>1, WorthKept DEF Entries, Worth
  <2>2. ASSUME NEW p \in DOMAIN opinions', ~opinions'[p].undone,
               NEW q, q = opinions'[p].by, NEW x, x = opinions'[p].seg
        PROVE  IF opinions'[p].act = "skip" THEN opinions'[p].pay = 0
               ELSE Rates[opinions'[p].act] - opinions'[p].pay = WorthIn(Standing(q, x)', effects')
    BY <1>2, <1>3, <2>2, WorthKept DEF Entries, Worth
  <2> QED BY <1>2, <2>1, <2>2 DEF Entries, Worth
<1>5. PayFollowsStandingWork'
  <2> SUFFICES ASSUME NEW q \in Reviewers, NEW x \in Segments PROVE ledger'[q][x] = StandingRate(q, x)'
    BY DEF PayFollowsStandingWork
  <2>1. ledger[q][x] = StandingRate(q, x) /\ ledger[q][x] \in Int
    BY <1>3 DEF PayFollowsStandingWork, DbTyped
  <2>2. CASE o \in Mine(q, x)
    <3>1. q = r /\ x = s /\ ~opinions[o].undone /\ opinions[o].act # "skip"
      BY <2>2 DEF Mine, SecondOpinions, Effective
    <3>2. \A p \in Mine(q, x) : p = o
      BY <1>3, <2>2 DEF Mine, SecondOpinions, Beside
    <3>3. Mine(q, x)' = {}
      BY <1>2, <3>2 DEF Mine, SecondOpinions, Effective
    <3>4. StandingRate(q, x) = Rates[opinions[o].act]
      BY <1>3, <2>2 DEF Credits
    <3>5. Rates[opinions[o].act] - opinions[o].pay = WorthIn(Standing(r, s), effects)
      BY <1>1, <1>3, <3>1 DEF Entries, Worth
    <3>6. StandingRate(q, x)' = WorthIn(Standing(r, s), effects)
      BY <1>2, <1>3, <3>1, <3>3, WorthKept DEF Credits
    <3> QED BY <1>2, <2>1, <3>1, <3>4, <3>5, <3>6
  <2>3. CASE o \notin Mine(q, x)
    <3>1. ledger'[q][x] = ledger[q][x]
      <4>1. CASE q = r /\ x = s /\ ~opinions[o].undone
        <5>1. opinions[o].act = "skip"
          BY <1>1, <2>3, <4>1 DEF Mine, SecondOpinions, Effective
        <5>2. opinions[o].pay = 0
          BY <1>1, <1>3, <4>1, <5>1 DEF Entries
        <5> QED BY <1>2, <2>1, <4>1, <5>2
      <4>2. CASE ~(q = r /\ x = s /\ ~opinions[o].undone)
        BY <1>2, <4>2
      <4> QED BY <4>1, <4>2
    <3>2. Mine(q, x)' = Mine(q, x)
      BY <1>2, <2>3 DEF Mine, SecondOpinions, Effective
    <3>3. CASE Mine(q, x) = {}
      BY <1>2, <1>3, <2>1, <3>1, <3>2, <3>3, WorthKept DEF Credits
    <3>4. ASSUME NEW p \in Mine(q, x) PROVE StandingRate(q, x)' = StandingRate(q, x)
      <4>1. StandingRate(q, x) = Rates[opinions[p].act] /\ p \in DOMAIN opinions /\ p # o
        BY <1>3, <2>3, <3>4 DEF Credits, Mine, SecondOpinions, Effective
      <4>2. p \in Mine(q, x)'
        BY <3>2, <3>4
      <4>3. StandingRate(q, x)' = Rates[opinions'[p].act]
        BY <1>3, <4>2 DEF Credits
      <4> QED BY <1>2, <4>1, <4>3
    <3> QED BY <2>1, <3>1, <3>3, <3>4
  <2> QED BY <2>2, <2>3
<1> QED BY <1>4, <1>5 DEF PayInv

\* Nothing is judged, undone or paid.
LEMMA UnpaidPay ==
    ASSUME PayInv, UNCHANGED <<effects, opinions, ledger>>
    PROVE  PayInv'
<1>1. Entries'
  BY WorthKept DEF PayInv, Entries, Worth
<1>2. \A r, s : StandingRate(r, s)' = StandingRate(r, s)
  <2> SUFFICES ASSUME NEW r, NEW s PROVE StandingRate(r, s)' = StandingRate(r, s)
    OBVIOUS
  <2>1. Mine(r, s)' = Mine(r, s) /\ Standing(r, s)' = Standing(r, s)
    BY DEF Mine, SecondOpinions, Effective, Standing, PhoneEffects
  <2>2. StandingRate(r, s) = IF Mine(r, s) # {} THEN Rates[opinions[Max(Mine(r, s))].act]
                             ELSE WorthIn(Standing(r, s), effects)
    BY DEF StandingRate, Mine, Standing, WorthIn
  <2>3. StandingRate(r, s)' = IF Mine(r, s)' # {} THEN Rates[opinions'[Max(Mine(r, s)')].act]
                              ELSE WorthIn(Standing(r, s)', effects')
    BY DEF StandingRate, Mine, Standing, WorthIn
  <2> QED BY <2>1, <2>2, <2>3
<1>3. PayFollowsStandingWork'
  BY <1>2 DEF PayInv, PayFollowsStandingWork
<1> QED BY <1>1, <1>3 DEF PayInv

\* Every step keeps the books.
LEMMA PayNext ==
    ASSUME CouchInv, CouchInv', PayInv, [Next]_vars
    PROVE  PayInv'
<1>1. Changes \/ UNCHANGED db
  BY DbSteps, WritesChange
<1>2. DbTyped /\ PhoneTyped
  BY DEF CouchInv
<1>3. ASSUME NEW op, NEW n, PhoneDecides(op, n) PROVE PayInv'
  <2>1. op \in DOMAIN ops /\ ops[op].act \in Verdicts
        /\ Made(ops[op].by, ops[op].seg, ops[op].act, op, n)
        /\ \A o \in Effective(ops[op].seg) : opinions[o].by # ops[op].by
    BY <1>3 DEF PhoneDecides, Unrecorded
  <2>2. ops[op].by \in Judges /\ ops[op].seg \in Segments
    BY <1>2, <2>1, OpTyped DEF Judges
  <2> QED BY <2>1, <2>2, MadePay
<1>4. ASSUME NEW s \in Segments, NEW act \in Verdicts, NEW n, OwnerDecides(s, act, n) PROVE PayInv'
  <2>1. Desktop \in Judges /\ Desktop \notin Reviewers
    <3>1. Desktop \notin Reviewers
      BY CouchAssumption, Zenon
    <3> QED BY <3>1 DEF Judges
  <2> QED BY <1>4, <2>1, MadePay DEF OwnerDecides
<1>5. CASE (\E op, n : SkipFiled(op, n)) \/ (\E s \in Segments : Touched(s)) \/ UNCHANGED db
  <2>1. UNCHANGED <<effects, opinions, ledger>>
    BY <1>5 DEF SkipFiled, Touched, db
  <2> QED BY <2>1, UnpaidPay
<1> QED BY <1>1, <1>3, <1>4, <1>5, ReversedPay, GivenPay, WithdrawnPay DEF Changes

\* At first nobody is owed anything.
LEMMA PayInit == Init => PayInv
<1> SUFFICES ASSUME Init PROVE PayInv
  OBVIOUS
<1>1. effects = <<>> /\ opinions = <<>> /\ ledger = [r \in Reviewers |-> [s \in Segments |-> 0]]
  BY DEF Init
<1>2. DOMAIN effects = {} /\ DOMAIN opinions = {}
  BY <1>1
<1>3. Entries
  BY <1>2 DEF Entries
<1>4. \A r, s : StandingRate(r, s) = 0
  BY <1>2 DEF StandingRate, SecondOpinions, Effective, PhoneEffects
<1> QED BY <1>1, <1>3, <1>4 DEF PayInv, PayFollowsStandingWork

\* A reviewer's credit for a clip is the rate of the judgement of theirs that
\* stands, after every decision, undo, opinion and withdrawal.
THEOREM PayFollows == Spec => []PayFollowsStandingWork
<1>1. CouchInv /\ CouchInv' /\ PayInv /\ [Next]_vars => PayInv'
  BY PayNext
<1>2. PayInv => PayFollowsStandingWork
  BY DEF PayInv
<1> QED BY <1>1, <1>2, PayInit, CouchAlways, PTL DEF Spec
=============================================================================
