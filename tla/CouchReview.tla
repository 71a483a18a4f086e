---------------------------- MODULE CouchReview ----------------------------
(***************************************************************************)
(* Couch Review: reviewers judge clips on their phones.  A phone keeps     *)
(* every decision in a durable outbox until the server answers it          *)
(* (assets/couch.html).  The server's threads (couch/decisions.rs,         *)
(* couch/queue_audio.rs, couch/routing.rs) share an in-memory session of   *)
(* leases, served clips and undo tokens, and commit to the database, each  *)
(* commit one transaction (db/finalization.rs, db/decisions.rs,            *)
(* db/review.rs, review_pool.rs): the first judgement of a clip becomes    *)
(* its canonical decision, in a review pool the later ones are opinions    *)
(* beside it.  Each is paid, and each can be undone.                       *)
(*                                                                         *)
(* A verdict is an act: two acts are equal when their texts are.  Playback *)
(* evidence, hidden checks, pilots, campaigns, redo and reopened rounds,   *)
(* trusted reviewers and duplicate families are left out: every clip is    *)
(* in the pool, every card has been listened to.                           *)
(***************************************************************************)
EXTENDS Integers, Sequences, FiniteSets, FiniteSetsExt, SequencesExt

CONSTANTS
    Reviewers,      \* the named phone reviewers
    Segments,       \* the clips, at most one queue batch of them
    Threads,        \* the accept threads of the server
    Acts,           \* what a reviewer may do with a clip
    Pool,           \* is the session bound to a review pool?
    UndoDepth,      \* UNDO_DEPTH
    Desktop,        \* the judge of a decision without a reviewer
    NoOne,          \* no holder
    Bound           \* how often each kind of event below may happen

\* Decisions on phones and at the desktop, presses of Undo, loads of a page,
\* revisions by other writers, replies lost or writes failed, restarts
Events == {"decide", "desktop", "undo", "load", "touch", "fault", "restart"}

\* What a judgement is worth, in hundredths of the full rate
Rates == [accept |-> 10, edit |-> 100]

ASSUME CouchAssumption ==
    /\ Desktop \notin Reviewers
    /\ NoOne \notin Reviewers \cup Threads
    /\ Acts \subseteq DOMAIN Rates \cup {"skip"}
    /\ Pool \in BOOLEAN
    /\ UndoDepth \in Nat \ {0}
    /\ Bound \in [Events -> Nat]

VARIABLES
    rows,       \* each clip: its revision and its standing decision, or 0
    effects,    \* human_decision_effect_events, with their reversals
    skips,      \* the skips among review_events
    opinions,   \* review_pool_decisions, with their reversals
    ledger,     \* what a reviewer has been credited for a clip
    leases,     \* CouchState.leases: the live holder of a clip
    served,     \* CouchState.served_work
    inflight,   \* CouchState.in_flight_operations
    undo,       \* CouchState.undo: each reviewer's stack of effect ids
    token,      \* has the reviewer a CouchState.pool_undo entry?
    lock,       \* who holds the canonical commit guard
    job,        \* the request each thread is serving
    ops,        \* the operations submitted, by operation id
    outbox,     \* each phone's outbox: a younger operation has a larger id
    cards,      \* the revision of the clip each phone shows, or 0
    target,     \* the opinion each phone would address in an undo, or 0
    told,       \* what a phone has been told of an operation
    left        \* what is left of Bound

db == <<rows, effects, skips, opinions, ledger>>
session == <<leases, served, inflight, undo, token>>
phone == <<outbox, target, told>>
page == <<ops, cards>>
vars == <<db, session, lock, job, phone, page, left>>

Spend(event) ==
    /\ left[event] > 0
    /\ left' = [left EXCEPT ![event] = @ - 1]

Idle == [pc |-> "idle"]
Verdicts == Acts \ {"skip"}
-----------------------------------------------------------------------------
(* The database as its readers see it.                                     *)

Verified(s) == rows[s].eff # 0

\* reviewed_by, the desktop owner when it is null
JudgeOf(s) == effects[rows[s].eff].by

\* effective_review_pool_decisions_v62
Effective(s) ==
    {o \in DOMAIN opinions : opinions[o].seg = s /\ ~opinions[o].undone}

SecondOpinions(s) == {o \in Effective(s) : opinions[o].act # "skip"}

\* Whose judgement or skip of the clip stands (SegmentReviewers.seen)
Seen(s) ==
    {JudgeOf(x) : x \in {y \in {s} : Verified(y)}}
        \cup {opinions[o].by : o \in Effective(s)}

Judgements(s) ==
    {<<JudgeOf(x), effects[rows[x].eff].act>> : x \in {y \in {s} : Verified(y)}}
        \cup {<<opinions[o].by, opinions[o].act>> : o \in SecondOpinions(s)}

\* derive_resolution: two judges of one mind, or three of as many minds
Resolved(s) == \E j, k \in Judgements(s) : j[1] # k[1] /\ j[2] = k[2]
OwnerConflict(s) == ~Resolved(s) /\ Cardinality(Judgements(s)) >= 3
Decidable(s) == ~Resolved(s) /\ ~OwnerConflict(s)

EffectsOf(op) == {e \in DOMAIN effects : effects[e].op = op}
SkipsOf(op) == {k \in DOMAIN skips : skips[k].op = op}
OpinionsOf(op) == {o \in DOMAIN opinions : opinions[o].op = op}

\* review_operation: the operation's event, of a decision or of a skip
CanonicalReceipt(op) == EffectsOf(op) # {} \/ SkipsOf(op) # {}
PoolReceipt(op) == OpinionsOf(op) # {}

Skipped(r, s) == \E k \in DOMAIN skips : skips[k].by = r /\ skips[k].seg = s

\* The timestamps of events, in the order of their commits
Stamp == Len(effects) + Len(skips) + Len(opinions) + 1

\* The ids of the reviewer's decisions, reversed ones included
PhoneEffects(r) == {e \in DOMAIN effects : effects[e].by = r}
PoolDecisions(r) == {o \in DOMAIN opinions : opinions[o].by = r}
LatestOf(ids) == IF ids = {} THEN 0 ELSE Max(ids)

\* A mutant: an entry of the full rate.
EntryInFull(r, s, act) == Rates[act]

\* append_review_compensation_entry_tx: the entry brings the balance of the
\* reviewer's work on the clip to what the judgement is worth.
EntryDelta(r, s, act) == Rates[act] - ledger[r][s]

\* The reviewer's last entry for the clip that has a review event and is not
\* reversed is the one of the effect e: a skip after it is a newer entry.
OwnsEntitlement(e) ==
    ~\E k \in DOMAIN skips :
        /\ skips[k].by = effects[e].by
        /\ skips[k].seg = effects[e].seg
        /\ skips[k].at > effects[e].at

\* The same of an opinion, the first time it is reversed; a skip made no entry.
OpinionOwnsEntitlement(o) ==
    LET later(x) == x.by = opinions[o].by /\ x.seg = opinions[o].seg /\ x.at > opinions[o].at
    IN  \/ opinions[o].undone
        \/ opinions[o].act = "skip"
        \/ /\ ~\E k \in DOMAIN skips : later(skips[k])
           /\ ~\E e \in DOMAIN effects : effects[e].undone = 0 /\ later(effects[e])
-----------------------------------------------------------------------------
(* The session, under CouchState's mutex.                                  *)

HeldByOther(r, s) == leases[s] \notin {NoOne, r}

\* forget_work_audio_assignment, and what a skip does
Forget(r, s) ==
    /\ leases' = [leases EXCEPT ![s] = IF @ = r THEN NoOne ELSE @]
    /\ served' = served \ {<<s, r>>}

\* Its undo stack when a decision is remembered: pushed unless it is there,
\* the oldest dropped at the limit.
Pushed(stack, e) ==
    LET grown == IF e \in ToSet(stack) THEN stack ELSE Append(stack, e)
        over == Max({0, Len(grown) - UndoDepth})
    IN  SubSeq(grown, over + 1, Len(grown))

\* remember_phone_undo
RememberPhoneUndo(r, e) ==
    /\ undo' = [undo EXCEPT ![r] = Pushed(@, e)]
    /\ token' = [token EXCEPT ![r] = FALSE]

\* remember_pool_undo
RememberPoolUndo(r) ==
    /\ undo' = [undo EXCEPT ![r] = <<>>]
    /\ token' = [token EXCEPT ![r] = TRUE]

\* retain_phone_undo_token: back at its place, unless it is there
Retained(stack, index, e) ==
    IF e \in ToSet(stack) THEN stack
    ELSE InsertAt(stack, Min({index, Len(stack)}) + 1, e)
-----------------------------------------------------------------------------
(* The answer of a thread, and the phone that hears it or does not.        *)

\* A 200: the phone retires the operation, and keeps the opinion it may
\* address in an undo; a canonical decision takes the undo button over.
Saves(op, opinion) ==
    LET r == ops[op].by
    IN  \/ /\ outbox' = [outbox EXCEPT ![r] = @ \ {op}]
           /\ told' = [told EXCEPT ![op] = @ \cup {"saved"}]
           /\ target' = [target EXCEPT ![r] =
                IF opinion # 0 THEN opinion
                ELSE IF ops[op].act = "skip" THEN @ ELSE 0]
           /\ UNCHANGED left
        \/ Spend("fault") /\ UNCHANGED phone

\* A 409: the phone retires the operation too.
Refuses(op) ==
    LET r == ops[op].by
    IN  \/ /\ outbox' = [outbox EXCEPT ![r] = @ \ {op}]
           /\ told' = [told EXCEPT ![op] = @ \cup {"refused"}]
           /\ UNCHANGED <<target, left>>
        \/ Spend("fault") /\ UNCHANGED phone

\* A 500 or a 503: the phone holds the operation and stops the flush.
Holds == UNCHANGED <<phone, left>>

Done(t) == job' = [job EXCEPT ![t] = Idle]
At(t, pc) == job[t].pc = pc
Goto(t, pc) == job' = [job EXCEPT ![t].pc = pc]
Unlock(t) == lock' = IF lock = t THEN NoOne ELSE lock

Refused(t, op) ==
    /\ Refuses(op)
    /\ Done(t)
    /\ Unlock(t)
    /\ UNCHANGED <<db, session, page>>

Held(t) ==
    /\ Holds
    /\ Done(t)
    /\ Unlock(t)
    /\ UNCHANGED <<db, session, page>>

\* canonical_operation_replay_reply: the receipt is the answer
ReplaysCanonical(t, op) ==
    /\ CanonicalReceipt(op)
    /\ IF EffectsOf(op) = {} THEN UNCHANGED <<undo, token>>
       ELSE RememberPhoneUndo(ops[op].by, Max(EffectsOf(op)))
    /\ Saves(op, 0)
    /\ Done(t)
    /\ Unlock(t)
    /\ UNCHANGED <<db, leases, served, inflight, page>>
-----------------------------------------------------------------------------
(* A decision is posted, and routed.                                       *)

\* decide: the outbox holds the operation before its first byte is sent,
\* and the clip leaves the screen.
Decide(r, s, act) ==
    /\ Spend("decide")
    /\ cards[r][s] # 0
    /\ ops' = Append(ops, [by |-> r, seg |-> s, act |-> act, rev |-> cards[r][s]])
    /\ told' = Append(told, {})
    /\ outbox' = [outbox EXCEPT ![r] = @ \cup {Len(ops) + 1}]
    /\ cards' = [cards EXCEPT ![r][s] = 0]
    /\ UNCHANGED <<db, session, lock, job, target>>

\* A request with the operation reaches a thread.
Accepts(op) ==
    /\ \E t \in Threads :
        /\ job[t] = Idle
        /\ job' = [job EXCEPT ![t] =
            [pc |-> IF Pool THEN "arrived" ELSE "route", op |-> op, first |-> FALSE]]
    /\ UNCHANGED <<db, session, lock, phone, page, left>>

\* decide posts the new operation without a look at the older ones;
\* flushOutboxOnce posts the oldest, on a timer, when back online and at
\* each load, and goes no further until it is answered.  Both may be under
\* way, and a request the page gave up on may still reach a thread.
Oldest(r) == {op \in outbox[r] : \A other \in outbox[r] : op <= other}
Newest(r) == {op \in outbox[r] : \A other \in outbox[r] : op >= other}
Flush(r) == \E op \in Oldest(r) : Accepts(op)
Send(r) == \E op \in Oldest(r) \cup Newest(r) : Accepts(op)

\* In a pool: was the operation recorded as an opinion, or does the clip
\* have its first judgement already?  Read before the canonical receipt.
ReadRow(t) ==
    /\ At(t, "arrived")
    /\ LET op == job[t].op
       IN  job' = [job EXCEPT ![t] =
            [@ EXCEPT !.pc = "route", !.first = PoolReceipt(op) \/ Verified(ops[op].seg)]]
    /\ UNCHANGED <<db, session, lock, phone, page, left>>

\* A mutant: the receipt was read before the row.
RouteOnOldReceipt(t) ==
    /\ At(t, "route")
    /\ Goto(t, IF job[t].first THEN "pool" ELSE "canonical")
    /\ UNCHANGED <<db, session, lock, phone, page, left>>

Route(t) ==
    /\ At(t, "route")
    /\ LET op == job[t].op
       IN  \/ ReplaysCanonical(t, op)
           \/ /\ ~CanonicalReceipt(op)
              /\ Goto(t, IF job[t].first THEN "pool" ELSE "canonical")
              /\ UNCHANGED <<db, session, lock, phone, page, left>>
-----------------------------------------------------------------------------
(* The canonical decision.                                                 *)

\* The checks made under the commit guard, before the write

StaleServe(op) == ops[op].rev # rows[ops[op].seg].rev

\* is_repeat_of_stored_decision: the same verdict, under another operation
IsRepeat(op) ==
    /\ Verified(ops[op].seg)
    /\ JudgeOf(ops[op].seg) = ops[op].by
    /\ effects[rows[ops[op].seg].eff].act = ops[op].act

\* A mutant: no late-submit guard.
NeverLate(op) == FALSE

\* The late-submit guard: a clip decided by someone else is not ours
LateSubmit(op) ==
    Verified(ops[op].seg) /\ JudgeOf(ops[op].seg) # ops[op].by

Refusable(op) ==
    \/ IsRepeat(op)
    \/ StaleServe(op)
    \/ LateSubmit(op)
    \/ HeldByOther(ops[op].by, ops[op].seg)

\* A mutant: the receipt is not read again.
NotReadAgain(op) == FALSE

\* The receipt, read again once the guard is held
CommittedMeanwhile(op) == CanonicalReceipt(op)

\* A skip writes its event, and hands the clip back.
RecordSkip(t, op) ==
    /\ ops[op].act = "skip"
    /\ skips' = Append(skips,
         [op |-> op, seg |-> ops[op].seg, by |-> ops[op].by, at |-> Stamp])
    /\ Forget(ops[op].by, ops[op].seg)
    /\ Saves(op, 0)
    /\ Done(t)
    /\ UNCHANGED <<rows, effects, opinions, ledger, inflight, undo, token, lock,
                   page>>

\* A verdict that passes every check claims the clip and keeps the guard.
ClaimClip(t, op) ==
    /\ ops[op].act # "skip"
    /\ ~Refusable(op)
    /\ op \notin inflight
    /\ inflight' = inflight \cup {op}
    /\ leases' = [leases EXCEPT ![ops[op].seg] = ops[op].by]
    /\ lock' = t
    /\ Goto(t, "commit")
    /\ UNCHANGED <<db, served, undo, token, phone, page, left>>

TakeGuard(t) ==
    /\ At(t, "canonical")
    /\ lock = NoOne
    /\ LET op == job[t].op
       IN  IF CommittedMeanwhile(op) THEN ReplaysCanonical(t, op)
           ELSE \/ RecordSkip(t, op)
                \/ ClaimClip(t, op)
                \/ ops[op].act # "skip" /\ Refusable(op) /\ Refused(t, op)
                \/ ops[op].act # "skip" /\ ~Refusable(op) /\ op \in inflight
                     /\ Held(t)

\* The writes of a decision: the effect, the row it stands on, the credit
Decides(judge, s, act, op) ==
    LET delta == IF judge = Desktop THEN 0 ELSE EntryDelta(judge, s, act)
    IN  /\ effects' = Append(effects,
             [op |-> op, seg |-> s, by |-> judge, act |-> act,
              rev |-> rows[s].rev + 1, prior |-> rows[s].eff, pay |-> delta,
              at |-> Stamp, undone |-> 0])
        /\ rows' = [rows EXCEPT ![s] =
             [rev |-> @.rev + 1, eff |-> Len(effects) + 1]]
        /\ ledger' = IF judge = Desktop THEN ledger
                     ELSE [ledger EXCEPT ![judge][s] = @ + delta]

\* require_unseen_pool_family_or_own_canonical_on
AlreadySeen(op) ==
    LET r == ops[op].by
        s == ops[op].seg
    IN  /\ Pool
        /\ r \in Seen(s)
        /\ ~(Verified(s) /\ JudgeOf(s) = r
             /\ \A o \in Effective(s) : opinions[o].by # r)

\* A mutant: the transaction trusts the revision read before it.
CommitsAnyway(op) == TRUE

\* The transaction compares the revision the request has read.
CommitsAtRevision(op) == ~StaleServe(op)

\* record_phone_human_decision_by_at_revision_with_operation_limit
Commit(t) ==
    /\ At(t, "commit")
    /\ LET op == job[t].op
           r == ops[op].by
           s == ops[op].seg
       IN  \/ /\ ~CommitsAtRevision(op)
              /\ inflight' = inflight \ {op}
              /\ Refuses(op)
              /\ Done(t)
              /\ Unlock(t)
              /\ UNCHANGED <<db, leases, served, undo, token, page>>
           \/ /\ CommitsAtRevision(op)
              /\ AlreadySeen(op)
              /\ inflight' = inflight \ {op}
              /\ Forget(r, s)
              /\ Refuses(op)
              /\ Done(t)
              /\ Unlock(t)
              /\ UNCHANGED <<db, undo, token, page>>
           \/ /\ CommitsAtRevision(op)
              /\ ~AlreadySeen(op)
              /\ Decides(r, s, ops[op].act, op)
              /\ Goto(t, "committed")
              /\ UNCHANGED <<skips, opinions, session, lock, phone, page, left>>
           \/ /\ Spend("fault")          \* the write fails
              /\ inflight' = inflight \ {op}
              /\ UNCHANGED phone
              /\ Done(t)
              /\ Unlock(t)
              /\ UNCHANGED <<db, leases, served, undo, token, page>>

\* The session learns of the commit, and the phone is answered.
Acknowledge(t) ==
    /\ At(t, "committed")
    /\ LET op == job[t].op
           r == ops[op].by
       IN  /\ inflight' = inflight \ {op}
           /\ RememberPhoneUndo(r, Max(EffectsOf(op)))
           /\ Forget(r, ops[op].seg)
           /\ Saves(op, 0)
    /\ Done(t)
    /\ Unlock(t)
    /\ UNCHANGED <<db, page>>
-----------------------------------------------------------------------------
(* An opinion in the pool (api_pool_decision).                             *)

\* What the pool's receipt answers
ReplaysPool(t, op) ==
    LET r == ops[op].by
    IN  /\ PoolReceipt(op)
        /\ RememberPoolUndo(r)
        /\ Forget(r, ops[op].seg)
        /\ Saves(op, Max(OpinionsOf(op)))
        /\ Done(t)
        /\ UNCHANGED <<db, inflight, lock, page>>

ReadPoolReceipt(t) ==
    /\ At(t, "pool")
    /\ LET op == job[t].op
       IN  \/ ReplaysPool(t, op)
           \/ ~PoolReceipt(op) /\ CanonicalReceipt(op) /\ Refused(t, op)
           \/ /\ ~PoolReceipt(op)
              /\ ~CanonicalReceipt(op)
              /\ Goto(t, "claim")
              /\ UNCHANGED <<db, session, lock, phone, page, left>>

\* The clip as it was served, to this reviewer, not judged by them, and
\* nobody else's; the operation not under way.
ClaimOpinion(t) ==
    /\ At(t, "claim")
    /\ LET op == job[t].op
           r == ops[op].by
           s == ops[op].seg
           refused == \/ StaleServe(op)
                      \/ <<s, r>> \notin served
                      \/ r \in Seen(s)
                      \/ HeldByOther(r, s)
       IN  \/ refused /\ Refused(t, op)
           \/ ~refused /\ op \in inflight /\ Held(t)
           \/ /\ ~refused
              /\ op \notin inflight
              /\ inflight' = inflight \cup {op}
              /\ Goto(t, "record")
              /\ UNCHANGED <<db, leases, served, undo, token, lock, phone, page, left>>

\* record_decision, and how its refusals are answered: a clip that changed
\* or was judged by this reviewer is a 409, a clip that was resolved a 500.
RecordOpinion(t) ==
    /\ At(t, "record")
    /\ LET op == job[t].op
           r == ops[op].by
           s == ops[op].seg
           bound == CanonicalReceipt(op) \/ PoolReceipt(op) \/ r \in Seen(s)
           skip == ops[op].act = "skip"
           delta == IF skip THEN 0 ELSE EntryDelta(r, s, ops[op].act)
           answered == inflight' = inflight \ {op} /\ Done(t)
       IN  \/ /\ PoolReceipt(op)
              /\ Goto(t, "recorded")
              /\ UNCHANGED <<db, session, phone, left>>
           \/ /\ ~PoolReceipt(op)
              /\ bound \/ (Decidable(s) /\ (StaleServe(op) \/ ~Verified(s)))
              /\ answered
              /\ Refuses(op)
              /\ UNCHANGED <<db, leases, served, undo, token>>
           \/ /\ ~bound
              /\ ~Decidable(s)
              /\ answered
              /\ Holds
              /\ UNCHANGED <<db, leases, served, undo, token>>
           \/ /\ ~bound
              /\ Decidable(s)
              /\ ~StaleServe(op)
              /\ Verified(s)
              /\ opinions' = Append(opinions,
                   [op |-> op, seg |-> s, by |-> r, act |-> ops[op].act,
                    rev |-> ops[op].rev, pay |-> delta, at |-> Stamp, undone |-> FALSE])
              /\ ledger' = [ledger EXCEPT ![r][s] = @ + delta]
              /\ Goto(t, "recorded")
              /\ UNCHANGED <<rows, effects, skips, session, phone, left>>
           \/ /\ Spend("fault")          \* the write fails
              /\ answered
              /\ UNCHANGED phone
              /\ UNCHANGED <<db, leases, served, undo, token>>
    /\ UNCHANGED <<lock, page>>

AcknowledgeOpinion(t) ==
    /\ At(t, "recorded")
    /\ LET op == job[t].op
           r == ops[op].by
       IN  /\ inflight' = inflight \ {op}
           /\ RememberPoolUndo(r)
           /\ Forget(r, ops[op].seg)
           /\ Saves(op, Max(OpinionsOf(op)))
    /\ Done(t)
    /\ UNCHANGED <<db, lock, page>>
-----------------------------------------------------------------------------
(* Undo.                                                                   *)

\* The button: it addresses the opinion the phone keeps, or has no body.
PressUndo(r) ==
    /\ Spend("undo")
    /\ \E t \in Threads :
        /\ job[t] = Idle
        /\ job' = [job EXCEPT ![t] =
            IF Pool /\ target[r] # 0
            THEN [pc |-> "pool undo", by |-> r, opinion |-> target[r]]
            ELSE [pc |-> "undo", by |-> r, since |-> LatestOf(PhoneEffects(r))]]
    /\ UNCHANGED <<db, session, lock, phone, page>>

\* A request without a body may not slide past a newer pool action.
BodylessAllowed(r) ==
    LET mine == PoolDecisions(r)
        canonical == {e \in PhoneEffects(r) : effects[e].undone = 0}
    IN  \/ ~Pool
        \/ undo[r] # <<>>
        \/ /\ ~token[r]
           /\ \/ mine = {}
              \/ /\ canonical # {}
                 /\ opinions[Max(mine)].at < effects[Max(canonical)].at

\* The token is popped from the stack; an empty stack falls back to the
\* reviewer's last decision, reversed or not.
PopUndo(t) ==
    /\ At(t, "undo")
    /\ LET r == job[t].by
           n == Len(undo[r])
           effect == IF n > 0 THEN undo[r][n] ELSE LatestOf(PhoneEffects(r))
       IN  IF BodylessAllowed(r) /\ effect # 0
           THEN /\ undo' = [undo EXCEPT ![r] = SubSeq(@, 1, n - 1)]
                /\ job' = [job EXCEPT ![t] =
                     [pc |-> "reverse", by |-> r, effect |-> effect,
                      index |-> Max({0, n - 1}), since |-> @.since, ok |-> FALSE]]
           ELSE UNCHANGED undo /\ Done(t)
    /\ UNCHANGED <<db, leases, served, inflight, token, lock, phone, page, left>>

\* A mutant: the opinions are not looked at.
BuiltUponByDecision(e) ==
    LET s == effects[e].seg
    IN  \/ rows[s].eff # e
        \/ \E f \in DOMAIN effects : effects[f].seg = s /\ effects[f].rev > effects[e].rev

\* Another decision, or an opinion, was built on the effect
BuiltUpon(e) ==
    LET s == effects[e].seg
    IN  \/ rows[s].eff # e
        \/ \E f \in DOMAIN effects : effects[f].seg = s /\ effects[f].rev > effects[e].rev
        \/ SecondOpinions(s) # {}

\* undo_human_decision: the row is what it was, at a new revision
Reverses(e, since) ==
    LET s == effects[e].seg
        r == effects[e].by
    IN  /\ effects' = [effects EXCEPT ![e].undone = since + 1]
        /\ rows' = [rows EXCEPT ![s] = [rev |-> @.rev + 1, eff |-> effects[e].prior]]
        /\ ledger' = IF r = Desktop THEN ledger
                     ELSE [ledger EXCEPT ![r][s] = @ - effects[e].pay]

ReverseEffect(t) ==
    /\ At(t, "reverse")
    /\ LET e == job[t].effect
           applies == effects[e].undone = 0 /\ ~BuiltUpon(e) /\ OwnsEntitlement(e)
       IN  \/ /\ applies
              /\ Reverses(e, job[t].since)
              /\ job' = [job EXCEPT ![t] = [@ EXCEPT !.pc = "reversed", !.ok = TRUE]]
              /\ UNCHANGED left
           \/ /\ effects[e].undone # 0
              /\ job' = [job EXCEPT ![t] = [@ EXCEPT !.pc = "reversed", !.ok = TRUE]]
              /\ UNCHANGED <<effects, rows, ledger, left>>
           \/ /\ \/ ~applies /\ effects[e].undone = 0 /\ UNCHANGED left
                 \/ Spend("fault")      \* the write fails
              /\ Goto(t, "reversed")
              /\ UNCHANGED <<effects, rows, ledger>>
    /\ UNCHANGED <<skips, opinions, session, lock, phone, page>>

\* The token goes back whatever the outcome; after a reversal the clip is
\* leased again, unless another reviewer holds it.
AnswerUndo(t) ==
    /\ At(t, "reversed")
    /\ LET r == job[t].by
           s == effects[job[t].effect].seg
       IN  /\ undo' = [undo EXCEPT ![r] = Retained(@, job[t].index, job[t].effect)]
           /\ leases' = IF job[t].ok /\ ~HeldByOther(r, s)
                        THEN [leases EXCEPT ![s] = r] ELSE leases
    /\ Done(t)
    /\ UNCHANGED <<db, served, inflight, token, lock, phone, page, left>>

\* reverse_decision_addressed: only the reviewer's latest opinion, and only while
\* its entry is the newest of the clip
ReverseOpinion(t) ==
    /\ At(t, "pool undo")
    /\ LET o == job[t].opinion
           s == opinions[o].seg
           r == job[t].by
       IN  IF o = LatestOf(PoolDecisions(r)) /\ OpinionOwnsEntitlement(o)
           THEN /\ opinions' = [opinions EXCEPT ![o].undone = TRUE]
                /\ ledger' = IF opinions[o].undone THEN ledger
                             ELSE [ledger EXCEPT ![r][s] = @ - opinions[o].pay]
                /\ Goto(t, "opinion undone")
           ELSE UNCHANGED <<opinions, ledger>> /\ Done(t)
    /\ UNCHANGED <<rows, effects, skips, session, lock, phone, page, left>>

\* The clip is leased and served again, even from under another reviewer.
AnswerPoolUndo(t) ==
    /\ At(t, "opinion undone")
    /\ LET r == job[t].by
           o == job[t].opinion
           s == opinions[o].seg
       IN  /\ RememberPoolUndo(r)
           /\ leases' = [leases EXCEPT ![s] = r]
           /\ served' = served \cup {<<s, r>>}
           /\ \/ /\ target' = [target EXCEPT ![r] = IF @ = o THEN 0 ELSE @]
                 /\ UNCHANGED left
              \/ Spend("fault") /\ UNCHANGED target
    /\ Done(t)
    /\ UNCHANGED <<db, inflight, lock, outbox, told, page>>
-----------------------------------------------------------------------------
(* The queue.                                                              *)

\* The clips a reviewer may be handed, read outside the session's mutex
Pending(r) ==
    {s \in Segments : IF Pool THEN r \notin Seen(s) /\ Decidable(s)
                      ELSE ~Verified(s)}

RequestQueue(r) ==
    /\ Spend("load")
    /\ \E t \in Threads :
        /\ job[t] = Idle
        /\ job' = [job EXCEPT ![t] = [pc |-> "queue", by |-> r, pending |-> Pending(r)]]
    /\ UNCHANGED <<db, session, lock, phone, page>>

\* Clips neither held by another nor skipped are leased and read again; the
\* phone shows those it has no decision for in its outbox.
ServeQueue(t) ==
    /\ At(t, "queue")
    /\ LET r == job[t].by
           serving == {s \in job[t].pending : ~HeldByOther(r, s) /\ ~Skipped(r, s)}
           decided == {ops[op].seg : op \in outbox[r]}
       IN  /\ leases' = [s \in Segments |-> IF s \in serving THEN r ELSE leases[s]]
           /\ \/ /\ served' = served \cup (serving \X {r})
                 /\ cards' = [cards EXCEPT ![r] = [s \in Segments |->
                                IF s \in serving \ decided THEN rows[s].rev ELSE 0]]
                 /\ UNCHANGED left
              \/ Spend("fault") /\ UNCHANGED <<served, cards>>  \* the rows are unread
    /\ Done(t)
    /\ UNCHANGED <<db, inflight, undo, token, lock, phone, ops>>

\* api_renew: the heartbeat of a clip on the screen
Renew(r, s) ==
    /\ cards[r][s] # 0
    /\ ~Skipped(r, s)
    /\ ~HeldByOther(r, s)
    /\ <<s, r>> \in served
    /\ leases' = [leases EXCEPT ![s] = r]
    /\ UNCHANGED <<db, served, inflight, undo, token, lock, job, phone, page, left>>

\* LEASE_TTL passes without a renewal.
Lapse(s) ==
    /\ leases[s] # NoOne
    /\ leases' = [leases EXCEPT ![s] = NoOne]
    /\ UNCHANGED <<db, served, inflight, undo, token, lock, job, phone, page, left>>
-----------------------------------------------------------------------------
(* Everyone else.                                                          *)

\* A batch, a refinement or an alignment writes the row: a new revision.
Touch(s) ==
    /\ Spend("touch")
    /\ rows' = [rows EXCEPT ![s].rev = @ + 1]
    /\ UNCHANGED <<effects, skips, opinions, ledger, session, lock, job, phone,
                   page>>

DesktopEffects == {e \in DOMAIN effects : effects[e].by = Desktop}

DesktopDecides(s, act) ==
    /\ Spend("desktop")
    /\ Decides(Desktop, s, act, 0)
    /\ UNCHANGED <<skips, opinions, session, lock, job, phone, page>>

\* The desktop's undo takes back its last decision only.
DesktopUndoes ==
    /\ DesktopEffects # {}
    /\ LET e == Max(DesktopEffects)
       IN  /\ effects[e].undone = 0
           /\ ~BuiltUpon(e)
           /\ Reverses(e, Len(effects))
    /\ UNCHANGED <<skips, opinions, session, lock, job, phone, page, left>>

\* The app ends and starts again: the session is empty, and the requests
\* under way are gone.
Restart ==
    /\ Spend("restart")
    /\ leases' = [s \in Segments |-> NoOne]
    /\ served' = {}
    /\ inflight' = {}
    /\ undo' = [r \in Reviewers |-> <<>>]
    /\ token' = [r \in Reviewers |-> FALSE]
    /\ lock' = NoOne
    /\ job' = [t \in Threads |-> Idle]
    /\ UNCHANGED <<db, phone, page>>
-----------------------------------------------------------------------------
Init ==
    /\ rows = [s \in Segments |-> [rev |-> 1, eff |-> 0]]
    /\ effects = <<>>
    /\ skips = <<>>
    /\ opinions = <<>>
    /\ ledger = [r \in Reviewers |-> [s \in Segments |-> 0]]
    /\ leases = [s \in Segments |-> NoOne]
    /\ served = {}
    /\ inflight = {}
    /\ undo = [r \in Reviewers |-> <<>>]
    /\ token = [r \in Reviewers |-> FALSE]
    /\ lock = NoOne
    /\ job = [t \in Threads |-> Idle]
    /\ ops = <<>>
    /\ outbox = [r \in Reviewers |-> {}]
    /\ cards = [r \in Reviewers |-> [s \in Segments |-> 0]]
    /\ target = [r \in Reviewers |-> 0]
    /\ told = <<>>
    /\ left = Bound

\* What a thread does next for the request it serves
Serve(t) ==
    \/ ReadRow(t) \/ Route(t)
    \/ TakeGuard(t) \/ Commit(t) \/ Acknowledge(t)
    \/ ReadPoolReceipt(t) \/ ClaimOpinion(t) \/ RecordOpinion(t) \/ AcknowledgeOpinion(t)
    \/ PopUndo(t) \/ ReverseEffect(t) \/ AnswerUndo(t)
    \/ ReverseOpinion(t) \/ AnswerPoolUndo(t)
    \/ ServeQueue(t)

Next ==
    \/ \E t \in Threads : Serve(t)
    \/ \E r \in Reviewers, s \in Segments, act \in Acts : Decide(r, s, act)
    \/ \E r \in Reviewers : Send(r) \/ PressUndo(r) \/ RequestQueue(r)
    \/ \E r \in Reviewers, s \in Segments : Renew(r, s)
    \/ \E s \in Segments : Lapse(s) \/ Touch(s)
    \/ \E s \in Segments, act \in Verdicts : DesktopDecides(s, act)
    \/ DesktopUndoes
    \/ Restart

Spec == Init /\ [][Next]_vars

\* A thread finishes what it serves, and a page's timer flushes its outbox.
Fairness ==
    /\ \A t \in Threads : WF_vars(Serve(t))
    /\ \A r \in Reviewers : SF_vars(Flush(r))

FairSpec == Spec /\ Fairness
-----------------------------------------------------------------------------
(* Properties.                                                             *)

\* The judgement of the reviewer's that stands: their opinion, else their
\* last decision not undone.
StandingRate(r, s) ==
    LET mine == {o \in SecondOpinions(s) : opinions[o].by = r}
        decisions == {e \in PhoneEffects(r) : effects[e].seg = s /\ effects[e].undone = 0}
    IN  IF mine # {} THEN Rates[opinions[Max(mine)].act]
        ELSE IF decisions # {} THEN Rates[effects[Max(decisions)].act]
        ELSE 0

\* A reviewer's credit for a clip is the rate of the judgement of theirs that
\* stands, however often they judged it again, undid it or were answered twice
\* (the entries and reversals of review_compensation_ledger).
PayFollowsStandingWork ==
    \A r \in Reviewers, s \in Segments : ledger[r][s] = StandingRate(r, s)

\* The pool's history is one `review_pool::load` starts over: no operation
\* is both an event and an opinion, a standing opinion judges a clip whose
\* first judgement stands and is another's, one per reviewer.
PoolHistoryLoads ==
    /\ \A o \in DOMAIN opinions : ~CanonicalReceipt(opinions[o].op)
    /\ \A s \in Segments : \A o \in SecondOpinions(s) :
        Verified(s) /\ JudgeOf(s) # opinions[o].by
    /\ \A s \in Segments : \A o, p \in Effective(s) :
        opinions[o].by = opinions[p].by => o = p

Records(op) ==
    Cardinality(EffectsOf(op)) + Cardinality(SkipsOf(op)) + Cardinality(OpinionsOf(op))

\* An operation the phone was told is saved is recorded, and no operation is
\* recorded twice, whatever was lost, repeated or restarted (the operation ids
\* of api_decision).
SavedOnce ==
    \A op \in DOMAIN ops :
        /\ Records(op) <= 1
        /\ "saved" \in told[op] => Records(op) = 1

\* A phone's decision stands on no one else's verdict: a lease that lapsed, a
\* late submit or an undo in between never lets one reviewer replace another's
\* (the late-submit and the collision guard of api_decision).
NoVerdictReplaced ==
    \A e \in DOMAIN effects :
        effects[e].by \in Reviewers /\ effects[e].prior # 0 =>
            effects[effects[e].prior].by = effects[e].by

\* A verdict is recorded for the very revision its phone showed, whatever
\* wrote the row between the checks of a request and its transaction.
VerdictOnServedText ==
    /\ \A e \in DOMAIN effects :
        effects[e].by \in Reviewers => effects[e].rev = ops[effects[e].op].rev + 1
    /\ \A o \in DOMAIN opinions : opinions[o].rev = ops[opinions[o].op].rev

\* A phone is told that a verdict was refused only when it is not recorded as
\* a decision: the late copy of a committed one is acknowledged (the receipt
\* read again under the commit guard, and before the pool's path is taken).
CanonicalRefusalIsTrue ==
    [][\A op \in DOMAIN told :
        "refused" \in told'[op] \ told[op] => EffectsOf(op) = {}]_vars

\* Presses of Undo after one and the same decision take back one decision: "the
\* bodyless retry must replay this exact idempotent undo instead of falling
\* through to an older decision" (api_undo_with_body).
OneUndoPerDecision ==
    \A e, f \in DOMAIN effects :
        /\ effects[e].by \in Reviewers
        /\ effects[e].by = effects[f].by
        /\ effects[e].undone # 0
        /\ effects[e].undone = effects[f].undone
        => e = f

\* What a phone holds in its outbox is settled in the end: a server that will
\* never take it says so, and the page drops it "rather than wedging the queue
\* behind something that will never land" (flushOutboxOnce).
HeldWorkSettles ==
    \A r \in Reviewers : \A op \in 1..Bound["decide"] :
        op \in outbox[r] ~> op \notin outbox[r]
=============================================================================
