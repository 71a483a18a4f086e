-------------------------- MODULE ReviewDraftProofs --------------------------
(***************************************************************************)
(* Proofs about ReviewDraft: the draft store implements the admission it   *)
(* runs behind, so it inherits every theorem about it, and with them its   *)
(* own: a late draft never lands, and the draft of a decided revision      *)
(* never comes back.  For any set of threads, segments and operations.     *)
(***************************************************************************)
EXTENDS ReviewDraft, RestoreAdmissionProofs

Reservations == [op : Operations, gen : Nat, epoch : Nat]
DraftRows == [op : Operations, rev : Revisions]

\* A reservation holds a generation that the admission handed out.
ReservedTokens ==
  \A s \in Segments : drafts[s] # None =>
    [gen |-> drafts[s].gen, epoch |-> drafts[s].epoch] \in tokens

\* A draft call is before its mutation or inside it, and inside it its
\* operation is still the one reserved, at the database it was admitted to.
CallGuarded ==
  \A t \in Threads : call[t] # None =>
    /\ pc[t] \in {"idle"} \cup MutationPCs
    /\ pc[t] \in MutationPCs =>
         /\ call[t].kind # "reserve"
         /\ drafts[call[t].seg] # None
         /\ drafts[call[t].seg].op = call[t].op
         /\ drafts[call[t].seg].epoch = seen[t]

\* Decided revisions are behind the current one.
DecidedBehind ==
  \A s \in Segments : \A r \in decided[s] : r \in Nat /\ r < revision[s]

DecidedTyped == decided \in [Segments -> SUBSET Nat]

DraftIInv ==
  /\ DraftTypeOK
  /\ DecidedTyped
  /\ ReservedTokens
  /\ CallGuarded
  /\ DecidedBehind
  /\ DecidedDraftStaysGone

USE DEF Calls, Revisions, Reservations, DraftRows, MutationPCs, CapturePCs
USE DEF Goto, Admit, locks, observed

-----------------------------------------------------------------------------
(* The refinement. *)

\* Nothing is reserved, decided or under way at first.
LEMMA DraftInitInv == DraftInit => DraftIInv
  BY ThreadsAssumption, DraftAssumption
     DEF DraftInit, Init, DraftIInv, DraftTypeOK, DecidedTyped, ReservedTokens, CallGuarded,
         DecidedBehind, DecidedDraftStaysGone

\* As the admission sees it, a step of the draft store is a step of its own.
LEMMA DraftStep == DraftIInv /\ [DraftNext]_allVars => [Next]_vars
<1> SUFFICES ASSUME DraftIInv, DraftNext PROVE [Next]_vars
  BY DEF allVars
<1>1. ASSUME NEW t \in Threads, ReserveDraft(t) PROVE Next
  BY <1>1 DEF ReserveDraft, Next, Begin
<1>2. ASSUME NEW t \in Threads, EnterDraftWrite(t) PROVE Next
  <2> DEFINE r == drafts[call[t].seg]
             token == [gen |-> r.gen, epoch |-> r.epoch]
  <2>1. token \in tokens /\ BeginMutationAtGeneration(t, token)
    <3>1. call[t].seg \in Segments /\ r # None
      BY <1>2 DEF EnterDraftWrite, OwnReservation, DraftIInv, DraftTypeOK
    <3> QED BY <1>2, <3>1 DEF EnterDraftWrite, DraftIInv, ReservedTokens
  <2> QED BY <2>1 DEF Next, Begin
<1>3. ASSUME NEW t \in Threads, LockDraftWriter(t) PROVE Next
  BY <1>3 DEF LockDraftWriter, Next, Detour
<1>4. ASSUME NEW t \in Threads, WriteDraft(t) PROVE Next
  BY <1>4 DEF WriteDraft, Next, Continue
<1>5. ASSUME NEW t \in Threads, EndDraft(t) PROVE Next
  BY <1>5 DEF EndDraft, Next, Continue
<1>6. ASSUME NEW t \in Threads, Elsewhere(t) PROVE Next
  BY <1>6 DEF Elsewhere, Next
<1>7. ASSUME NEW t \in Threads,
             \/ \E c \in Calls : DraftLock(t, c)
             \/ RefuseDraft(t)
             \/ \E s \in Segments : Decide(t, s) \/ Edit(t, s)
      PROVE  UNCHANGED vars
  BY <1>7 DEF DraftLock, RefuseDraft, Decide, Edit
<1>8. CASE Stopped /\ UNCHANGED draftVars
  BY <1>8 DEF Next
<1> QED BY <1>1, <1>2, <1>3, <1>4, <1>5, <1>6, <1>7, <1>8 DEF DraftNext

-----------------------------------------------------------------------------
(* The invariant. *)

\* A step of one thread moves no other thread, and takes no token back.
OthersStay(t) ==
  /\ \A u \in Threads : u # t => pc'[u] = pc[u] /\ seen'[u] = seen[u]
  /\ tokens \subseteq tokens'

\* A step of one thread at the admission keeps the other threads where they are.
LEMMA AdmissionStepOthers ==
  ASSUME TypeOK, NEW t \in Threads, Begin(t) \/ Continue(t) \/ Detour(t)
  PROVE  OthersStay(t)
<1> USE DEF TypeOK, OthersStay
<1>1. CASE LockCheck(t) \/ LockTake(t) \/ Unlock(t)
  BY <1>1 DEF LockCheck, LockTake, Unlock
<1>2. CASE BeginMutation(t) \/ CaptureGeneration(t)
           \/ (\E token \in tokens : BeginMutationAtGeneration(t, token))
  BY <1>2 DEF BeginMutation, CaptureGeneration, BeginMutationAtGeneration
<1>3. CASE LockAfterMutation(t) \/ UnlockAfterMutation(t) \/ DropMutation(t)
  BY <1>3 DEF LockAfterMutation, UnlockAfterMutation, DropMutation
<1>4. CASE AcquirePermit(t) \/ OpenRead(t) \/ BeginCapture(t)
  BY <1>4 DEF AcquirePermit, OpenRead, BeginCapture
<1>5. CASE DropCapture(t) \/ DropPermit(t)
  BY <1>5 DEF DropCapture, DropPermit
<1>6. CASE (\E recovery \in BOOLEAN : Reserve(t, recovery)) \/ ReserveDrained(t)
  BY <1>6 DEF Reserve, ReserveDrained, ReserveOutcome
<1>7. CASE RequestRestoreWriter(t) \/ LockRestoreWriter(t) \/ RecheckRestoreWriter(t)
  BY <1>7 DEF RequestRestoreWriter, LockRestoreWriter, RecheckRestoreWriter
<1>8. CASE (\E replaced \in BOOLEAN : RestoreWriterFails(t, replaced)) \/ Publish(t)
  BY <1>8 DEF RestoreWriterFails, Publish
<1>9. CASE Arm(t) \/ Disarm(t) \/ Commit(t) \/ DropReservation(t)
  BY <1>9 DEF Arm, Disarm, Commit, DropReservation
<1> QED
  BY <1>1, <1>2, <1>3, <1>4, <1>5, <1>6, <1>7, <1>8, <1>9 DEF Begin, Continue, Detour

\* The thread of a draft call is alone in the draft store.
LEMMA CallAlone ==
  ASSUME DraftIInv, NEW t \in Threads, NEW u \in Threads, call[t] # None, u # t
  PROVE  call[u] = None
  BY DEF DraftIInv, DraftTypeOK

\* Every step keeps the invariant of the draft store.
LEMMA DraftNextInv == DraftIInv /\ TypeOK /\ [DraftNext]_allVars => DraftIInv'
<1> SUFFICES ASSUME DraftIInv, TypeOK, [DraftNext]_allVars PROVE DraftIInv'
  OBVIOUS
<1>0. /\ DraftTypeOK /\ DecidedTyped /\ ReservedTokens /\ CallGuarded
      /\ DecidedBehind /\ DecidedDraftStaysGone
  BY DEF DraftIInv
<1>1. ASSUME NEW t \in Threads, NEW c \in Calls, DraftLock(t, c) PROVE DraftIInv'
  <2>1. DraftTypeOK'
    BY <1>0, <1>1, ThreadsAssumption DEF DraftLock, DraftTypeOK, vars
  <2>2. CallGuarded'
    BY <1>0, <1>1 DEF DraftLock, CallGuarded, DraftTypeOK, vars
  <2>3. DecidedTyped' /\ ReservedTokens' /\ DecidedBehind' /\ DecidedDraftStaysGone'
    BY <1>0, <1>1 DEF DraftLock, DecidedTyped, ReservedTokens, DecidedBehind,
                      DecidedDraftStaysGone, vars
  <2> QED BY <2>1, <2>2, <2>3 DEF DraftIInv
<1>2. ASSUME NEW t \in Threads, ReserveDraft(t) PROVE DraftIInv'
  <2> DEFINE r == [op |-> call[t].op, gen |-> generation, epoch |-> epoch]
             s == call[t].seg
  <2>1. /\ call[t] \in Calls /\ s \in Segments /\ r \in Reservations
        /\ drafts' = [drafts EXCEPT ![s] = r]
        /\ call' = [call EXCEPT ![t] = None] /\ draftOwner' = NoThread
        /\ UNCHANGED <<pc, seen, rows, revision, decided>>
        /\ tokens' = tokens \cup {[gen |-> generation, epoch |-> epoch]}
    BY <1>0, <1>2 DEF ReserveDraft, CaptureGeneration, Return, DraftTypeOK, TypeOK
  <2>2. \A u \in Threads : call'[u] = None
    BY <1>2, <2>1, CallAlone, <1>0 DEF ReserveDraft, DraftTypeOK
  <2>3. DraftTypeOK'
    BY <1>0, <2>1, <2>2 DEF DraftTypeOK
  <2>4. CallGuarded'
    BY <2>2 DEF CallGuarded
  <2>5. ReservedTokens'
    <3> SUFFICES ASSUME NEW x \in Segments, drafts'[x] # None
                 PROVE  [gen |-> drafts'[x].gen, epoch |-> drafts'[x].epoch] \in tokens'
      BY DEF ReservedTokens
    <3>1. CASE x = s
      BY <1>0, <2>1, <3>1 DEF DraftTypeOK
    <3>2. CASE x # s
      BY <1>0, <2>1, <3>2 DEF DraftTypeOK, ReservedTokens
    <3> QED BY <3>1, <3>2
  <2>6. DecidedTyped' /\ DecidedBehind' /\ DecidedDraftStaysGone'
    BY <1>0, <2>1 DEF DecidedTyped, DecidedBehind, DecidedDraftStaysGone
  <2> QED BY <2>3, <2>4, <2>5, <2>6 DEF DraftIInv
<1>3. ASSUME NEW t \in Threads, EnterDraftWrite(t) PROVE DraftIInv'
  <2> DEFINE r == drafts[call[t].seg]
  <2>1. /\ call[t] # None /\ call[t].kind # "reserve" /\ r # None /\ r.op = call[t].op
        /\ pc' = [pc EXCEPT ![t] = "mutating"] /\ seen' = [seen EXCEPT ![t] = r.epoch]
        /\ UNCHANGED <<tokens, draftOwner, call, drafts, rows, revision, decided>>
    BY <1>3 DEF EnterDraftWrite, BeginMutationAtGeneration, OwnReservation, KeepDraftLock
  <2>2. DraftTypeOK' /\ DecidedTyped' /\ ReservedTokens' /\ DecidedBehind'
        /\ DecidedDraftStaysGone'
    BY <1>0, <2>1 DEF DraftTypeOK, DecidedTyped, ReservedTokens, DecidedBehind,
                      DecidedDraftStaysGone
  <2>3. CallGuarded'
    BY <1>0, <2>1 DEF CallGuarded, TypeOK
  <2> QED BY <2>2, <2>3 DEF DraftIInv
<1>4. ASSUME NEW t \in Threads, RefuseDraft(t) PROVE DraftIInv'
  <2>1. \A u \in Threads : call'[u] = None
    BY <1>4, CallAlone, <1>0 DEF RefuseDraft, Return, DraftTypeOK
  <2>2. /\ call' = [call EXCEPT ![t] = None] /\ draftOwner' = NoThread
        /\ UNCHANGED <<tokens, drafts, rows, revision, decided>>
    BY <1>4 DEF RefuseDraft, Return, vars
  <2>3. DraftTypeOK' /\ DecidedTyped' /\ ReservedTokens' /\ DecidedBehind'
        /\ DecidedDraftStaysGone'
    BY <1>0, <2>1, <2>2 DEF DraftTypeOK, DecidedTyped, ReservedTokens, DecidedBehind,
                            DecidedDraftStaysGone
  <2> QED BY <2>1, <2>3 DEF DraftIInv, CallGuarded
<1>5. ASSUME NEW t \in Threads, LockDraftWriter(t) PROVE DraftIInv'
  <2>1. /\ pc[t] = "mutating" /\ pc' = [pc EXCEPT ![t] = "mutWriting"]
        /\ UNCHANGED <<seen, tokens, draftVars>>
    BY <1>5 DEF LockDraftWriter, LockAfterMutation
  <2>2. DraftTypeOK' /\ DecidedTyped' /\ ReservedTokens' /\ DecidedBehind'
        /\ DecidedDraftStaysGone'
    BY <1>0, <2>1 DEF draftVars, DraftTypeOK, DecidedTyped, ReservedTokens, DecidedBehind,
                      DecidedDraftStaysGone
  <2>3. CallGuarded'
    BY <1>0, <2>1 DEF draftVars, CallGuarded, TypeOK
  <2> QED BY <2>2, <2>3 DEF DraftIInv
<1>6. ASSUME NEW t \in Threads, WriteDraft(t) PROVE DraftIInv'
  <2> DEFINE s == call[t].seg
  <2>1. /\ call[t] \in Calls /\ s \in Segments /\ pc[t] = "mutWriting"
        /\ pc' = [pc EXCEPT ![t] = "mutating"]
        /\ UNCHANGED <<seen, tokens, draftOwner, call, drafts, revision, decided>>
    BY <1>0, <1>6 DEF WriteDraft, UnlockAfterMutation, DraftTypeOK
  <2>2. \/ rows' = rows
        \/ rows' = [rows EXCEPT ![s] = None]
        \/ /\ rows' = [rows EXCEPT ![s] = [op |-> call[t].op, rev |-> call[t].rev]]
           /\ call[t].rev = revision[s]
    BY <1>0, <1>6 DEF WriteDraft, RevisionCurrent, DraftTypeOK
  <2>3. DraftTypeOK'
    BY <1>0, <2>1, <2>2 DEF DraftTypeOK
  <2>4. CallGuarded'
    BY <1>0, <2>1 DEF CallGuarded, TypeOK
  <2>5. DecidedDraftStaysGone'
    BY <1>0, <2>1, <2>2 DEF DecidedDraftStaysGone, DecidedBehind, DraftTypeOK
  <2>6. DecidedTyped' /\ ReservedTokens' /\ DecidedBehind'
    BY <1>0, <2>1 DEF DecidedTyped, ReservedTokens, DecidedBehind
  <2> QED BY <2>3, <2>4, <2>5, <2>6 DEF DraftIInv
<1>7. ASSUME NEW t \in Threads, EndDraft(t) PROVE DraftIInv'
  <2>1. \A u \in Threads : call'[u] = None
    BY <1>7, CallAlone, <1>0 DEF EndDraft, Return, DraftTypeOK
  <2>2. /\ call' = [call EXCEPT ![t] = None] /\ draftOwner' = NoThread
        /\ UNCHANGED <<tokens, drafts, rows, revision, decided>>
    BY <1>7 DEF EndDraft, Return, DropMutation
  <2>3. DraftTypeOK' /\ DecidedTyped' /\ ReservedTokens' /\ DecidedBehind'
        /\ DecidedDraftStaysGone'
    BY <1>0, <2>1, <2>2 DEF DraftTypeOK, DecidedTyped, ReservedTokens, DecidedBehind,
                            DecidedDraftStaysGone
  <2> QED BY <2>1, <2>3 DEF DraftIInv, CallGuarded
<1>8. ASSUME NEW t \in Threads, NEW s \in Segments, Decide(t, s) PROVE DraftIInv'
  <2>1. /\ rows' = [rows EXCEPT ![s] = IF @ # None /\ @.rev = revision[s] THEN None ELSE @]
        /\ revision' = [revision EXCEPT ![s] = @ + 1] /\ revision[s] < MaxRevision
        /\ decided' = [decided EXCEPT ![s] = @ \cup {revision[s]}]
        /\ UNCHANGED <<pc, seen, tokens, draftOwner, call, drafts>>
    BY <1>8 DEF Decide, vars
  <2>2. DraftTypeOK' /\ DecidedTyped'
    BY <1>0, <2>1, DraftAssumption DEF DraftTypeOK, DecidedTyped
  <2>3. DecidedBehind'
    BY <1>0, <2>1, DraftAssumption DEF DraftTypeOK, DecidedTyped, DecidedBehind
  <2>4. DecidedDraftStaysGone'
    BY <1>0, <2>1 DEF DraftTypeOK, DecidedTyped, DecidedDraftStaysGone
  <2>5. ReservedTokens' /\ CallGuarded'
    BY <1>0, <2>1 DEF ReservedTokens, CallGuarded
  <2> QED BY <2>2, <2>3, <2>4, <2>5 DEF DraftIInv
<1>9. ASSUME NEW t \in Threads, NEW s \in Segments, Edit(t, s) PROVE DraftIInv'
  <2>1. /\ revision' = [revision EXCEPT ![s] = @ + 1] /\ revision[s] < MaxRevision
        /\ UNCHANGED <<pc, seen, tokens, draftOwner, call, drafts, rows, decided>>
    BY <1>9 DEF Edit, vars
  <2>2. DraftTypeOK' /\ DecidedTyped'
    BY <1>0, <2>1, DraftAssumption DEF DraftTypeOK, DecidedTyped
  <2>3. DecidedBehind' /\ DecidedDraftStaysGone'
    BY <1>0, <2>1, DraftAssumption DEF DraftTypeOK, DecidedTyped, DecidedBehind,
                                       DecidedDraftStaysGone
  <2>4. ReservedTokens' /\ CallGuarded'
    BY <1>0, <2>1 DEF ReservedTokens, CallGuarded
  <2> QED BY <2>2, <2>3, <2>4 DEF DraftIInv
<1>10. ASSUME NEW t \in Threads, Elsewhere(t) PROVE DraftIInv'
  <2>1. OthersStay(t) /\ call[t] = None /\ UNCHANGED <<draftOwner, call, drafts>>
    BY <1>10, AdmissionStepOthers DEF Elsewhere
  <2>2. ReservedTokens' /\ CallGuarded'
    BY <1>0, <2>1 DEF OthersStay, ReservedTokens, CallGuarded
  <2>3. CASE UNCHANGED <<rows, revision, decided>>
    BY <1>0, <2>1, <2>2, <2>3
       DEF DraftIInv, DraftTypeOK, DecidedTyped, DecidedBehind, DecidedDraftStaysGone
  <2>4. CASE /\ revision' \in [Segments -> Revisions]
             /\ rows' \in [Segments -> DraftRows \cup {None}]
             /\ decided' = [s \in Segments |-> {}]
    BY <1>0, <2>1, <2>2, <2>4
       DEF DraftIInv, DraftTypeOK, DecidedTyped, DecidedBehind, DecidedDraftStaysGone
  <2> QED BY <1>10, <2>3, <2>4 DEF Elsewhere
<1>11. CASE UNCHANGED allVars
  BY <1>0, <1>11 DEF allVars, vars, draftVars, DraftIInv, DraftTypeOK, DecidedTyped,
                     ReservedTokens, CallGuarded, DecidedBehind, DecidedDraftStaysGone
<1>12. CASE Stopped /\ UNCHANGED draftVars
  BY <1>11, <1>12 DEF Stopped, allVars
<1> QED
  BY <1>1, <1>2, <1>3, <1>4, <1>5, <1>6, <1>7, <1>8, <1>9, <1>10, <1>11, <1>12 DEF DraftNext

-----------------------------------------------------------------------------
(* The theorems. *)

\* Everything the invariants of both levels say, at once.
LEMMA DraftInvariant == DraftSpec => [](IInv /\ DraftIInv)
<1>1. DraftInit => IInv /\ DraftIInv
  BY InitInv, DraftInitInv DEF DraftInit
<1>2. (IInv /\ DraftIInv) /\ [DraftNext]_allVars => (IInv /\ DraftIInv)'
  <2>1. IInv => TypeOK
    BY DEF IInv
  <2> QED BY <2>1, DraftStep, DraftNextInv, NextInv
<1> QED BY <1>1, <1>2, PTL DEF DraftSpec

\* Seen by the admission, the draft commands are captures, mutations and writer
\* locks like any other (reserve_review_draft_write and
\* with_reserved_review_draft_write go through the same calls).
THEOREM DraftsRefineAdmission == DraftSpec => ImplementsAdmission
<1>1. DraftInit => Init
  BY DEF DraftInit
<1> QED BY <1>1, DraftStep, DraftInvariant, PTL DEF DraftSpec, ImplementsAdmission, Spec

\* Types, and a draft call has the review_draft_writes mutex throughout.
THEOREM DraftTypeCorrect == DraftSpec => []DraftTypeOK
<1>1. DraftIInv => DraftTypeOK
  BY DEF DraftIInv
<1> QED BY <1>1, DraftInvariant, PTL

\* The draft of a decided revision never comes back (the revision check of `save`
\* and the delete inside the decision's transaction).
THEOREM DecidedStaysGone == DraftSpec => []DecidedDraftStaysGone
<1>1. DraftIInv => DecidedDraftStaysGone
  BY DEF DraftIInv
<1> QED BY <1>1, DraftInvariant, PTL

\* What LateDraftNeverLands says of one step.
LateDraftStep ==
  \A t \in Threads, s \in Segments :
    call[t] # None /\ pc[t] = "mutWriting" /\ pc'[t] # pc[t] /\ rows'[s] # rows[s] =>
      /\ s = call[t].seg
      /\ drafts[s] # None
      /\ drafts[s].op = call[t].op
      /\ drafts[s].epoch = epoch

\* A draft call's step to a row is its own write, under its guard.
LEMMA LateDraftNext == IInv /\ DraftIInv /\ [DraftNext]_allVars => [LateDraftStep]_allVars
<1> SUFFICES ASSUME IInv, DraftIInv, DraftNext,
                    NEW t \in Threads, NEW s \in Segments,
                    call[t] # None, pc[t] = "mutWriting", pc'[t] # pc[t], rows'[s] # rows[s]
             PROVE  /\ s = call[t].seg
                    /\ drafts[s] # None
                    /\ drafts[s].op = call[t].op
                    /\ drafts[s].epoch = epoch
  BY DEF LateDraftStep
<1>1. TypeOK /\ GuardsFresh /\ CallGuarded /\ DraftTypeOK
  BY DEF IInv, DraftIInv
<1>2. ASSUME NEW u \in Threads, Elsewhere(u) PROVE FALSE
  <2>1. u # t /\ OthersStay(u)
    BY <1>1, <1>2, AdmissionStepOthers DEF Elsewhere
  <2> QED BY <2>1 DEF OthersStay
<1>3. ASSUME NEW u \in Threads,
             \/ \E c \in Calls : DraftLock(u, c)
             \/ ReserveDraft(u) \/ EnterDraftWrite(u) \/ RefuseDraft(u)
             \/ LockDraftWriter(u) \/ EndDraft(u) \/ \E x \in Segments : Edit(u, x)
      PROVE  FALSE
  BY <1>3 DEF DraftLock, ReserveDraft, EnterDraftWrite, RefuseDraft, LockDraftWriter, EndDraft,
              Edit, draftVars
<1>4. ASSUME NEW u \in Threads, NEW x \in Segments, Decide(u, x) PROVE FALSE
  BY <1>4 DEF Decide, vars
<1>5. ~(Stopped /\ UNCHANGED draftVars)
  BY DEF draftVars
<1>6. PICK u \in Threads : WriteDraft(u)
  BY <1>2, <1>3, <1>4, <1>5 DEF DraftNext
<1>7. u = t
  BY <1>1, <1>6 DEF WriteDraft, DraftTypeOK
<1>8. s = call[t].seg
  BY <1>1, <1>6, <1>7 DEF WriteDraft, DraftTypeOK
<1> QED BY <1>1, <1>8 DEF CallGuarded, GuardsFresh

\* A delayed save or delete never overwrites newer intent and never lands on a
\* restored database, however many restores came in between.
THEOREM LateDraftRefused == DraftSpec => LateDraftNeverLands
  BY LateDraftNext, DraftInvariant, PTL DEF DraftSpec, LateDraftNeverLands, LateDraftStep
=============================================================================
