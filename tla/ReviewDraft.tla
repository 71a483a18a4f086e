----------------------------- MODULE ReviewDraft -----------------------------
(***************************************************************************)
(* Crash-safe desktop review drafts (stores/review_draft.rs) behind the    *)
(* restore admission.  The renderer first reserves an operation id for a   *)
(* segment, then saves or deletes the draft under it.  The reservation     *)
(* fences late calls: a newer reservation and a database restore both      *)
(* invalidate it.  Other threads decide and edit the same segment, and     *)
(* restores replace the whole database.                                    *)
(*                                                                         *)
(* The threads are those of RestoreAdmission; call[t] is the draft command *)
(* a thread serves, None when it serves none.                              *)
(***************************************************************************)
EXTENDS RestoreAdmission

CONSTANTS
  Segments,      \* segment ids
  Operations,    \* opaque operation ids of the renderer
  MaxRevision,   \* bound on review_revision
  None

ASSUME DraftAssumption ==
  /\ MaxRevision \in Nat
  /\ None \notin [op : Operations, gen : Nat, epoch : Nat]
  /\ None \notin [op : Operations, rev : Nat]
  /\ None \notin [kind : {"reserve", "save", "delete"}, seg : Segments, op : Operations, rev : Nat]

VARIABLES
  draftOwner,    \* who holds the review_draft_writes mutex
  call,          \* the draft command each thread serves
  drafts,        \* review_draft_writes: the reservation of each segment
  rows,          \* review_drafts rows: operation (for the text) and base_revision
  revision,      \* speech_segments.review_revision
  decided        \* observer: revisions decided on the live database

draftVars == <<draftOwner, call, drafts, rows, revision, decided>>
allVars == <<vars, draftVars>>

Revisions == 0 .. MaxRevision
Calls == [kind : {"reserve", "save", "delete"}, seg : Segments, op : Operations, rev : Revisions]

DraftInit ==
  /\ Init
  /\ draftOwner = NoThread
  /\ call = [t \in Threads |-> None]
  /\ drafts = [s \in Segments |-> None]
  /\ rows = [s \in Segments |-> None]
  /\ revision = [s \in Segments |-> 0]
  /\ decided = [s \in Segments |-> {}]

\* The reservation lock is kept until the operation completes.
KeepDraftLock == UNCHANGED draftOwner

\* The operation id must be the reserved one; the mutant accepts any reservation.
AnyReservation(reservation, op) == reservation # None
OwnReservation(reservation, op) == reservation # None /\ reservation.op = op

\* `save` compares base_revision with the row's revision; the mutant does not.
RevisionIgnored(s, rev) == TRUE
RevisionCurrent(s, rev) == revision[s] = rev

Return(t) ==
  /\ call' = [call EXCEPT ![t] = None]
  /\ draftOwner' = NoThread

-----------------------------------------------------------------------------
\* A draft command takes the review_draft_writes mutex.
DraftLock(t, c) ==
  /\ pc[t] = "idle" /\ call[t] = None /\ draftOwner = NoThread
  /\ draftOwner' = t
  /\ call' = [call EXCEPT ![t] = c]
  /\ UNCHANGED <<vars, drafts, rows, revision, decided>>

\* reserve_review_draft_write: the map gets the current restore generation.
ReserveDraft(t) ==
  /\ call[t] # None /\ call[t].kind = "reserve"
  /\ CaptureGeneration(t)
  /\ drafts' = [drafts EXCEPT ![call[t].seg] =
                  [op |-> call[t].op, gen |-> generation, epoch |-> epoch]]
  /\ Return(t)
  /\ UNCHANGED <<rows, revision, decided>>

\* with_reserved_review_draft_write: enter the mutation at the reserved generation.
EnterDraftWrite(t) ==
  /\ call[t] # None /\ call[t].kind # "reserve"
  /\ LET reservation == drafts[call[t].seg]
     IN /\ OwnReservation(reservation, call[t].op)
        /\ BeginMutationAtGeneration(t, [gen |-> reservation.gen, epoch |-> reservation.epoch])
  /\ KeepDraftLock
  /\ UNCHANGED <<call, drafts, rows, revision, decided>>

\* Either call is refused: a restore is pending, the reservation is missing or
\* another operation's, or its generation is gone.
RefuseDraft(t) ==
  /\ call[t] # None /\ pc[t] = "idle" /\ AdmissionFree
  /\ \/ ~Open
     \/ /\ call[t].kind # "reserve"
        /\ ~(/\ OwnReservation(drafts[call[t].seg], call[t].op)
             /\ SameGeneration(drafts[call[t].seg]))
  /\ Return(t)
  /\ UNCHANGED <<vars, drafts, rows, revision, decided>>

\* Mutant: the writer is taken without the mutation guard.
LockDraftWriterUnguarded(t) ==
  /\ call[t] # None /\ pc[t] = "idle" /\ writer = NoThread
  /\ writer' = t
  /\ Goto(t, "mutWriting")
  /\ UNCHANGED <<pending, captures, mutations, generation, phase, waiting, admOwner,
                 permits, gen, tokens, epoch, seen, draftVars>>

LockDraftWriter(t) ==
  /\ call[t] # None
  /\ LockAfterMutation(t)
  /\ UNCHANGED draftVars

\* The transaction of `save` or `delete_if_revision`; the writer, the mutation
\* and the reservation lock are released one after the other.
WriteDraft(t) ==
  /\ call[t] # None
  /\ UnlockAfterMutation(t)
  /\ LET s == call[t].seg
         save == call[t].kind = "save" /\ RevisionCurrent(s, call[t].rev)
         delete == call[t].kind = "delete" /\ rows[s] # None /\ rows[s].rev = call[t].rev
     IN rows' = [rows EXCEPT ![s] = IF save THEN [op |-> call[t].op, rev |-> call[t].rev]
                                    ELSE IF delete THEN None ELSE @]
  /\ UNCHANGED <<draftOwner, call, drafts, revision, decided>>

EndDraft(t) ==
  /\ call[t] # None
  /\ DropMutation(t)
  /\ Return(t)
  /\ UNCHANGED <<drafts, rows, revision, decided>>

-----------------------------------------------------------------------------
\* A desktop decision on a segment, in another thread's mutation: it deletes the
\* draft of the revision it decides and the revision trigger counts up.
Decide(t, s) ==
  /\ call[t] = None /\ pc[t] = "mutWriting" /\ revision[s] < MaxRevision
  /\ rows' = [rows EXCEPT ![s] = IF @ # None /\ @.rev = revision[s] THEN None ELSE @]
  /\ revision' = [revision EXCEPT ![s] = @ + 1]
  /\ decided' = [decided EXCEPT ![s] = @ \cup {revision[s]}]
  /\ UNCHANGED <<vars, draftOwner, call, drafts>>

\* Any other update of the segment counts the revision up and keeps the draft.
Edit(t, s) ==
  /\ call[t] = None /\ pc[t] \in {"writing", "mutWriting"} /\ revision[s] < MaxRevision
  /\ revision' = [revision EXCEPT ![s] = @ + 1]
  /\ UNCHANGED <<vars, draftOwner, call, drafts, rows, decided>>

\* Every other step of the admission, by a thread outside a draft call.  When it
\* replaces the database, segments fall back to a revision of the snapshot, with
\* whatever draft the snapshot holds.
Elsewhere(t) ==
  /\ call[t] = None
  /\ Begin(t) \/ Continue(t) \/ Detour(t)
  /\ IF epoch' = epoch
       THEN UNCHANGED <<rows, revision, decided>>
       ELSE /\ revision' \in {r \in [Segments -> Revisions] : \A s \in Segments : r[s] <= revision[s]}
            /\ rows' \in {r \in [Segments -> [op : Operations, rev : Revisions] \cup {None}] :
                            \A s \in Segments : r[s] # None => r[s].rev <= revision'[s]}
            /\ decided' = [s \in Segments |-> {}]
  /\ UNCHANGED <<draftOwner, call, drafts>>

DraftNext ==
  \/ \E t \in Threads :
       \/ \E c \in Calls : DraftLock(t, c)
       \/ ReserveDraft(t)
       \/ EnterDraftWrite(t)
       \/ RefuseDraft(t)
       \/ LockDraftWriter(t)
       \/ WriteDraft(t)
       \/ EndDraft(t)
       \/ \E s \in Segments : Decide(t, s) \/ Edit(t, s)
       \/ Elsewhere(t)
  \/ Stopped /\ UNCHANGED draftVars

DraftSpec == DraftInit /\ [][DraftNext]_allVars

-----------------------------------------------------------------------------
(* Properties. *)

\* Types; and a draft call holds the review_draft_writes mutex throughout.
DraftTypeOK ==
  /\ \A t \in Threads : call[t] # None => draftOwner = t
  /\ draftOwner \in Threads \cup {NoThread}
  /\ call \in [Threads -> Calls \cup {None}]
  /\ drafts \in [Segments -> [op : Operations, gen : Nat, epoch : Nat] \cup {None}]
  /\ rows \in [Segments -> [op : Operations, rev : Revisions] \cup {None}]
  /\ revision \in [Segments -> Revisions]

\* A draft call changes a row only while its operation is the latest reserved one
\* and the database is the one it was reserved on: a save that was delayed (by
\* the writer, a backup, a timed-out renderer) never overwrites newer intent and
\* never lands on a restored database.
LateDraftNeverLands ==
  [][\A t \in Threads, s \in Segments :
       call[t] # None /\ pc[t] = "mutWriting" /\ pc'[t] # pc[t] /\ rows'[s] # rows[s] =>
         /\ s = call[t].seg
         /\ drafts[s] # None
         /\ drafts[s].op = call[t].op
         /\ drafts[s].epoch = epoch]_allVars

\* The draft of a revision that a person has decided never comes back: a save
\* that lost the race against the decision is refused.
DecidedDraftStaysGone ==
  \A s \in Segments : rows[s] # None => rows[s].rev \notin decided[s]

\* The draft store changes nothing about admission: as seen by the admission,
\* its calls are captures, mutations and writer locks like any other.
ImplementsAdmission == Spec
=============================================================================
