------------------------ MODULE GenerationSubmission ------------------------
(***************************************************************************)
(* Selecting, claiming and submitting: generate_order_v1 and               *)
(* generate_attempt_v1 of generation_executor_service, down to the         *)
(* Provider POST of generation_attempt_service.                            *)
(***************************************************************************)
EXTENDS GenerationState

ActiveStatus == IF job.active = 0 THEN "NONE" ELSE attempt[job.active].status

RepairIsPrepared == job.active > 1 /\ ActiveStatus = "PREPARED"

ReconciliationDue == job.status = "RECONCILING" /\ job.nextRetry = "due"

Claimable == job.status \in {"QUEUED", "ACTIVE"} /\ ~job.leaseLive

Start(w, pc, a) == Move(w, At(pc, a))

\* An order-page progress request or the maintenance endpoint picks a step
\* without a lock: the choice may be stale when the claim is tried.
Select(w) ==
  /\ proc[w].pc = "idle"
  /\ \/ ReconciliationDue /\ Start(w, "claimReconciliation", 0)
     \/ Claimable /\ RepairIsPrepared /\ Start(w, "claimAttempt", job.active)
     \/ Claimable /\ ~RepairIsPrepared /\ Start(w, "claimJob", 0)
  /\ UNCHANGED <<rows, provider>>

-----------------------------------------------------------------------------
(* claim_generation_job *)

ClaimRefused(w) ==
  /\ \/ proc[w].pc \in {"claimJob", "claimAttempt"} /\ ~Claimable
     \/ proc[w].pc = "claimAttempt" /\ job.active # proc[w].attempt
  /\ Finish(w)
  /\ UNCHANGED <<rows, provider>>

\* Only work that was never sent may enter submission again.
Resumable == ActiveStatus \notin Unsafe

ClaimRouted(w) ==
  /\ proc[w].pc \in {"claimJob", "claimAttempt"}
  /\ Claimable
  /\ ~Resumable
  /\ job' = [Unleased(job) EXCEPT !.status = "RECONCILING", !.nextRetry = "due"]
  /\ GotoReconcile(w)
  /\ UNCHANGED <<attempt, order, reservation, consentCase, provider>>

ClaimGranted(w) ==
  /\ proc[w].pc \in {"claimJob", "claimAttempt"}
  /\ Claimable
  /\ Resumable
  /\ job' = Leased(job, w)
  /\ Goto(w, IF proc[w].pc = "claimJob" THEN "prepare" ELSE "boundary")
  /\ UNCHANGED <<attempt, order, reservation, consentCase, provider>>

-----------------------------------------------------------------------------
(* prepare_initial_generation_attempt and prepare_submission_boundary *)

Prepared == [status |-> "PREPARED", providerJob |-> 0, accounting |-> "NOT_CAPTURED",
             verdict |-> "none", rejections |-> 0, pollOverdue |-> FALSE]

\* An INITIAL attempt that is under way never gets here: its claim is routed to
\* reconciliation.  One that has ended does, by a choice that a repair made stale.
PrepareInitial(w) ==
  /\ proc[w].pc = "prepare"
  /\ Fence(w)
  /\ \/ /\ attempt[1].status = "NONE"
        /\ attempt' = [attempt EXCEPT ![1] = Prepared]
        /\ job' = [job EXCEPT !.active = 1]
        /\ Start(w, "boundary", 1)
     \/ /\ attempt[1].status = "PREPARED"
        /\ Start(w, "boundary", 1)
        /\ UNCHANGED <<job, attempt>>
     \/ /\ attempt[1].status \in {"FINISHED", "FAILED"}
        /\ Finish(w)
        /\ UNCHANGED <<job, attempt>>
  /\ UNCHANGED <<order, reservation, consentCase, provider>>

\* Every source picture must belong to the customer who ordered; one of the two of
\* a partner order belongs to the partner, so that as the code stands it is refused.
InputsPass == order.partner => PartnerInputsPass

\* Consent stands, the pictures may be used, the attempt was not sent, and its
\* credits are there: held for the INITIAL attempt, already captured for a repair.
MaySubmit(a) ==
  /\ consentCase = "none"
  /\ InputsPass
  /\ attempt[a].status = "PREPARED"
  /\ IF a = 1 THEN reservation.status = "RESERVED" /\ ~reservation.expired
              ELSE job.active = a /\ CaptureLineage

\* SUBMITTING is committed before the request leaves.  The snapshot of an
\* INITIAL attempt is rebuilt, and its rejection history with it.
CommitBoundary(w) ==
  /\ proc[w].pc = "boundary"
  /\ Fence(w)
  /\ MaySubmit(proc[w].attempt)
  /\ attempt' = LET a == proc[w].attempt IN
       WithAttempt(a, [attempt[a] EXCEPT !.status = "SUBMITTING",
                                         !.rejections = IF a = 1 THEN 0 ELSE @])
  /\ order' = [order EXCEPT !.status = "IN_PROGRESS"]
  /\ Goto(w, "post")
  /\ UNCHANGED <<job, reservation, consentCase, provider>>

BoundaryRefused(w) ==
  /\ proc[w].pc = "boundary"
  /\ ~MaySubmit(proc[w].attempt)
  /\ Finish(w)
  /\ UNCHANGED <<rows, provider>>

-----------------------------------------------------------------------------
(* The transactions that record what became of a POST of attempt a.  The      *)
(* session still holds the attempt as the boundary left it, SUBMITTING without *)
(* a task: what others wrote meanwhile is not noticed, only overwritten as far *)
(* as the trigger lets it.  For a repair the same goes for the job.            *)

\* The row of attempt a once EvoLink's task k is known.
Submitted(a, k) ==
  [attempt[a] EXCEPT !.status = "SUBMITTED", !.providerJob = k,
                     !.accounting = IF a = 1 THEN "PENDING" ELSE @]

\* submitted_at, and with it the poll deadline, starts again.  A column is only
\* written where it differs from the remembered job's.
PersistSubmittedFact(w, a, k) ==
  /\ AttemptMayBecome(a, "SUBMITTED")
  /\ attempt' = WithAttempt(a, [Submitted(a, k) EXCEPT !.pollOverdue = FALSE])
  /\ \/ job' = [job EXCEPT !.retryCount = 0]
     \/ ~OwnsJob(w) /\ UNCHANGED job
  /\ Start(w, "capture", a)
  /\ UNCHANGED <<order, reservation, consentCase>>

\* A lost answer taken for a rejection: the attempt may be sent once more.
AmbiguousIsRetried(w, a) ==
  /\ attempt[a].status = "SUBMITTING"
  /\ attempt' = [attempt EXCEPT ![a].status = "PREPARED"]
  /\ job' = Unleased(job)
  /\ Finish(w)
  /\ UNCHANGED <<order, reservation, consentCase>>

\* A task that a callback has bound stays in the row, but nothing schedules a
\* look at it.
MarkSubmissionUnknown(w, a) ==
  /\ JobMayBecome("RECONCILING")
  /\ AttemptMayBecome(a, "UNKNOWN")
  /\ attempt' = [attempt EXCEPT ![a].status = "UNKNOWN"]
  /\ \E when \in IF a = 1 THEN {"none"} ELSE {"none", job.nextRetry} :
       job' = [Unleased(job) EXCEPT !.status = "RECONCILING", !.nextRetry = when]
  /\ order' = [order EXCEPT !.status = "UNKNOWN_EXTERNAL_STATE"]
  /\ GotoReconcile(w)
  /\ UNCHANGED <<reservation, consentCase>>

\* A fourth rejection is refused: generation_preaccept_rejection_history_invalid.
HistoryIsFull(a) == attempt[a].rejections > MaxHistory

RecordPreacceptRejection(w, a, terminal) ==
  \/ /\ ~HistoryIsFull(a) /\ ~terminal
     /\ attempt' = [attempt EXCEPT ![a].rejections = @ + 1]
     /\ \E n \in IF OwnsJob(w) THEN {RetryMore(job.retryCount)} ELSE 1 .. MaxRetries :
          job' = [job EXCEPT !.retryCount = n]
     /\ Move(w, [proc[w] EXCEPT !.pc = "repost", !.retries = @ + 1])
     /\ UNCHANGED <<order, reservation, consentCase>>
  \/ /\ ~HistoryIsFull(a) /\ terminal
     /\ AttemptMayBecome(a, "FAILED")
     /\ attempt' = WithAttempt(a, [attempt[a] EXCEPT !.status = "FAILED",
                                                     !.rejections = @ + 1])
     /\ FailAndSettle(a = 1)
     /\ GotoReconcile(w)
     /\ UNCHANGED consentCase
  \/ /\ HistoryIsFull(a)
     /\ Finish(w)
     /\ UNCHANGED rows

-----------------------------------------------------------------------------
(* The first POST leaves after the boundary's commit: no lock is held and the *)
(* fence is not looked at again.                                              *)

PostAccepted(w) ==
  /\ proc[w].pc = "post"
  /\ Accept(proc[w].attempt)
  /\ Move(w, [proc[w] EXCEPT !.pc = "persist", !.task = FreshTask(proc[w].attempt)])
  /\ UNCHANGED rows

\* A transport error, a 5xx answer or an unreadable body: EvoLink may or may
\* not have taken the task.
PostAmbiguous(w) ==
  /\ proc[w].pc = "post"
  /\ Accept(proc[w].attempt) \/ UNCHANGED provider
  /\ Goto(w, "unknown")
  /\ UNCHANGED rows

IsTerminal(w, retryable) == ~retryable \/ proc[w].retries >= MaxRetries

\* A 4xx answer proves that nothing was accepted; only 429 is retryable.
PostRejected(w) ==
  /\ proc[w].pc = "post"
  /\ \E retryable \in BOOLEAN :
       Goto(w, IF IsTerminal(w, retryable) THEN "rejectTerminal" ELSE "reject")
  /\ UNCHANGED <<rows, provider>>

RecordAcceptance(w) ==
  /\ proc[w].pc = "persist"
  /\ FencePasses(w)
  /\ PersistSubmittedFact(w, proc[w].attempt, proc[w].task)
  /\ UNCHANGED provider

RecordUnknown(w) ==
  /\ proc[w].pc = "unknown"
  /\ FencePasses(w)
  /\ MarkSubmissionUnknown(w, proc[w].attempt)
  /\ UNCHANGED provider

RecordRejection(w) ==
  /\ proc[w].pc \in {"reject", "rejectTerminal"}
  /\ FencePasses(w)
  /\ RecordPreacceptRejection(w, proc[w].attempt, proc[w].pc = "rejectTerminal")
  /\ UNCHANGED provider

\* A POST repeated after 429 leaves with the job row locked by its fence, so
\* the call and the transaction that records its answer are one step for
\* everyone else.  The answer is lost if the invocation dies, or its lease runs
\* out, before the commit.
Repost(w) ==
  /\ proc[w].pc = "repost"
  /\ FencePasses(w)
  /\ \/ /\ Accept(proc[w].attempt)
        /\ PersistSubmittedFact(w, proc[w].attempt, FreshTask(proc[w].attempt))
     \/ /\ Accept(proc[w].attempt) \/ UNCHANGED provider
        /\ MarkSubmissionUnknown(w, proc[w].attempt)
     \/ /\ \E retryable \in BOOLEAN :
             RecordPreacceptRejection(w, proc[w].attempt, IsTerminal(w, retryable))
        /\ UNCHANGED provider
     \/ /\ Accept(proc[w].attempt)
        /\ Finish(w)
        /\ UNCHANGED rows

-----------------------------------------------------------------------------
(* capture_initial_submission, require_repair_submission_capture and the     *)
(* pause that hands the accepted task over to reconciliation                 *)

\* capture_reservation, a no-op once it has happened.
MayCapture == reservation.status \in {"RESERVED", "CAPTURED"}

CaptureSubmission(w) ==
  /\ proc[w].pc = "capture"
  /\ FencePasses(w)
  /\ \/ /\ proc[w].attempt = 1 /\ MayCapture
        /\ reservation' = Captured(reservation)
        /\ attempt' = [attempt EXCEPT ![1].accounting = "CAPTURED"]
     \/ /\ proc[w].attempt > 1 /\ CaptureLineage
        /\ UNCHANGED <<reservation, attempt>>
  /\ Goto(w, "pause")
  /\ UNCHANGED <<job, order, consentCase, provider>>

\* A pause that forgets to schedule the next look at the task.
PausedUnscheduled(j, when) == [Unleased(j) EXCEPT !.status = "RECONCILING", !.nextRetry = "none"]

\* pause_generation_reconciliation
Paused(j, when) == [Unleased(j) EXCEPT !.status = "RECONCILING", !.nextRetry = when]

PauseSubmitted(w) ==
  /\ proc[w].pc = "pause"
  /\ FencePasses(w)
  /\ JobMayBecome("RECONCILING")
  /\ job' = Paused(job, "later")
  /\ GotoReconcile(w)
  /\ UNCHANGED <<attempt, order, reservation, consentCase, provider>>

Submission(w) ==
  \/ ClaimRefused(w) \/ ClaimRouted(w) \/ ClaimGranted(w)
  \/ PrepareInitial(w) \/ CommitBoundary(w) \/ BoundaryRefused(w)
  \/ PostAccepted(w) \/ PostAmbiguous(w) \/ PostRejected(w)
  \/ RecordAcceptance(w) \/ RecordUnknown(w) \/ RecordRejection(w)
  \/ Repost(w) \/ CaptureSubmission(w) \/ PauseSubmitted(w)

=============================================================================
