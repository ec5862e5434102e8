---------------------- MODULE GenerationReconciliation ----------------------
(***************************************************************************)
(* reconcile_generation_v1: the claim, and _execute_generation_            *)
(* reconciliation's way from an accepted task through the Provider's       *)
(* answer, the stored candidate, QA and repair to delivery or settlement.  *)
(***************************************************************************)
EXTENDS GenerationSubmission

(* claim_generation_reconciliation *)

ReconciliationClaimable == job.status = "RECONCILING" /\ ~job.leaseLive

ReconciliationRefused(w) ==
  /\ proc[w].pc = "claimReconciliation"
  /\ ~(ReconciliationClaimable /\ ActiveStatus \in Unsafe)
  /\ Finish(w)
  /\ UNCHANGED <<rows, provider>>

\* A SUBMITTING row found here was left by an invocation that is gone: whether
\* its POST arrived is not known, and only an operator can say.
SubmittingIsUnknown ==
  IF ActiveStatus = "SUBMITTING"
    THEN /\ attempt' = [attempt EXCEPT ![job.active].status = "UNKNOWN"]
         /\ order' = [order EXCEPT !.status = "UNKNOWN_EXTERNAL_STATE"]
    ELSE UNCHANGED <<attempt, order>>

ReconciliationGranted(w) ==
  /\ proc[w].pc = "claimReconciliation"
  /\ ReconciliationClaimable
  /\ ActiveStatus \in Unsafe
  /\ SubmittingIsUnknown
  /\ job' = [Leased(job, w) EXCEPT !.nextRetry = "none"]
  /\ Start(w, "load", job.active)
  /\ UNCHANGED <<reservation, consentCase, provider>>

-----------------------------------------------------------------------------
(* settle_open_partner_consent_case_after_provider.  It locks the invite,    *)
(* the case, the order and the job, and never looks at the caller's fence.   *)

CaseMoney ==
  CASE reservation.status = "RESERVED" -> Released(reservation)
    [] reservation.status = "CAPTURED" /\ order.downloaded = {} ->
         Refunded(reservation, "partner-provider-refund")
    [] OTHER -> reservation

CaseSettlementName ==
  IF reservation.status = "CAPTURED"
    THEN IF order.downloaded = {} THEN "REFUNDED" ELSE "CAPTURED"
    ELSE "RELEASED"

CaseIsSettleable ==
  /\ consentCase = "OPEN"
  /\ job.status \in {"ACTIVE", "RECONCILING", "CANCELLED"}

SettleCase(a) ==
  /\ CaseIsSettleable
  /\ reservation' = CaseMoney
  /\ attempt' = IF attempt[a].status \in {"FAILED", "FINISHED"}
                  THEN attempt
                  ELSE [attempt EXCEPT ![a].status = "FAILED"]
  /\ job' = [Unleased(job) EXCEPT !.status = "CANCELLED"]
  /\ order' = [order EXCEPT !.status = "CONSENT_REVIEW_REQUIRED", !.delivery = "REVOKED",
                            !.settlement = CaseSettlementName]
  /\ consentCase' = "SETTLED_DELETION_PENDING"

-----------------------------------------------------------------------------
(* _load_reconciliation_attempt and ensure_accepted_submission_accounting    *)

Loadable(a) ==
  /\ job.active = a
  /\ attempt[a].status \in {"SUBMITTED", "UNKNOWN", "FINISHED"}

\* The attempt is an accepted submission, its capture finished.
Accounted(a) ==
  \/ /\ a = 1 /\ attempt[1].accounting = "PENDING" /\ MayCapture
     /\ reservation' = Captured(reservation)
     /\ attempt' = [attempt EXCEPT ![1].status = "SUBMITTED", ![1].accounting = "CAPTURED"]
  \/ /\ \/ a = 1 /\ attempt[1].accounting = "CAPTURED"
        \/ a > 1 /\ attempt[a].accounting = "NOT_CAPTURED" /\ CaptureLineage
     /\ attempt' = [attempt EXCEPT ![a].status = "SUBMITTED"]
     /\ UNCHANGED reservation

\* Finish the capture that a crash may have left open, before the task's result
\* is consumed.
AccountForSubmission(w) ==
  LET a == proc[w].attempt IN
  /\ proc[w].pc = "load"
  /\ Fence(w) /\ Loadable(a)
  /\ attempt[a].status = "SUBMITTED"
  /\ Accounted(a)
  /\ Goto(w, "query")
  /\ UNCHANGED <<job, order, consentCase, provider>>

\* Without a Provider task there is nothing to ask: the job waits for an operator.
PauseForOperator(w) ==
  LET a == proc[w].attempt IN
  /\ proc[w].pc = "load"
  /\ Fence(w) /\ Loadable(a)
  /\ attempt[a].status = "UNKNOWN" /\ attempt[a].providerJob = 0
  /\ job' = Paused(job, "none")
  /\ Finish(w)
  /\ UNCHANGED <<attempt, order, reservation, consentCase, provider>>

ResumeAtQa(w) ==
  /\ proc[w].pc = "load"
  /\ Fence(w) /\ Loadable(proc[w].attempt)
  /\ attempt[proc[w].attempt].status = "FINISHED"
  /\ Goto(w, "qa")
  /\ UNCHANGED <<rows, provider>>

LoadRefused(w) ==
  /\ proc[w].pc = "load"
  /\ ~Loadable(proc[w].attempt)
  /\ Finish(w)
  /\ UNCHANGED <<rows, provider>>

-----------------------------------------------------------------------------
(* reconcile_evolink_attempt: the query runs with the job row locked, so it   *)
(* and the transaction that acts on its answer are one step.                  *)

QueriedTask(a) == provider[a][attempt[a].providerJob]

\* The attempt is remembered as SUBMITTED, even if a late StoreCandidate has
\* finished it meanwhile.
MayQuery(w) == proc[w].pc = "query" /\ Fence(w)

\* An UNKNOWN attempt is asked for as soon as it is loaded, if a callback had
\* bound its task.
MayQueryUnknown(w) ==
  LET a == proc[w].attempt IN
  /\ proc[w].pc = "load"
  /\ Fence(w) /\ Loadable(a)
  /\ attempt[a].status = "UNKNOWN" /\ attempt[a].providerJob # 0

\* A retry budget that is never used up.
BudgetUnlimited == TRUE

\* _retry_reconciliation still has a retry to spend.
BudgetLeft == job.retryCount < MaxRetries

RetryLater == job' = [Paused(job, "later") EXCEPT !.retryCount = RetryMore(@)]

\* The task is still running, or the query itself failed in a retryable way.
QueryPending(w) ==
  /\ MayQuery(w)
  /\ \E transient \in BOOLEAN :
       /\ ~transient => QueriedTask(proc[w].attempt) = "running"
       /\ \/ /\ attempt[proc[w].attempt].pollOverdue \/ (transient /\ ~BudgetLeft)
             /\ FailAndSettle(FALSE)
          \/ /\ ~attempt[proc[w].attempt].pollOverdue /\ transient /\ BudgetLeft
             /\ RetryLater
             /\ UNCHANGED <<reservation, order>>
          \/ /\ ~attempt[proc[w].attempt].pollOverdue /\ ~transient
             /\ job' = Paused(job, "later")
             /\ UNCHANGED <<reservation, order>>
  /\ Finish(w)
  /\ UNCHANGED <<attempt, consentCase, provider>>

\* What is still held for an attempt that was UNKNOWN is released, although
\* EvoLink had accepted it.
QueryFailed(w) ==
  LET a == proc[w].attempt IN
  /\ MayQuery(w) \/ MayQueryUnknown(w)
  /\ QueriedTask(a) = "failed"
  /\ \/ /\ SettleCase(a)
     \/ /\ consentCase # "OPEN"
        /\ AttemptMayBecome(a, "FAILED")
        /\ attempt' = [attempt EXCEPT ![a].status = "FAILED"]
        /\ FailAndSettle(MayQueryUnknown(w))
        /\ UNCHANGED consentCase
  /\ Finish(w)
  /\ UNCHANGED provider

\* The candidate service begins in the transaction of the query.
QuerySucceeded(w) ==
  LET a == proc[w].attempt IN
  /\ MayQuery(w)
  /\ QueriedTask(a) \in {"succeeded", "unusable"}
  /\ \/ SettleCase(a) /\ Finish(w)
     \/ /\ consentCase = "none"
        /\ Goto(w, "store")
        /\ UNCHANGED rows
  /\ UNCHANGED provider

\* The answer makes an UNKNOWN attempt a SUBMITTED one and is committed with its
\* capture before it is acted on.
QueryAnswered(w) ==
  LET a == proc[w].attempt IN
  /\ MayQueryUnknown(w)
  /\ QueriedTask(a) # "failed"
  /\ Accounted(a)
  /\ Goto(w, IF QueriedTask(a) = "running" THEN "polled" ELSE "answered")
  /\ UNCHANGED <<job, order, consentCase, provider>>

\* Without an answer the attempt stays UNKNOWN, which no capture accepts: the
\* exception spends no retry and leaves the claim behind.
QueryRaises(w) ==
  /\ MayQueryUnknown(w)
  /\ Finish(w)
  /\ UNCHANGED <<rows, provider>>

PolledAgain(w) ==
  /\ proc[w].pc = "polled"
  /\ Fence(w)
  /\ \/ attempt[proc[w].attempt].pollOverdue /\ FailAndSettle(FALSE)
     \/ /\ ~attempt[proc[w].attempt].pollOverdue
        /\ job' = Paused(job, "later")
        /\ UNCHANGED <<reservation, order>>
  /\ Finish(w)
  /\ UNCHANGED <<attempt, consentCase, provider>>

\* Where an OPEN withdrawal is settled without a fence: at once after the answer,
\* unless the attempt, remembered as SUBMITTED, has been finished by another.
SettlesUnfenced(w) ==
  \/ proc[w].pc \in {"qa", "decide"}
  \/ proc[w].pc = "answered" /\ AttemptMayBecome(proc[w].attempt, "FAILED")

AnswerUsed(w) ==
  /\ proc[w].pc = "answered"
  /\ \/ SettlesUnfenced(w) /\ SettleCase(proc[w].attempt) /\ Finish(w)
     \/ /\ consentCase = "none" /\ Fence(w)
        /\ Goto(w, "store")
        /\ UNCHANGED rows
  /\ UNCHANGED provider

-----------------------------------------------------------------------------
(* persist_evolink_candidate and run_and_persist_strict_qa, after their       *)
(* external calls: consent and an existing verdict are read again, the job    *)
(* and the attempt are the remembered ones.                                   *)

\* The transactions after fetching and storing the candidate.
StoreCandidate(w) ==
  LET a == proc[w].attempt IN
  /\ proc[w].pc = "store"
  /\ FencePasses(w)
  /\ consentCase = "none"
  /\ QueriedTask(a) = "succeeded"
  /\ AttemptMayBecome(a, "FINISHED")
  /\ attempt' = [attempt EXCEPT ![a].status = "FINISHED"]
  /\ order' = [order EXCEPT !.status = "IN_PROGRESS"]
  /\ Goto(w, "qa")
  /\ UNCHANGED <<job, reservation, consentCase, provider>>

\* The output cannot be fetched, duplicates a source or fails its integrity
\* check, or consent is gone: the exception leaves the claim behind.
StoreFails(w) ==
  /\ proc[w].pc = "store"
  /\ consentCase # "none" \/ QueriedTask(proc[w].attempt) = "unusable"
  /\ Finish(w)
  /\ UNCHANGED <<rows, provider>>

\* Before QA an OPEN withdrawal is settled instead.  The fence of the retry
\* budget and QA's own are one transaction, and remember the retries spent.
BeginQa(w) ==
  /\ proc[w].pc = "qa"
  /\ \/ SettleCase(proc[w].attempt) /\ Finish(w)
     \/ /\ consentCase = "none" /\ Fence(w)
        /\ Move(w, [proc[w] EXCEPT !.pc = "evaluate", !.retries = job.retryCount])
        /\ UNCHANGED rows
  /\ UNCHANGED provider

MayEvaluate(w) ==
  /\ proc[w].pc = "evaluate"
  /\ FencePasses(w)
  /\ consentCase = "none"

\* One immutable verdict per attempt.  A QA infrastructure failure becomes a
\* REJECT once the retries are used up.
PersistVerdict(w) ==
  LET a == proc[w].attempt IN
  /\ MayEvaluate(w)
  /\ \/ /\ attempt[a].verdict = "none"
        /\ \E v \in {"PASS", "REPAIR", "REJECT"} :
             attempt' = [attempt EXCEPT ![a].verdict = v]
     \/ /\ attempt[a].verdict # "none"
        /\ UNCHANGED attempt
  /\ Goto(w, "decide")
  /\ UNCHANGED <<job, order, reservation, consentCase, provider>>

\* What the QA service has recorded is committed before its exception is caught.
QaInfrastructureFails(w) ==
  /\ MayEvaluate(w)
  /\ attempt[proc[w].attempt].verdict = "none"
  /\ proc[w].retries < MaxRetries
  /\ Goto(w, "retryQa")
  /\ UNCHANGED <<rows, provider>>

\* The exception's traceback still holds the job of the QA service.
RetryQa(w) ==
  /\ proc[w].pc = "retryQa"
  /\ FencePasses(w)
  /\ JobMayBecome("RECONCILING")
  /\ job' = [Paused(job, "later") EXCEPT !.retryCount = proc[w].retries + 1]
  /\ Finish(w)
  /\ UNCHANGED <<attempt, order, reservation, consentCase, provider>>

EvaluateRefused(w) ==
  /\ proc[w].pc = "evaluate"
  /\ consentCase # "none"
  /\ Finish(w)
  /\ UNCHANGED <<rows, provider>>

-----------------------------------------------------------------------------
(* decide_next_generation_action *)

MayRepair(a) == attempt[a].verdict = "REPAIR" /\ job.repairCount < MaxRepairs

SettleInsteadOfDecision(w) ==
  /\ proc[w].pc = "decide"
  /\ SettleCase(proc[w].attempt)
  /\ Finish(w)
  /\ UNCHANGED provider

\* The delivery service begins in the transaction of the decision.
DecidePass(w) ==
  /\ proc[w].pc = "decide"
  /\ consentCase = "none" /\ Fence(w)
  /\ attempt[proc[w].attempt].verdict = "PASS"
  /\ Goto(w, "deliver")
  /\ UNCHANGED <<rows, provider>>

\* The repair row is created PREPARED and made active; the lease is given up
\* with the job still ACTIVE, so that the next step may claim it.
DecideRepair(w) ==
  LET a == proc[w].attempt
      next == job.repairCount + 2 IN
  /\ proc[w].pc = "decide"
  /\ consentCase # "OPEN" /\ Fence(w)
  /\ MayRepair(a) /\ CaptureLineage
  /\ attempt' = [attempt EXCEPT ![next] = Prepared]
  /\ job' = [Unleased(job) EXCEPT !.repairCount = @ + 1, !.active = next]
  /\ order' = [order EXCEPT !.status = "IN_PROGRESS"]
  /\ Finish(w)
  /\ UNCHANGED <<reservation, consentCase, provider>>

DecideFail(w) ==
  LET a == proc[w].attempt IN
  /\ proc[w].pc = "decide"
  /\ consentCase # "OPEN" /\ Fence(w)
  /\ attempt[a].verdict # "PASS" /\ ~MayRepair(a)
  /\ FailAndSettle(FALSE)
  /\ Finish(w)
  /\ UNCHANGED <<attempt, consentCase, provider>>

-----------------------------------------------------------------------------
(* build_delivery_assets, its retries and its terminal cleanup *)

\* What delivery asks of the order: an order from a partner invite has none.
Deliverable(a) ==
  /\ ~order.partner
  /\ consentCase = "none"
  /\ attempt[a].verdict = "PASS"

\* A delivery published whatever has become of the job meanwhile.
MayDeliverUnguarded(w) ==
  /\ proc[w].pc = "deliver"
  /\ Deliverable(proc[w].attempt)

\* Its last transaction, after storing the artifacts, fences on the job it
\* remembers; the trigger refuses a job that has failed or was cancelled.
MayDeliver(w) ==
  /\ proc[w].pc = "deliver"
  /\ FencePasses(w)
  /\ Deliverable(proc[w].attempt)
  /\ JobMayBecome("FINISHED")

Deliver(w) ==
  /\ MayDeliver(w)
  /\ reservation.status = "CAPTURED"
  /\ order' = [order EXCEPT !.status = "READY", !.settlement = "CAPTURED",
                            !.delivery = "READY"]
  /\ job' = [Unleased(job) EXCEPT !.status = "FINISHED"]
  /\ Finish(w)
  /\ UNCHANGED <<attempt, reservation, consentCase, provider>>

\* The rollback forgets every object, so this fence reads the row.  The cleanup
\* of the last failure raises for what could not be delivered in the first place.
DeliveryFails(w) ==
  /\ proc[w].pc = "deliver"
  /\ Fence(w)
  /\ \/ BudgetLeft /\ RetryLater /\ UNCHANGED <<order, reservation>>
     \/ ~BudgetLeft /\ Deliverable(proc[w].attempt) /\ FailAndSettle(FALSE)
     \/ ~BudgetLeft /\ ~Deliverable(proc[w].attempt) /\ UNCHANGED <<job, order, reservation>>
  /\ Finish(w)
  /\ UNCHANGED <<attempt, consentCase, provider>>

Reconciliation(w) ==
  \/ ReconciliationRefused(w) \/ ReconciliationGranted(w)
  \/ AccountForSubmission(w) \/ PauseForOperator(w) \/ ResumeAtQa(w) \/ LoadRefused(w)
  \/ QueryPending(w) \/ QueryFailed(w) \/ QuerySucceeded(w)
  \/ QueryAnswered(w) \/ QueryRaises(w) \/ PolledAgain(w) \/ AnswerUsed(w)
  \/ StoreCandidate(w) \/ StoreFails(w)
  \/ BeginQa(w) \/ PersistVerdict(w) \/ QaInfrastructureFails(w) \/ RetryQa(w)
  \/ EvaluateRefused(w)
  \/ SettleInsteadOfDecision(w) \/ DecidePass(w) \/ DecideRepair(w) \/ DecideFail(w)
  \/ Deliver(w) \/ DeliveryFails(w)

=============================================================================
