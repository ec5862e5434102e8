------------------------- MODULE GenerationLifecycle -------------------------
(***************************************************************************)
(* One generation order from the transaction that created it, which held   *)
(* the credits and queued the job, to its settlement: several backend      *)
(* invocations race for the job while the Provider, an operator, a partner *)
(* and the clock act on it.                                                *)
(***************************************************************************)
EXTENDS GenerationOutside

\* create_order_transaction_graph has committed.
Init ==
  /\ job = [status |-> "QUEUED", holder |-> None, leaseLive |-> FALSE, nextRetry |-> "none",
            retryCount |-> 0, repairCount |-> 0, active |-> 0]
  /\ attempt = [a \in Attempts |-> [Prepared EXCEPT !.status = "NONE"]]
  /\ \E partner \in PartnerOrders :
       order = [partner |-> partner, status |-> "IN_PROGRESS", settlement |-> "RESERVED",
                delivery |-> "PENDING", downloaded |-> {}]
  /\ reservation = [status |-> "RESERVED", expired |-> FALSE, refunds |-> {}]
  /\ consentCase = "none"
  /\ provider = [a \in Attempts |-> [k \in Tasks |-> "none"]]
  /\ proc = [w \in Workers |-> Idle]

\* Nothing is left to do: the order is settled, everybody has gone home.
Quiescent ==
  /\ job.status \in TerminalJob
  /\ \A w \in Workers : proc[w].pc = "idle"
  /\ UNCHANGED vars

Work(w) == Submission(w) \/ Reconciliation(w) \/ LostFence(w) \/ Restart(w)

Operator == ResolveBind \/ ResolveFail

Next ==
  \/ \E w \in Workers : Select(w) \/ Work(w) \/ Crash(w)
  \/ DeadLeaseExpires \/ LiveLeaseExpires \/ RetryFallsDue \/ ReservationTimesOut
  \/ \E a \in Attempts : PollDeadlinePasses(a)
  \/ \E a \in Attempts, k \in Tasks : TaskEnds(a, k) \/ Callback(a, k)
  \/ Operator
  \/ Withdraw \/ Download
  \/ Quiescent

Spec == Init /\ [][Next]_vars

(***************************************************************************)
(* What the deployment drives: order-page requests and the maintenance     *)
(* endpoint keep selecting due work, an invocation that is running goes    *)
(* on, clocks advance, EvoLink ends every task it accepted, and an         *)
(* operator works through the manual queue.  Nothing is assumed of         *)
(* callbacks, which may all be lost.                                       *)
(***************************************************************************)
Fairness ==
  /\ \A w \in Workers : WF_vars(Select(w)) /\ WF_vars(Work(w))
  /\ WF_vars(DeadLeaseExpires) /\ WF_vars(RetryFallsDue)
  /\ \A a \in Attempts : WF_vars(PollDeadlinePasses(a))
  /\ \A a \in Attempts, k \in Tasks : WF_vars(TaskEnds(a, k))
  /\ WF_vars(Operator)

FairSpec == Spec /\ Fairness

-----------------------------------------------------------------------------
(* Money *)

NotRefunded == reservation.refunds = {}
RefundedOnce == Cardinality(reservation.refunds) = 1

\* What became of the credits agrees with what became of the order.  While the
\* job is open nothing has been given back; a failed or cancelled one has
\* released the held credits or refunded the captured ones exactly once, under
\* one idempotency key out of the four that could; a finished one stays paid.
\* The four settlements are in generation_repair_service, generation_manual_
\* settlement_service and (twice) partner_invite_service, and a repair whose
\* job was taken over may still reach the first with the claim it remembers.
MoneyMatchesOutcome ==
  CASE job.status \notin TerminalJob ->
         reservation.status \in {"RESERVED", "CAPTURED"} /\ NotRefunded
    [] job.status \in {"FAILED", "CANCELLED"} ->
         \/ reservation.status = "RELEASED" /\ NotRefunded
         \/ reservation.status = "CAPTURED" /\ RefundedOnce
    [] job.status = "FINISHED" ->
         reservation.status = "CAPTURED" /\ NotRefunded

\* Credits are captured only for a submission that EvoLink accepted, and given
\* back untouched only if nothing can come of it: whatever the order of POST,
\* crash, callback, takeover and operator ruling, EvoLink accepted no task, or
\* the ones it accepted have failed (capture_initial_submission,
\* ensure_accepted_submission_accounting, resolve_generation_manual_case,
\* _execute_generation_reconciliation's allow_release_reserved).
ChargedIffAccepted ==
  /\ reservation.status = "CAPTURED" => AcceptedTasks(1) # {}
  /\ reservation.status = "RELEASED" => \A k \in AcceptedTasks(1) : provider[1][k] = "failed"

\* "Never replay an ambiguous POST" (submit_generation_attempt): an attempt ends
\* up with at most one Provider task, which somebody pays for.
AtMostOneTaskPerAttempt == \A a \in Attempts : Cardinality(AcceptedTasks(a)) <= 1

-----------------------------------------------------------------------------
(* Attempts *)

\* The attempts form one chain: every attempt before the active one produced a
\* candidate that QA sent to repair, none follows it, and repair_count counts
\* them; repairs exist only on the captured INITIAL attempt
\* (decide_next_generation_action, validate_repair_capture_provenance).
RepairChain ==
  /\ job.active = IF attempt[1].status = "NONE" THEN 0 ELSE job.repairCount + 1
  /\ \A a \in Attempts :
       /\ a < job.active => attempt[a].status = "FINISHED" /\ attempt[a].verdict = "REPAIR"
       /\ a > job.active => attempt[a].status = "NONE"
  /\ job.active > 1 => CaptureLineage

\* A job that waits for reconciliation without a retry time is in the operators'
\* queue ("remaining cases stay visible", docs/OPERATIONS_RUNBOOK.md:41), unless
\* its UNKNOWN attempt has a task: nobody else would ever look at it again.  For
\* a repair the code does not keep even that, since mark_submission_unknown may
\* follow a takeover.  A withdrawal takes an order out of both.
NeverOrphaned ==
  job.status = "RECONCILING" /\ job.nextRetry = "none" /\ job.active = 1 /\ consentCase = "none"
    => ManualCase \/ (attempt[1].status = "UNKNOWN" /\ attempt[1].providerJob # 0)

\* A delivery is published only for a passing candidate of the active attempt,
\* paid for, not refunded, with consent standing (build_delivery_assets against
\* every settlement and withdrawal that may race it).
DeliveredMeansPaid ==
  order.delivery = "READY" =>
    /\ job.status = "FINISHED"
    /\ attempt[job.active].verdict = "PASS"
    /\ reservation.status = "CAPTURED" /\ NotRefunded
    /\ consentCase = "none"

-----------------------------------------------------------------------------
(* Steps *)

\* An invocation whose claim was taken over or given up may still write with
\* the claim it remembers, but it takes no lease, starts no attempt, and moves
\* neither held credits nor, unless it fails the job by a repair's terminal
\* rejection, captured ones: until a partner has withdrawn, whose settlement has
\* no fence (require_current_generation_fence at every step it may wake up at).
LateWorkerIsBounded ==
  [][\A w \in Workers :
       (proc'[w] # proc[w] /\ proc[w].pc \in Claimed /\ job.holder # w /\ consentCase = "none")
         => /\ job'.active = job.active /\ job'.repairCount = job.repairCount
            /\ job'.holder \in {job.holder, None}
            /\ \/ reservation' = reservation
               \/ reservation.status = "CAPTURED" /\ job'.status = "FAILED"]_vars

\* A settled job keeps its outcome, and with it the attempts that have ended and
\* the money; one that failed or was cancelled is never delivered: late callbacks,
\* duplicates and stale invocations included.
SettlementIsFinal ==
  [][job.status \in TerminalJob =>
       /\ job'.status = job.status
       /\ \A a \in Attempts :
            attempt[a].status \in {"FINISHED", "FAILED"} => attempt'[a].status = attempt[a].status
       /\ reservation'.status = reservation.status
       /\ reservation'.refunds = reservation.refunds
       /\ order'.settlement = order.settlement
       /\ job.status # "FINISHED" => order'.delivery # "READY"]_vars

-----------------------------------------------------------------------------
(* Progress *)

\* From some moment on no invocation dies or stalls past its lease, and a query
\* of an UNKNOWN attempt gets an answer.
Calm == <>[][~( \/ \E w \in Workers : Crash(w) \/ QueryRaises(w)
                \/ LiveLeaseExpires )]_vars

\* Waiting for a look that nobody will take: without a retry time and outside
\* the operators' queue, or with an attempt that reconciliation does not claim.
Forgotten ==
  /\ job.status = "RECONCILING"
  /\ \/ job.nextRetry = "none" /\ ~ManualCase
     \/ ActiveStatus \notin Unsafe

\* Every order is settled in the end, unless it is forgotten: retries, polls and
\* repairs are bounded, and nothing waits for an invocation that is gone.
EventuallySettled == Calm => (<>(job.status \in TerminalJob) \/ <>[]Forgotten)

=============================================================================
