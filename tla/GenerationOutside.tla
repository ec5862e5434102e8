-------------------------- MODULE GenerationOutside --------------------------
(***************************************************************************)
(* What happens to an order besides the invocations that work on it: time, *)
(* crashes, the Provider and its callbacks, the operator who rules on an   *)
(* ambiguous submission, the partner who withdraws and the customer who    *)
(* downloads.                                                              *)
(***************************************************************************)
EXTENDS GenerationReconciliation

(* Time and crashes *)

\* The invocation that holds the claim is still running under its heartbeat.
HolderRuns == job.holder \in Workers /\ proc[job.holder].pc \in Claimed

LeaseExpires ==
  /\ job.leaseLive
  /\ job' = [job EXCEPT !.leaseLive = FALSE]
  /\ UNCHANGED <<attempt, order, reservation, consentCase, provider, proc>>

\* The claim of an invocation that is gone runs out.
DeadLeaseExpires == ~HolderRuns /\ LeaseExpires

\* A running invocation is too slow, or too far from the database, to renew.
LiveLeaseExpires == HolderRuns /\ LeaseExpires

RetryFallsDue ==
  /\ job.nextRetry = "later"
  /\ job' = [job EXCEPT !.nextRetry = "due"]
  /\ UNCHANGED <<attempt, order, reservation, consentCase, provider, proc>>

\* generation_poll_timeout after submitted_at.
PollDeadlinePasses(a) ==
  /\ attempt[a].status \in {"SUBMITTED", "UNKNOWN"} /\ attempt[a].providerJob # 0
  /\ ~attempt[a].pollOverdue
  /\ attempt' = [attempt EXCEPT ![a].pollOverdue = TRUE]
  /\ UNCHANGED <<job, order, reservation, consentCase, provider, proc>>

\* expires_at is only ever compared while the credits are held.
ReservationTimesOut ==
  /\ ReservationMayExpire
  /\ reservation.status = "RESERVED"
  /\ ~reservation.expired
  /\ reservation' = [reservation EXCEPT !.expired = TRUE]
  /\ UNCHANGED <<job, attempt, order, consentCase, provider, proc>>

\* The process is killed, or its heartbeat cancels it, wherever it stands: its
\* claim stays behind.
Crash(w) ==
  /\ proc[w].pc \notin {"idle", "dead"}
  /\ Start(w, "dead", 0)
  /\ UNCHANGED <<rows, provider>>

\* The next request finds a fresh invocation.
Restart(w) ==
  /\ proc[w].pc = "dead"
  /\ Finish(w)
  /\ UNCHANGED <<rows, provider>>

\* A service checks a fence that is no longer w's and raises; where the job is
\* a remembered one, because the lease it remembers has run out or because the
\* trigger refuses the write.  An OPEN withdrawal is settled without a fence.
LostFence(w) ==
  /\ proc[w].pc \in Claimed \ {"post"} /\ ~Fence(w)
  /\ ~(CaseIsSettleable /\ SettlesUnfenced(w))
  /\ Finish(w)
  /\ UNCHANGED <<rows, provider>>

-----------------------------------------------------------------------------
(* The Provider *)

TaskEnds(a, k) ==
  /\ provider[a][k] = "running"
  /\ \E outcome \in TaskOutcomes : provider' = [provider EXCEPT ![a][k] = outcome]
  /\ UNCHANGED <<rows, proc>>

\* A callback that is bound whatever has become of its attempt and its job.
CallbackAcceptedAlways(a, k) ==
  /\ provider[a][k] \in TaskOutcomes
  /\ attempt[a].providerJob \in {0, k}

\* bind_evolink_callback_task: the callback of an ended task, any number of
\* times.  One that raises changes nothing and is left out.
CallbackAccepted(a, k) ==
  /\ provider[a][k] \in TaskOutcomes
  /\ job.active = a
  /\ attempt[a].status \in {"SUBMITTING", "SUBMITTED", "UNKNOWN"}
  /\ attempt[a].providerJob \in {0, k}
  /\ job.leaseLive \/ job.status \in {"ACTIVE", "RECONCILING"}

\* Without a live lease the job is handed to reconciliation.
Callback(a, k) ==
  /\ CallbackAccepted(a, k)
  /\ attempt' = WithAttempt(a,
       IF attempt[a].status = "SUBMITTED" THEN [attempt[a] EXCEPT !.providerJob = k]
                                          ELSE Submitted(a, k))
  /\ job' = IF job.leaseLive THEN [job EXCEPT !.nextRetry = "due"] ELSE Paused(job, "due")
  /\ UNCHANGED <<order, reservation, consentCase, provider, proc>>

-----------------------------------------------------------------------------
(* resolve_generation_manual_case.  The operator's evidence is true: a task   *)
(* is bound only if EvoLink accepted it, and a submission is confirmed as not *)
(* accepted only if EvoLink holds no task of it.                              *)

\* list_generation_manual_cases and count_generation_manual_cases
ManualCase ==
  /\ job.status = "RECONCILING"
  /\ ActiveStatus = "UNKNOWN"
  /\ attempt[job.active].providerJob = 0
  /\ order.status = "UNKNOWN_EXTERNAL_STATE"

ManualCaseResolvable == ManualCase /\ job.holder = None

ResolveBind ==
  LET a == job.active IN
  /\ ManualCaseResolvable
  /\ reservation.status = IF a = 1 THEN "RESERVED" ELSE "CAPTURED"
  /\ \E k \in AcceptedTasks(a) :
       attempt' = WithAttempt(a, Submitted(a, k))
  /\ job' = [job EXCEPT !.nextRetry = "due"]
  /\ order' = [order EXCEPT !.status = "IN_PROGRESS"]
  /\ UNCHANGED <<reservation, consentCase, provider, proc>>

\* Evidence gathered without looking for the task.
ProvenNotAcceptedUnchecked(a) == TRUE

\* Where an invocation may yet send the attempt, or settle its rejection.
Sending == {"post", "reject", "rejectTerminal", "repost"}

\* EvoLink has no task of this attempt and, if evidence is final, no stalled
\* invocation can still send one.
ProvenNotAccepted(a) ==
  /\ AcceptedTasks(a) = {}
  /\ EvidenceIsFinal => \A w \in Workers : ~(proc[w].pc \in Sending /\ proc[w].attempt = a)

\* FAIL_AND_SETTLE: what is held goes back if the submission was proven not
\* accepted, what a repair rides on is refunded either way.  An accepted INITIAL
\* submission cannot be failed: without the task's id the trigger refuses it, as
\* it refuses the second submission that CONFIRMED_NOT_ACCEPTED_RETRY asks for.
ResolveFail ==
  LET a == job.active IN
  /\ ManualCaseResolvable
  /\ \/ AcceptedTasks(a) # {} /\ reservation.status = "CAPTURED"
     \/ ProvenNotAccepted(a)
  /\ reservation' = Settled("manual-generation-settlement")
  /\ order' = [order EXCEPT !.status = "FAILED", !.delivery = "BLOCKED",
                            !.settlement = SettlementName]
  /\ attempt' = [attempt EXCEPT ![a].status = "FAILED"]
  /\ job' = [job EXCEPT !.status = "FAILED", !.nextRetry = "none"]
  /\ UNCHANGED <<consentCase, provider, proc>>

-----------------------------------------------------------------------------
(* withdraw_partner_invite, once the invite has become an order *)

ProviderPossible ==
  \/ \E a \in Attempts : attempt[a].status \in {"SUBMITTING", "SUBMITTED", "UNKNOWN"}
  \/ job.status = "RECONCILING"

ReleasePlanned ==
  /\ order.settlement = "RESERVED"
  /\ job.status \in {"QUEUED", "ACTIVE"}
  /\ ~ProviderPossible

RefundPlanned ==
  /\ order.status = "READY" /\ job.status = "FINISHED"
  /\ order.settlement = "CAPTURED"
  /\ order.downloaded = {}

\* The planned release raises unless the reservation is still held.
WithdrawalRaises == ReleasePlanned /\ reservation.status # "RESERVED"

\* plan_partner_withdrawal and what withdraw_partner_invite makes of it
Withdraw ==
  /\ order.partner
  /\ consentCase = "none"
  /\ ~WithdrawalRaises
  /\ reservation' = CASE ReleasePlanned -> Released(reservation)
                      [] RefundPlanned  -> Refunded(reservation, "partner-withdraw-refund")
                      [] OTHER          -> reservation
  /\ job' = IF ReleasePlanned THEN [job EXCEPT !.status = "CANCELLED"] ELSE job
  /\ order' = [order EXCEPT
       !.status = "CONSENT_REVIEW_REQUIRED", !.delivery = "REVOKED",
       !.settlement = CASE ReleasePlanned -> "RELEASED"
                        [] RefundPlanned  -> "REFUNDED"
                        [] OTHER          -> @]
  /\ consentCase' = IF ProviderPossible THEN "OPEN" ELSE "SETTLED_DELETION_PENDING"
  /\ UNCHANGED <<attempt, provider, proc>>

\* resolve_private_download audits every download, of a preview as of a final.
Download ==
  /\ order.status = "READY" /\ order.delivery = "READY"
  /\ consentCase = "none"
  /\ \E role \in DownloadRoles \ order.downloaded :
       order' = [order EXCEPT !.downloaded = @ \cup {role}]
  /\ UNCHANGED <<job, attempt, reservation, consentCase, provider, proc>>

=============================================================================
