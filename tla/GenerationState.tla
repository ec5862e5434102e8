--------------------------- MODULE GenerationState ---------------------------
(***************************************************************************)
(* The rows that one generation order of VowPic owns in PostgreSQL, the    *)
(* Provider's side of that order, and the position of every backend        *)
(* invocation working on it.  An action of the modules that extend this    *)
(* one is one committed transaction (or one Provider call) of the code     *)
(* under src/backend/app/services.                                         *)
(*                                                                         *)
(* An invocation takes the job under a fresh claim id and a fencing token  *)
(* that only grows, so "the row still holds my claim" is kept as           *)
(* job.holder = w, and "the lease has not expired" as job.leaseLive.       *)
(* Module JobLease models claim ids, tokens, clock and heartbeats and      *)
(* shows that this is what they amount to.                                 *)
(***************************************************************************)
EXTENDS Naturals, FiniteSets

CONSTANTS
  Workers,              \* concurrent backend invocations
  None,                 \* the NULL of the lease columns
  MaxRepairs,           \* MAX_CANDIDATE_REPAIRS
  MaxRetries,           \* settings.generation_max_retries
  MaxHistory,           \* the longest preaccept_rejections list still appended to
  MaxTasks,             \* bound: Provider tasks one attempt may end up with
  TaskOutcomes,         \* how a Provider task may end
  PartnerOrders,        \* may the order come from a partner invite, or not, or both
  PartnerInputsPass,    \* the boundary's owner check lets the partner's picture pass
  ReservationMayExpire, \* the reservation's time to live may run out
  EvidenceIsFinal       \* nobody is still sending an attempt ruled not accepted

ASSUME ConstantsAssumption ==
  /\ None \notin Workers
  /\ MaxRepairs \in Nat
  /\ MaxRetries \in Nat
  /\ MaxHistory \in Nat
  /\ MaxTasks \in Nat \ {0}
  /\ TaskOutcomes \subseteq {"succeeded", "failed", "unusable"}
  /\ PartnerOrders \subseteq BOOLEAN
  /\ {PartnerInputsPass, ReservationMayExpire, EvidenceIsFinal} \subseteq BOOLEAN

VARIABLES
  job,          \* generation_jobs: the order's row
  attempt,      \* generation_attempts, by attempt_number
  order,        \* orders
  reservation,  \* credit_reservations and the refunds that refer to it
  consentCase,  \* partner_consent_cases: the order's row
  provider,     \* EvoLink: the tasks it accepted for each attempt
  proc          \* the position of each backend invocation

rows == <<job, attempt, order, reservation, consentCase>>
vars == <<job, attempt, order, reservation, consentCase, provider, proc>>

Attempts == 1 .. (MaxRepairs + 1)
Tasks == 1 .. MaxTasks

-----------------------------------------------------------------------------
(* The values of the columns. *)

JobStatus == {"QUEUED", "ACTIVE", "RECONCILING", "FINISHED", "FAILED", "CANCELLED"}
TerminalJob == {"FINISHED", "FAILED", "CANCELLED"}

\* An attempt_number without a row yet has status NONE.
AttemptStatus ==
  {"NONE", "PREPARED", "SUBMITTING", "SUBMITTED", "UNKNOWN", "FINISHED", "FAILED"}

\* The statuses after which a submission must never be entered again.
Unsafe == {"SUBMITTING", "SUBMITTED", "UNKNOWN", "FINISHED"}

\* QUEUED, GENERATING, QA_PENDING and REPAIRING are one status here.
OrderStatus ==
  {"IN_PROGRESS", "UNKNOWN_EXTERNAL_STATE", "READY", "FAILED", "CONSENT_REVIEW_REQUIRED"}

RefundKeys ==
  {"generation-failure", "manual-generation-settlement",
   "partner-withdraw-refund", "partner-provider-refund"}

JobRow ==
  [status : JobStatus, holder : Workers \cup {None}, leaseLive : BOOLEAN,
   nextRetry : {"none", "later", "due"}, retryCount : 0 .. MaxRetries,
   repairCount : 0 .. MaxRepairs, active : 0 .. (MaxRepairs + 1)]

AttemptRow ==
  [status : AttemptStatus, providerJob : 0 .. MaxTasks,
   accounting : {"NOT_CAPTURED", "PENDING", "CAPTURED"},
   verdict : {"none", "PASS", "REPAIR", "REJECT"},
   rejections : 0 .. (MaxHistory + 1), pollOverdue : BOOLEAN]

\* What the customer downloads; a DELIVERY_VARIANT counts as its FINAL_MASTER.
DownloadRoles == {"PREVIEW_WATERMARKED", "FINAL_MASTER"}

OrderRow ==
  [partner : BOOLEAN, status : OrderStatus, settlement : {"RESERVED", "CAPTURED", "RELEASED", "REFUNDED"},
   delivery : {"PENDING", "READY", "BLOCKED", "REVOKED"}, downloaded : SUBSET DownloadRoles]

\* expired: expires_at has passed; kept only while the credits are held, since
\* nobody looks at it later.
ReservationRow ==
  [status : {"RESERVED", "CAPTURED", "RELEASED"}, expired : BOOLEAN,
   refunds : SUBSET RefundKeys]

CaseStatus == {"none", "OPEN", "SETTLED_DELETION_PENDING"}
TaskState == {"none", "running"} \cup TaskOutcomes

\* Where an invocation may stand between two transactions.
PC == {"idle", "dead", "claimJob", "claimAttempt", "claimReconciliation",
       "prepare", "boundary", "post", "persist", "unknown", "reject",
       "rejectTerminal", "repost", "capture", "pause",
       "load", "query", "polled", "answered", "store", "qa", "evaluate",
       "retryQa", "decide", "deliver"}

ProcRow == [pc : PC, attempt : 0 .. (MaxRepairs + 1), task : 0 .. MaxTasks,
            retries : 0 .. MaxRetries]

\* The positions reached only with a claim, under a heartbeat.
Claimed == PC \ {"idle", "dead", "claimJob", "claimAttempt", "claimReconciliation"}

TypeOK ==
  /\ job \in JobRow
  /\ attempt \in [Attempts -> AttemptRow]
  /\ order \in OrderRow
  /\ reservation \in ReservationRow
  /\ consentCase \in CaseStatus
  /\ provider \in [Attempts -> [Tasks -> TaskState]]
  /\ proc \in [Workers -> ProcRow]

-----------------------------------------------------------------------------
(* The lease.                                                                *)
(*                                                                           *)
(* Sessions keep their objects when they commit (expire_on_commit=False) and *)
(* a locked SELECT does not refresh an object that is still referred to.  So *)
(* the first fence of a session compares the claim with the job row, but one *)
(* that finds the job object of an earlier transaction compares the claim    *)
(* with itself.                                                              *)

\* The row still carries w's claim.
OwnsJob(w) == job.status = "ACTIVE" /\ job.holder = w

\* A fence that does not look at who holds the lease.
FenceWithoutClaim(w) == job.status = "ACTIVE" /\ job.leaseLive

\* What a fence that reads the row asks for: this very claim, not expired.
Fence(w) == OwnsJob(w) /\ job.leaseLive

\* Where the job object of an earlier transaction is still held: throughout the
\* submission of a repair, and after the external calls of the candidate, the
\* QA and the delivery services.
RemembersJob(w) ==
  \/ proc[w].pc \in {"persist", "unknown", "reject", "rejectTerminal", "repost",
                    "capture", "pause"} /\ proc[w].attempt > 1
  \/ proc[w].pc \in {"store", "evaluate", "retryQa", "deliver"}

\* A fence on a remembered job misses a takeover and an expired lease alike.
FencePasses(w) == Fence(w) \/ RemembersJob(w)

(* The triggers of migration 0019 let an UPDATE repeat a status, but neither a *)
(* job nor an attempt that has ended takes another one.                        *)

JobMayBecome(status) == job.status \notin TerminalJob \ {status}

AttemptMayBecome(a, status) ==
  attempt[a].status \in {status} \cup
    (CASE status = "SUBMITTED" -> {"SUBMITTING", "UNKNOWN"}
       [] status = "UNKNOWN"   -> {"SUBMITTING", "SUBMITTED"}
       [] status = "FINISHED"  -> {"SUBMITTED", "UNKNOWN"}
       [] status = "FAILED"    -> {"PREPARED", "SUBMITTING", "SUBMITTED", "UNKNOWN"})

Leased(j, w) == [j EXCEPT !.status = "ACTIVE", !.holder = w, !.leaseLive = TRUE]

Unleased(j) == [j EXCEPT !.holder = None, !.leaseLive = FALSE]

RetryMore(n) == IF n < MaxRetries THEN n + 1 ELSE n

\* The attempts once a's row has become r.
WithAttempt(a, r) == [attempt EXCEPT ![a] = r]

-----------------------------------------------------------------------------
(* Positions of an invocation. *)

At(pc, a) == [pc |-> pc, attempt |-> a, task |-> 0, retries |-> 0]

Idle == At("idle", 0)

Move(w, r) == proc' = [proc EXCEPT ![w] = r]

Goto(w, pc) == Move(w, [proc[w] EXCEPT !.pc = pc])

\* The submission is over: generate_order_v1 and generate_attempt_v1 go on to
\* reconcile_generation_v1, which claims the job again.
GotoReconcile(w) == Move(w, At("claimReconciliation", 0))

\* The invocation returns, or raises and so leaves its claim behind.
Finish(w) == Move(w, Idle)

-----------------------------------------------------------------------------
(* Provider tasks. *)

AcceptedTasks(a) == {k \in Tasks : provider[a][k] # "none"}

FreshTask(a) == Cardinality(AcceptedTasks(a)) + 1

\* EvoLink accepts a POST of attempt a and starts a task for it.
Accept(a) ==
  /\ FreshTask(a) \in Tasks
  /\ provider' = [provider EXCEPT ![a][FreshTask(a)] = "running"]

-----------------------------------------------------------------------------
(* Credits. *)

Captured(r) == [r EXCEPT !.status = "CAPTURED", !.expired = FALSE]

\* A settlement that releases held credits and refunds nothing that was taken.
RefundForgotten(r, key) == [r EXCEPT !.refunds = @]

\* refund_captured_reservation: one refund per idempotency key.
Refunded(r, key) == [r EXCEPT !.refunds = @ \cup {key}]

Released(r) == [r EXCEPT !.status = "RELEASED", !.expired = FALSE]

\* A repair rides on the capture of the INITIAL attempt.
CaptureLineage ==
  /\ reservation.status = "CAPTURED"
  /\ attempt[1].accounting = "CAPTURED"

\* What fail_generation_and_settle accepts; anything else raises.
CanSettle(allowReleaseReserved) ==
  \/ reservation.status = "CAPTURED"
  \/ reservation.status = "RESERVED" /\ allowReleaseReserved

\* release_or_refund_reservation: the money goes back the way it came.
Settled(key) ==
  IF reservation.status = "CAPTURED"
    THEN Refunded(reservation, key)
    ELSE Released(reservation)

SettlementName == IF reservation.status = "CAPTURED" THEN "REFUNDED" ELSE "RELEASED"

FailAndSettle(allowReleaseReserved) ==
  /\ CanSettle(allowReleaseReserved)
  /\ JobMayBecome("FAILED")
  /\ reservation' = Settled("generation-failure")
  /\ job' = [Unleased(job) EXCEPT !.status = "FAILED"]
  /\ order' = [order EXCEPT !.status = "FAILED", !.delivery = "BLOCKED",
                            !.settlement = SettlementName]

=============================================================================
