# Verification of VowPic's backend

VowPic sells generated wedding photographs. A customer (or a partner, by invite) uploads
pictures and creates an order, credits are held, an external Provider (EvoLink) generates a
picture, strict QA accepts it, repairs it or rejects it, and the order ends with a delivery that
is paid or with a failure whose credits were given back. Credits come from a welcome grant, from
purchases and from subscriptions, both through Creem's webhooks; pictures of people are deleted
when they are revoked. The backend is a FastAPI application on serverless invocations that share
one PostgreSQL database and an object store: any number of them may work on the same rows at
once, each may die or stall at any point, and neither provider promises order, uniqueness or
delivery of what it sends. Whether customers are charged exactly for what was done, keep what
they paid for and lose what they revoked is decided by the order in which transactions commit.
That is what this project models, checks and proves.

All paths below are relative to `src/`; services are in `backend/app/services/`.

1. [Inventory](#1-inventory)
2. [Modules and how they correspond to the code](#2-modules-and-how-they-correspond-to-the-code)
3. [Runs](#3-runs)
4. [Fairness](#4-fairness)
5. [Proofs](#5-proofs)
6. [Where the code disagrees with its documents](#6-where-the-code-disagrees-with-its-documents)
7. [What is abstracted, and what is not modelled](#7-what-is-abstracted-and-what-is-not-modelled)
8. [Plan](#8-plan)

## 1. Inventory

`PROJECT.json` lists every component with its sources. The ones that carry the program's own
logic:

| Component | State it keeps | Operations | Talks to |
|---|---|---|---|
| **Job lease** `job_lease_service` | `generation_jobs`: status, worker id, claim id, fencing token, expiry | claim for submission, claim for reconciliation, fence check, heartbeat, pause, clear | everyone who writes a job |
| **Executor** `generation_executor_service` | none of its own | pick due work (order page, maintenance batch), submit, reconcile, spend the retry budget | lease, attempts, candidates, QA, delivery |
| **Attempts and submission** `generation_attempt_service`, `generation_job_service` | `generation_attempts`: status, provider task id, credit accounting, preaccept rejections | prepare, submission boundary, POST, persist fact, mark unknown, record rejection, capture | EvoLink, credits |
| **EvoLink adapter and callbacks** `evolink_service`, `evolink_reconciliation_service`, `evolink_callback_service` | tasks at the Provider; callback receipts | submit, query, bind a callback | attempts, job |
| **Candidate and QA** `generation_candidate_service`, `qa_verdict_service`, `generation_repair_service` | candidate asset, verdict, repair chain | store candidate, persist verdict, decide the next action, fail and settle | attempts, credits, delivery |
| **Delivery** `delivery_asset_service` | delivery assets, entitlement, order's delivery columns | build and publish | job, order |
| **Manual settlement** `generation_manual_settlement_service` | — | list cases; bind a task, fail and settle, authorise a retry (which a trigger always refuses) | attempts, credits |
| **Partner invites and consent** `partner_invite_service` | invite, `partner_consent_cases` | create, accept, consent, withdraw, settle after the Provider stopped | order, job, credits |
| **Credit ledger** `credit_reservation_service`, `credit_reversal_service`, `welcome_grant_service` | lots, account, reservations with allocations, entitlements | grant, reserve (first expiring first), capture, release, refund, reverse, freeze, unlock a trial | orders, payments |
| **Payments** `payment_service`, `creem_event_service`, `payment_reconciliation_service` | purchases, capture, refund and dispute facts, payment events, reconciliation cases | ingest, apply, freeze, take back, open a case | credit ledger, Creem |
| **Subscriptions** `subscription_service` | checkout and cancel intents, projections, invoices, grants | check out, project, grant a paid period, follow the status, cancel | Creem |
| **Uploads** `upload_quota_service`, `media_asset_service` | batches, slots, daily bytes, parts, assets | admit, reserve, read, settle, store, activate, roll back, recover stale batches | object store |
| **Media deletion** `media_deletion_service` | assets, deletion claims, grants | request, guard against references, claim, delete the object, confirm | object store, orders, consent cases |
| **Sessions** `auth_session_service`, `session_auth`, `http.ts`, `auth.ts` | session families, refresh tokens, the browser's cookies | serve, refresh, revoke, sign out | every page |
| **Order admission** `order_creation_service`, `order_transaction_service` | orders, idempotency keys, trial usage | admit, create the whole graph in one transaction, replay | credits, partner, uploads |
| **Account merge, claim, closure** `account_merge_service`, `account_merge_credit_service`, `account_claim_proof_service`, `account_closure_service` | users and identities, claim proofs, merges, clean-up markers | sign in, prove a payment, claim an old account, close, clear the marker | credits, subscriptions, pictures, sessions |

What is hard about them, and what makes them correct:

* **Job lease.** Every service reads the clock when it is entered and then waits for a row lock,
  so leases are judged by old times; the heartbeat is a second task beside the work; all
  invocations of a deployment share one worker id; a fence that finds the job object of an earlier
  transaction looks at that, not at the row. *Correct:* one claim at a time holds a job;
  a live lease is never stolen; after a takeover the old claim enters no further service, and what it can still
  do in the one it is in touches neither the claim, nor the attempts' order, nor held credits; a heartbeat
  never shortens a lease.
* **Submission.** There is a commit before the POST, one after its answer and one for the
  capture; a crash may hit any gap, the answer may be lost, a callback may overtake it.
  *Correct:* one Provider task per attempt; credits captured only when something was accepted and given back only when nothing
  can come of it; no job left behind unscheduled and in nobody's queue (what the code does about the last is in section 6).
* **Reconciliation.** Polls, QA and delivery share one retry budget; at its limit each must settle. A
  callback may wake, or re-bind, anything at any time. *Correct:* a settled order stays settled,
  repairs form one chain on the capture of the first attempt, and every order ends.
* **Settlement.** Four places give credits back under four idempotency keys, so the ledger
  itself would accept several refunds of one capture. *Correct:* at most one of them happens and it
  agrees with the order's outcome; a published delivery is paid for and consented to.
* **Partner withdrawal.** It takes effect with no lease while invocations are at the Provider.
  *Correct:* it settles once, and not while the Provider still works.
* **Credit ledger and payments.** A purchase may be refunded or disputed before, while or after its
  credits are held and spent; an event is committed before it is applied and may be applied by two
  deliveries. *Correct:* lots and account agree; no lot is overdrawn; what an order holds is backed; a debt
  blocks new holds; what is frozen is somebody's case.
* **Subscriptions.** Webhooks come in any order and under several ids, before the subscription is known and
  between the steps of a request that is waiting for Creem. *Correct:* each paid period is granted once; the status is that of
  the latest fact; a confirmed cancellation is one Creem will carry out.
* **Uploads.** A handler keeps the rows it loaded while a recovery may settle them; objects and rows commit separately.
  *Correct:* slots and bytes are exact unless a living handler is overtaken; a batch is readable as a whole or not at all.
* **Media deletion.** Objects are deleted outside any transaction by clean-ups that may overtake each other, while orders
  and partners' withdrawals change who needs a picture. *Correct:* nothing needed disappears, what is revoked does, and a
  consent case is closed only when nothing of the partner is left.
* **Order admission.** The facts that make an order a free trial are read before image checks of seconds; clients repeat requests whose
  answers were lost, with handlers still at work. *Correct:* one order per key, none without a record; one trial at a time.
* **Accounts.** A call is authenticated once and commits much later; closure, sign-in, refund and claim overlap. *Correct:* balances follow lots
  wherever they move; a claimed or closed account keeps nothing; only living accounts claim.
* **Row locks.** Some twenty transactions lock the rows of one order, in an order nobody checks. *Correct:* no circle of waiting transactions, or
  at least only through calls that are known to leave the order.
* **Sessions.** Calls of one browser share a cookie jar and refresh it at the same time; answers are lost. *Correct:* one usable
  refresh token; revoked only for a cause; after a logout no call is let through any more.

`PROJECT.json` "hazards" gives each of these at its line with the property that covers it, or
the reason why none does yet.

## 2. Modules and how they correspond to the code

```
JobLease ---- implements ----> FencedHolder        one job row, the lease columns, the clock
   ^ JobProofs, MCJobLease

GenerationState            rows, values, credits, lease predicates
  GenerationSubmission     select, claim, prepare, POST, persist, capture
    GenerationReconciliation   claim, load, query, store, QA, decide, deliver, settle a case
      GenerationOutside        time, crashes, EvoLink, callbacks, operator, partner, customer
        GenerationLifecycle    Init, Next, fairness, properties
          ^ GenerationLifecycleProofs, MCGenerationLifecycle

CreditLedger               one account: lots, reservations, entitlements
  PurchaseEvents ---- implements ----> PrepaidAccount   Creem's events about its purchases
    ^ PurchaseEventsProofs, MCPurchaseEvents

  OrderAdmission           requests for orders on these credits
    ^ OrderAdmissionProofs, MCOrderAdmission

AccountClaims              accounts that close and claim each other   ^ AccountProofs, MCAccountClaims
LockOrder                  the row locks of the transactions above    ^ JobProofs, MCLockOrder
Uploads                    one user's uploads       ^ PictureProofs, MCUploads
MediaDeletion              one order's pictures     ^ PictureProofs, MCMediaDeletion
BrowserSession             one browser, one family  ^ AccountProofs, MCBrowserSession
Subscriptions              one user's subscriptions ^ SubscriptionsProofs, MCSubscriptions
SumTheorems                sums over finite sets, for the proofs about credits and uploads
```

JobProofs, AccountProofs and PictureProofs each extend two modules; in the second of them Init, Next and their like begin with LO, AC or MD
(`ACInit`, `MDNext`), and what is called `call` or `asset` in the first has another name.

**JobLease** is one `generation_jobs` row with its lease columns. A *session* is one call of
`_claim` with its fresh uuid4 claim id; it keeps the token it was given, the time its current
service read at entry (`seen`) and the time its heartbeat read (`beat`). An operation is two
steps, read the clock and then act under the row lock, with anything in between.
`FencedWrite`, `HandOn` and `FenceRaises` are what any service does under
`require_current_generation_fence`. `loaded` says that the database session still holds the job object: then the fence
compares the claim with itself (`FenceOfCopy`) and neither a takeover nor an expired lease is noticed, while a service entered in a fresh
session reads the row (`FenceOfRow`). `CallbackHandsOn`, `OperatorRules`, `PartnerWithdraws` and
`WithdrawalSettled` are the four writers that touch the same columns without a lease.
**FencedHolder** is the promise behind it: a lock with an epoch, taken only when its holder's time
is over, and entered only by the current holder. What was entered is not stopped: it may end after the lock has passed on, and may
then take the lock away from its new holder (`Drop`), though never for itself. `ImplementsFencedHolder` is the refinement.

**GenerationLifecycle** and the modules it extends are one order. An action is one committed
transaction, or one Provider call; where the code holds the job row locked during a
Provider query (`reconcile_evolink_attempt`), query and transaction are one step. The variables are the
rows `job`, `attempt` (by attempt number), `order`, `reservation` (with the refunds that refer
to it), `consentCase`; the truth at EvoLink, `provider`; and `proc`, where each invocation stands
between two transactions together with what it keeps in local variables. JobLease justifies the
lease seen from here: a claim id is never reused and the row names the latest claim, so "the
row holds my claim" is `job.holder = w` and the clock shrinks to `job.leaseLive`, which may go FALSE
at any moment (`DeadLeaseExpires`, `LiveLeaseExpires`). The heartbeat is that a live holder's
lease need not expire.

| Position of an invocation | Code | Actions |
|---|---|---|
| `idle` | `run_due_generation_maintenance`, order-page progress request | `Select` |
| `claimJob`, `claimAttempt` | `claim_generation_job` | `ClaimRefused`, `ClaimRouted`, `ClaimGranted` |
| `prepare`, `boundary` | `prepare_initial_generation_attempt`, `prepare_submission_boundary` | `PrepareInitial`, `CommitBoundary`, `BoundaryRefused` |
| `post` | `submit_generation_attempt`, outside any transaction | `PostAccepted`, `PostAmbiguous`, `PostRejected` |
| `persist`, `unknown`, `reject`, `rejectTerminal`, `repost` | what it commits for each answer | `RecordAcceptance`, `RecordUnknown`, `RecordRejection`, `Repost` |
| `capture`, `pause` | `capture_initial_submission`, `pause_generation_reconciliation` | `CaptureSubmission`, `PauseSubmitted` |
| `claimReconciliation` | `claim_generation_reconciliation` | `ReconciliationRefused`, `ReconciliationGranted` |
| `load`, `query` | `_load_reconciliation_attempt`, `ensure_accepted_submission_accounting`, `reconcile_evolink_attempt` | `AccountForSubmission`, `PauseForOperator`, `ResumeAtQa`, `Query*` |
| `polled`, `answered` | after the answer about an UNKNOWN attempt was committed with its capture | `PolledAgain`, `AnswerUsed` |
| `store`, `qa`, `evaluate`, `retryQa`, `decide`, `deliver` | `persist_evolink_candidate`, strict QA, `_retry_reconciliation`, `decide_next_generation_action`, `build_delivery_assets` | `StoreCandidate`, `PersistVerdict`, `RetryQa`, `Decide*`, `Deliver`, ... |

A service that raises lets the invocation end with its claim left in the row (`Finish`, `LostFence`);
the claim then runs out and the job is routed to reconciliation. `Crash` does the same from anywhere; the position
`dead` tells a crash from an orderly return, so that the liveness property can say that crashes stop.

**What a database session sees** matters in all the modules below. Sessions are created with `expire_on_commit=False`
(`backend/app/core/database.py:270`), and a `SELECT ... FOR UPDATE` without `populate_existing` locks the row but returns the object the session
has already loaded, with its old columns, as long as something still refers to it; an UPDATE writes the columns that differ from it; only a rollback expires it. A service that loads a
row, waits and locks it again therefore decides by what it first saw, and the only thing that stops it is a trigger. The models keep that.

For an order it concerns two rows. `submit_generation_attempt` and its callers keep the attempt across the POST, so `mark_submission_unknown`, `persist_submitted_fact` and `record_preaccept_rejection` see it SUBMITTING and without a task whatever
has happened: their guards in the model are not the columns, but what migration 0019 lets an UPDATE do (`AttemptMayBecome`, `JobMayBecome`). In particular `MarkSubmissionUnknown` puts UNKNOWN over a SUBMITTED attempt whose task a callback has bound. And a fence
after the external calls of the candidate, the QA and the delivery services, after a QA failure, and throughout the submission of a repair finds the job object loaded earlier: `RemembersJob` names those positions, `FencePasses` is the fence there. Each claim, each heartbeat
and each first fence of a service has a session of its own and reads the row (`Fence`). A remembered lease may also have run out although a heartbeat renewed it; the service then raises, which is what `LostFence` and `Crash` do.

Elsewhere, `Deliver` does not look at the funding again, `FirstDelivery` still sees RECEIVED, `SettlePart` and `ReleaseSlot` trust
the status they loaded, `Confirm` compares a deletion claim with itself, `Logout` works on the row `Authenticate` loaded.

**CreditLedger** is one account. Its variables are the rows `account` (`user_credits`), `lot` (`credit_grant_lots`, named by what they came from),
`reservation` with its allocations, `delivery` (how far an order is, with its entitlement), and `expired`, the lots whose time is over. Each service
function is an action with the guard by which it raises: `Reserve` (`reserve_credits`, with `FefoAllocation` for `build_fefo_allocations`), `Submit`,
`Capture`, `Release`, `RefundGeneration`, `Deliver`, `UnlockTrial`, and the parts a payment event is made of: `Grant`, `Reverse`,
`Freeze`, `Unfreeze`. **PurchaseEvents** composes it with the events: `Ingest` commits an event, `Apply` is `apply_payment_event` in a
transaction of its own, with one action per branch of `_apply_checkout_capture`, `_apply_refund` and `_apply_dispute`. **PrepaidAccount** is the promise:
what is held is paid for and neither used nor held already.

**OrderAdmission** extends CreditLedger by the requests of one account. `request` is where each handler of `POST /orders` stands in `create_order_for_user`, with
the facts it has read; `record` is the table of idempotency records, `recent` the trial orders of the last 24 hours. `LoadFacts` and `CreateOrder` are apart because images are checked
in between, and `CreateOrder` is the whole transaction: key, reservation, order and completed record. `Generate` is what happens to an order later, as far as its credits see it.

**AccountClaims** is several accounts. `request` holds the authenticated requests between their admission and their commit, `signin` the Google exchanges that have loaded
identity and user; `proof`, `merges` and `cleanup` are the tables of the claim and the closure, and `lot`, `balance`, `order`, `plan`, `picture` as much of the other
components as a claim moves or has to respect. `Merge` is `claim_legacy_account` with `merge_credit_accounts`, guarded by the checks of the service (`Mergeable`) and by the triggers of
migrations 0014 and 0016 (`GraphAllows`, `TriggersAllow`). `Close` commits first and asks for pictures afterwards (`FindPictures`, `AskDeletion`, `ClosureBreaksOff`).

**LockOrder** looks inside the transactions that are one step everywhere else. Each definition from `SubmitInitial` to `CloseAccounts` is the sequence of rows one
transaction locks, in the order of the source, with its branches as a set; `LocksOf` names them, and a session (`call`) takes one row after the other and keeps what it has until
it commits or is rolled back. A row that is held makes it wait; one it has itself is passed over (`Ahead`). What a transaction decides matters only as far as it decides whether another gets past its first check: `ready`, `case`.

**Uploads** is one user's requests. `request` is where each handler is; `batch`, `part`, `slots`, `window` and `asset` are the rows and `stored` the
objects. An action is one transaction or one call of the store. `RejectHeaders` is the refusal of a part that closes the batch; over the daily limit (`RefuseOverLimit`) the rollback expires the batch first, the handler's `finally`
raises, and batch and slot stay as they are. `overtaken` is a history variable: the batches a recovery settled while
their handler was alive.

**MediaDeletion** is one order, its source pictures, the candidate and the delivery. `Blocked` is `run_reference_guard`, conjunct by conjunct;
`Claim`, `DeleteObject`, `Confirm` are the three parts of a clean-up (`cleaner` is what one invocation has loaded); a `Confirm` that fails leaves a session that refuses everything, or ends the loop when the error
is logged with a row that the rollback has expired (`ConfirmFails`);
`OrderSteps` is as much of the order's life as creates, reads or refers to pictures, and `Withdraw`, `SettleCase` the partner's side. It abstracts
GenerationLifecycle to a `stage`, so that the pictures can be modelled row by row.

**BrowserSession** is one family of `auth_sessions` and `auth_refresh_tokens`, the cookie jar of one browser, and calls with the position each has
in `httpRequest` or `logout`: sent, checked, answered, refreshing, refreshed, sent again. `Authenticate` is `get_session_user`, which reads the session without a lock; the route's own work and its commit come later
(`Serve`, `Logout`), with anything in between. Secrets are numbered by the rotation that issued them.

**Subscriptions** has the intents (`checkout`, `cancels`), the projection (`row`) and grants on one side, and Creem (`sub`, `now`, `sent`) on the other: what
Creem does is `Pay`, `Renew`, `Turns`, `Schedule`, and each fact sends events that are delivered when it pleases. `ReadCurrent` and `InsertCheckout` are two steps because the
second look for a live subscription precedes the lock on pending checkouts; `ReadCancelable` and `InsertCancel` because the locked read returns the row as it was loaded.

## 3. Runs

| Run | Question | Bounds | Distinct states |
|---|---|---|---|
| `generation_races` | Do money, attempts and delivery agree whatever races? | a partner's or a customer's order, 2 invocations, 1 repair, 1 retry, 2 tasks per attempt, unusable outputs, expiring reservation | 1 264 677 |
| `generation_progress` | Is every order settled in the end, or in one of the states nobody looks at? | a customer's order, 2 invocations, 1 repair, 1 retry, 1 task per attempt | 645 979 |
| `job_lease` | Is the row a lock, with old clock readings? | 3 claims of one worker id, lease of 2, clock to 4 | 649 221 |
| `credits` | Do lots, account, reservations and cases agree whatever order events come in? | 2 purchases, a trial and 2 paid orders of which 2 are made, 10 kinds of event of which 3 happen | 515 736 |
| `order_admission` | Is there one order per key and one trial at a time? | 4 requests: 2 alike, 1 with their key and another body, 1 with its own key; 2 orders | 563 541 |
| `account_claims` | Do balances follow lots, and do claimed and closed accounts keep nothing? | 2 Google accounts and an old one, 2 purchases, 3 references, 1 picture, 2 overlapping calls | 748 496 |
| `lock_order` | Which transactions can wait for each other for ever? | 1 session of any calls, 2 of calls that keep the order | 3 570 823 |
| `uploads` | Are slots and bytes counted once? | 2 requests with 2 and 1 files, 2 days, a limit of 2 units with parts of 1 | 3 926 629 |
| `media_deletion` | Is nothing deleted that is needed, no case closed too early? | a partner's picture, candidate, delivery; 2 clean-ups, of 2 rows and of 1 | 1 866 660 |
| `media_progress` | Does what was revoked leave the store? | the same with 1 clean-up | 13 048 |
| `sessions` | One usable token, whatever is lost or overtaken? | 3 calls of any kind | 2 132 789 |
| `subscriptions` | Are grants, status and cancellations right for every order of webhooks? | 2 checkouts, 4 facts, 1 cancellation, 1 payment told twice | 2 050 384 |

What the properties say (each has its comment in the module):

* `MoneyMatchesOutcome` — while the job is open nothing was given back; a failed or cancelled
  order released its held credits or refunded its captured ones exactly once, under one key out
  of four; a finished one stays paid.
* `ChargedIffAccepted` — credits are captured only if EvoLink accepted a submission, released
  only if it accepted none or what it accepted has failed.
* `AtMostOneTaskPerAttempt` — the ambiguous POST is never replayed.
* `RepairChain`, `DeliveredMeansPaid`, `SettlementIsFinal` — see section 1.
* `LateWorkerIsBounded` — an invocation that has lost its claim may write with the one it remembers, but takes no lease, starts no attempt, does not touch held credits, and gives captured ones back only by failing the job.
* `NeverOrphaned` — while the first attempt is active, a job waiting without a retry time is an operator's case, or its ambiguous attempt has a task; `EventuallySettled` — every order is settled, or waits for ever in a state nobody looks at
  (`Forgotten`); section 6 says which these are.
* `TokensNeverReused`, `LiveLeaseNotStolen`, `ImplementsFencedHolder` — the lease.
* `LedgerAgrees` — balance, held and consumed are the sums over lots and reservations that their columns stand for; `NoLotOverdrawn`,
  `HeldCreditsBacked`, `NothingStranded` — no lot is spent or taken back beyond its grant, what is held is still there, and every credit of a positive
  balance can be found on a lot (a grant repays no more debt than there is); `FrozenOnlyUnderReview` — what is frozen has a case that names the purchase;
  `ImplementsPrepaid` — a hold never exceeds what is paid and unused.
* `QuotaExact`, `DailyLimitKept` — slots and reserved bytes are those of living and crashed batches, a day's bytes stay within the limit; both for
  requests that no recovery overtakes, because an overtaken handler releases once more (section 6). `ReadBytesCharged` holds in any case, `AllOrNothing` ties rows and objects.
* `ObjectsMatchRows`, `ClosedCaseLeavesNothing`, `RevokedIsDeleted` — pictures.
* `OneLiveToken`, `RevokedForCause`, `QuietBrowserIsCurrent` (a browser with no call under way and no answer lost holds the current secrets),
  `LogoutIsFinal` (after a logout that succeeded no call is let through, refreshed or signed out; those let through before are served) — sessions.
* `GrantedOncePerPayment`, `StatusFollowsProvider`, `ConfirmedWillEnd` — subscriptions.
* `OneOrderPerKey`, `OrdersAreRecorded` — answers, records and reservations of orders stand for each other; `OneTrialAtATime` — the welcome credits carry one
  trial whatever old facts two admissions were decided on.
* `OneCanonical`, `ClaimedByTheLiving` — who may have claimed whom; `BalanceFollowsLots`, `GoneIsEmpty` — what a claim or a closure leaves behind.
* `OnlyKnownDeadlocks` — every circle of waiting sessions contains a call of `OutOfOrder`. Take any one name out of that set and TLC shows the deadlock it stands for (section 6).

`NeverOrphaned` and `LateWorkerIsBounded` hold until a partner withdraws, which is their premise; why not longer is F3 and F7. The type invariants are proved for eight
models (section 5), for OrderAdmission and Uploads as a conjunct of `OneTrialAtATime` and `QuotaExact`; of MediaDeletion, AccountClaims and LockOrder they are a conjunct of `ObjectsMatchRows`, `BalanceFollowsLots` and `OnlyKnownDeadlocks`.

Every one of them is broken by a small change of a definition that models code; those
changes are the operators next to the originals (`FenceWithoutClaim`, `RefundForgotten`,
`AmbiguousIsRetried`, ...), which no specification uses.

**Why the bounds are enough.** Two invocations give every stale worker: one that holds an
outdated claim and one that has moved on (a dead one restarts, so more than two claims
occur). With one repair both kinds of attempt, INITIAL and REPAIR, and the exhausted repair budget are
reached; with one retry, both "again" and "settle at the limit". The deployed limits are two of each (`MAX_CANDIDATE_REPAIRS`, `evolink_max_retries`, `config.py:149`); a second repair adds a repair that follows a repair, and `generation_races` with two repairs (8.3 million
states) has no error either. A second task of one attempt is the violation
`AtMostOneTaskPerAttempt` looks for, so `MaxTasks = 2` cuts off nothing else. Progress has two invocations, because what is forgotten is forgotten through a late one; its limits keep the graph small enough for the
liveness check. Its orders are customers': a partner's never ends (F9, F10). Three claims on a clock of five values let a lease
be granted, run out, be taken over and run out again with readings up to four ticks old. `JOB_LEASE_SECONDS` is 120 with a
heartbeat every 30 s; the model keeps only that a renewal may come in time or not. The lease proofs lift these bounds.

Three events of ten about two purchases include every pair that matters with its capture (refund after refund, loss after win, a refund that overtakes its
capture, two objects of one kind); two orders of different price and policy let one need both lots while the other holds one. The proofs about lots lift
both. A second upload and a second day make the counters shared and midnight possible; with parts of one unit, `PartMax + 1` is the
overshoot. Two clean-ups give every claim that runs out under its holder; the pictures are one of each role, because the guard tells roles apart and not pictures. Three calls let two
refreshes race with a logout, and the proofs about tokens hold for any number. Requests that repeat a key, contradict its body and use another are all the relations two requests can have; their
number is lifted by the proofs. Two overlapping calls are a check and what happens between it and its commit; with two references of one account it can be claimed twice, with a claimant that closes claims form chains. A deadlock needs
two transactions, or three that no two of them make; every pair with a call that leaves the order occurs, circles of three with at most one of them; longer ones are left to the proof (`NoOtherDeadlock`). Four facts allow a payment, a renewal, a cancellation and its end, each told late.

**Symmetry** in `Workers`, `Sessions`, `Calls`, `Keys`, `Orderly`, the references of one account and the two requests that repeat each other is used in safety runs only; the runs with a liveness property
declare none. **Deadlock** is checked except where the system may really stop: with a partner order, a withdrawal may strand it
(F3); the other models end with their claims, events, requests or calls. LockOrder never ends: a session that waits can be rolled back. Settled orders stutter through
`Quiescent`.

## 4. Fairness

`FairSpec` assumes what the deployment drives, weakly fair per invocation:

* `Select(w)`, `Work(w)` — the order page sends progress requests while it is open, and
  `.github/workflows/generation-recovery.yml` calls `POST /ops/generation/maintain`
  (`backend/app/routers/ops.py:243`) every five minutes; an invocation that is running goes on. A restarted
  process is the next request.
* `DeadLeaseExpires`, `RetryFallsDue`, `PollDeadlinePasses(a)` — clocks advance.
* `TaskEnds(a, k)` — EvoLink ends each task it accepted, somehow.
* `Operator` — somebody works the manual queue (`docs/OPERATIONS_RUNBOOK.md`).

Nothing is assumed of callbacks (all may be lost), downloads, withdrawals, crashes or the expiry of a live
lease. `EventuallySettled` holds under `Calm`: from some moment on invocations neither crash
nor outlive their lease, and a query about an UNKNOWN attempt gets an answer. Without the first the property is false for reasons
the code cannot cure: an invocation that dies in every run never gets anything done. Without the second it is false because such a query spends no retry when it
fails (F5). The output of a task is assumed storable in that run; what happens otherwise is F5 too.

For pictures, `MDFairSpec` assumes that the clean-up is called again and again and goes on unless it is killed (`CleanerSteps`, weakly;
`.github/workflows` and `ops.py` as above), that times pass (`FallsDue`, `LeaseExpires`, `GrantEnds`), that a write in progress ends, and, strongly, that a delete which is tried
again and again is answered some time and the transaction after it is not killed every time. Nothing is assumed of the order, the customer or the partner. `RevokedIsDeleted` names what the guard
keeps: pictures of an open job or case, a candidate behind a delivery in use, and the two cases of section 6 it keeps for ever.

## 5. Proofs

`tlapm` checks eight modules, for every value of the constants: seven about components and **SumTheorems**, which has what the library lacks about sums over finite sets. The assumptions are
those the modules state about their constants, evaluated by TLC in every run, and the premises that theorems name (`EvidenceIsFinal`, `CallsAreShort`, `~SlowWrites`, below). Three assumptions about constants need a word: the rows of
an account and of a user's uploads are finite; two lots never tie in PurchaseEvents (`RankAssumption`: the last column they are sorted by
is the id); and a trial costs what the welcome grant gives (2 credits).

**JobProofs** (any number of claims and owners, any lease length, any clock):

* `TypeCorrect` — types, and that no reading is ahead of the clock and no lease runs further than
  `LeaseSeconds` ahead of it.
* `TokenInv` adds to `TokensNeverReused` (two sessions never carry one token, none carries a newer one than the row) that
  `lastEntry` never exceeds the row's token. `OldClaimsStayOut` (`OldClaimsNeverEnter`) follows: the first fence of a session compares tokens with the row's, so a
  service is entered only with the newest token there is (`WritesCarryNewestToken`). Nothing is said of a later fence, which compares the claim with itself.
* `RowInv` adds to `LeaseOnlyWhileActive` that a row without a claim has no expiry, that a session named in the row has been
  granted it, and that a heartbeat already under way read a time from which the row's expiry is at most `LeaseSeconds`
  away. The last part is why a heartbeat that waited for the row cannot shorten the lease, and it is what makes the
  invariant inductive. It gives `FreeUnlessActive`, and with `RowSteps` (one case per action) `LiveLeaseKept`,
  `DeadlineMonotone` and
* `Implements` — JobLease implements FencedHolder under the mapping *holder = claim id, live = expiry after now, epoch = token*:
  Init maps to Init, each action to Take, Renew, Expire, Enter, Drop or a stutter. A write behind a fence on a remembered row is a stutter, or, if it hands the job on, a Drop.

The same module has the theorem about LockOrder (any number of transactions at a time):

* `NoOtherDeadlock` (`OnlyKnownDeadlocks`). There is no one order of the fifteen rows that all other calls keep: some lock an attempt before its order and some after it, and the pictures of an order likewise; they hold the order's or the job's row meanwhile.
  `Keeps` says what they have in common: the invite first or never, then the job, attempts and the order only behind the job, everything else behind both. The lemmas from `SubmissionsKeep` to `ResolutionsKeep` show it of each call, branch by branch (for partner orders only of those not in `OutOfOrder`).
  Three kinds of transaction do not keep it: a capture takes credits without the order, a download the order without the job, a confirmed deletion one picture without either.
* `LockInv` says where a session stands: it has locked a prefix of one of these sequences, and does not hold the next row (`KeepersStand`). So whoever waits holds one of six sets of rows (`Waiting`), and these have ranks: nothing (0), the invite (1), the job without order or credits (2), the order (3), a capture with the
  reservation (4), a picture (5). `RanksRise` is the heart of it: whoever holds the row that another waits for, and waits itself, has the higher rank, since job and order are held by one transaction each. A circle, of whatever length, would have to rise for ever (`NoCircle`).

**GenerationLifecycleProofs** (any number of invocations, repairs, retries and tasks, with and without a partner) has inductive invariants of which each contains an earlier one. They are proved over *kinds of steps*: one group of lemmas
sorts every action under a kind, one lemma per kind shows that the invariant survives it. None of them says that whoever writes owns the job: a late invocation writes too, and what it can do wrong has to be excluded by the position it is at, or by what the triggers keep.

* `TypeInv` (`TypeCorrect`). `TypeOK` bounds `repairCount`, `active`, `retryCount` and `rejections`, so it depends on control; it adds `Positions`: at every position that works on
  an attempt the invocation names one that exists, and one about to record a retryable rejection has retries left.
* `AttemptInv` (`AttemptsFormOneChain`, `NoPostIsReplayed`). It adds to the chain what a row says of its tasks (`RowInv`: an attempt that was not sent has none, one that is SUBMITTED or FINISHED has the one it names, and EvoLink never accepts a second), that an INITIAL attempt is only captured for a task
  (`CreditInv`), that at most one invocation is between the boundary and the answer of one attempt (`OneSubmitter`), and what each position may rely on for good (`PositionInv`): the attempt was sent; whoever may still send it finds no task; a candidate is judged only of a FINISHED attempt; behind the capture the credits stay captured. Rows only
  move forward (`Goes`): sent stays sent, a task and a verdict are never forgotten, an end is never taken back. That is the part the triggers carry for invocations that do not know they are late.
* `PaidInv` (`DeliveryIsPaid`) says that an open order has no download and has given nothing back, and that a finished one is captured, passed, and nobody's who may withdraw.
* `MoneyInv` (`MoneyFollowsOutcome`, `ChargedForWhatWasAccepted`, `SettledForGood`): a failed or cancelled order gave back once; released credits are *fruitless* (no task, or only failed ones); and nobody who may still send, or record a rejection, finds the job failed. The last is where the premise `EvidenceIsFinal` comes in:
  an operator rules "not accepted" only when nobody is still sending. Section 6 shows what happens otherwise. The premise is not needed for the invariants above.
* `WaitInv` (`NoJobIsForgotten`): while the INITIAL attempt is ambiguous, or the owner of the job is still submitting it, nobody is at a position that acts on its result (`NobodyCharges`), so nobody takes the order out of UNKNOWN_EXTERNAL_STATE, which is where the operators' queue looks; and a job that waits without a retry time has such an attempt.
* `StaleWorkerIsBounded` needs only that an invocation moves nobody but itself (`WorkerMoves`, `OthersStay`) and what each step from a claimed position leaves alone if its fence is a remembered one. The settlement of a withdrawal has no fence at all (F7), so the statement ends where a consent case begins.

**SumTheorems**: a sum does not depend on the order of its elements, moves by f[x] when x is added, by the difference when one value changes, splits over disjoint sets and over sums of functions, and grows with its set. The
library's induction theorems cannot be instantiated, so each lemma takes the sets for which it holds (or the least counterexample) as a set, and uses that the strict subset ordering of a finite set is well-founded.

**PurchaseEventsProofs** (any purchases, orders, prices, events):

* `TypeCorrect`, `LotsNeverOverdrawn`, `FrozenIsUnderReview`. `TypeOK` needs that counters do not fall
  below zero and refunds do not add up beyond the capture, which is the cap in `WithRefundFact` and the guards of `Release` and `Capture`. `NoLotOverdrawn`
  is made inductive by what a lot that is not granted looks like, and by splitting each step by what it does to lots. For `FrozenOnlyUnderReview` cases are never removed and every `Freeze` comes with a case
  that names the purchase.
* `LedgerInv` (`AccountIsItsLots`, `HoldsAreBacked`, `BalanceCanBeFound`): the account's columns are the sums over lots and orders that they stand for. It adds that an order's allocations make up its price (`AllocationsAddUp`, which needs
  `FefoGivesAmount`: first-expiring-first-out takes exactly what is asked for and no more of a lot than it has; this is where ties would matter) and that a lot is granted once (`GrantedOnce`: the fact that would grant it again is remembered). `BalanceCanBeFound` is an
  inequality because an offset repays debt: what is left of lots may exceed the balance, never the other way round.
* `AccountIsPrepaid` — PurchaseEvents implements PrepaidAccount: with *used = the prices of the captured orders* every step is PayIn, TakeBack, Hold, Release, Use or a stutter. A hold maps to Hold because of `BalanceIsThere` and `HeldCreditsBacked`.

**OrderAdmissionProofs** (any requests, keys, bodies, prices): `OneOrder`, `OrdersRecorded` from an invariant that says that what a handler answers, or is about to answer, is what the record of its
key says, and that records name different orders; `CreateStep` needs that a reservation is only made in the step that completes its record. `OneTrial`: the welcome lot is at most the price of one trial, a trial that is held or
spent has its whole price on it, and once spent it stays consumed (`WelcomeCarriesOne`); so a second reservation, on whatever old facts it was admitted, finds nothing to allocate and raises. That this is the only bar is finding G3.

**PictureProofs**, about uploads (any requests, files, sizes and limits):

* `CountersAreExact`, `DayIsLimited`, from `HandlerInv` (the parts before the handler's are settled, the one it reads is RESERVED unless its lease was recovered) and `QuotaInv` (slots, reserved bytes and charged bytes of a day by cardinality: a part is charged
  at most one unit more than was reserved for it, `Overshoot`). Both speak of behaviours in which no living handler was overtaken, as the properties do; a recovery of dead ones is included.
* `ReadingIsCharged` holds with overtaken handlers too. It is not inductive: an overtaken part is RELEASED, goes on being read, and may be charged twice. `Owed` leaves out exactly the part such a handler still reads.
* `BatchesAreWhole`: no image before all parts are read (`Early`), none readable while objects are written or taken back (`Late`), whatever is killed or fails between.

  and about deletion, `NoPictureIsLost` and `ClosureIsComplete`:

  Both theorems are about MediaDeletion with any number of sources and clean-ups and any limits. They have the premise of the runs that no clean-up overtakes a write in progress (`~SlowWrites`; section 6 says what happens otherwise), and one invariant, `DeletionInv`. `ObjectsMatchRows` alone is
  not inductive: a clean-up deletes by what it has loaded and writes the row later, perhaps after another clean-up has put it in another state. The invariant therefore speaks of what each invocation *carries*: it handles and has deleted only what is revoked
  for good (`OnlyRevoked`), what it was told is deleted does not come back, although its row may go back to PENDING_DELETE (`DeletedStays`), and none has, or can get hold of, a source or the candidate of an open job, because each
  revocation of one leaves it blocked and `run_reference_guard` never unblocks it (`NeededStay`, `GuardHoldsOn`). `ClosureIsComplete` needs besides that nothing is made after a withdrawal that the consent case does not own (`MadeInTime`), and that no write is under way when a case is closed (`WritesEnd`).

**AccountProofs**, about sessions (any number of calls): `TypeCorrect`, `OneTokenAlive`, `LogoutFinal`. The invariant says that secrets in cookies, headers and answers are of generations that exist, that
the version is the number of generations or one more if and only if the family is revoked, and that a call that was let through has seen a version not newer than the
row's; a logout answered with success has then revoked the family, and neither `Authenticate` nor `Rotate` accepts a revoked one. What was let through before is served all the same, which the property says. `RevokedOnlyForCause` and `QuietBrowserCanGoOn` need where the newest secrets are (`CookieInv`): in the jar, or in the one answer on its way,
or lost; until it arrives nobody else presents them, so only a second refresh with an older secret, which some call has spent, looks like a stolen token.

The same module has the theorems about AccountClaims (any accounts, purchases, references, pictures and overlapping requests):

* `ClaimsAreSettledOnce`, `LedgerFollowsTheLots`, `OnlyTheLivingClaim` from `ClaimsInv`. It adds to the two properties that only an active account has an active identity (`IdentitiesLive`: claim and closure revoke the identities themselves, which is why reading the identity under the lock makes up for a
  status that was read before), that a lot is granted by the one capture of its purchase and taken back by its refund (`LotsFollowPurchases`), and that the credit of an open order is unspent and its owner's (`ReservedIsThere`). Balances are cardinalities of sets of lots; a merge moves all lots of an account at once,
  and what it adds to the claimant's balance is what the moved sets count (`Worth`).
* `GoneStaysEmpty` has the premise `CallsAreShort` that the run makes too: a call ends within the minutes that a proof of payment or a clean-up takes. `GoneInv` adds that no call of a claimed account, or of a closed one without its marker, is under way, and that no purchase of a claimed account is still open:
  otherwise its capture would grant a lot to an account that nobody uses any more.

**SubscriptionsProofs** (any number of checkouts, facts and cancellations): `TypeCorrect`, `ConfirmationsHold`, `GrantsFollowPayments`, `StatusIsLatest`. The invariant relates events to Creem's facts
(an event is not from the future, a period it names has been paid), the row to the events applied (`last` is the time of the latest), grants to applied payments, and
a cancellation that has left the wire to a subscription that is scheduled to end, which is what `Proven` relies on.

Before each proof TLC checked the inductive invariant on the bounds of the component's run, or what it is about (of LockOrder the deadlocks themselves). Every safety invariant, action property and refinement that a run checks is proved. Only model-checked is
liveness (`EventuallySettled`, `RevokedIsDeleted`), which is beyond the prover.

## 6. Where the code disagrees with its documents

`docs/superpowers/specs/2026-07-10-vowpic-commercial-closure-design.md` is "the design" below, `docs/superpowers/plans/2026-07-10-vowpic-commercial-closure-implementation.md` "the plan".
Some disagreements are stated as properties at the end of their modules, under "What the documents say and the code does not do". No run lists them: TLC refutes each in a few
minutes at most when it is put in the place of the properties of the run named here, with the constants given.

* **G1 `FailedOrderFreesPictures`** — failures write `delivery_status` BLOCKED (`generation_repair_service.py:245`, `generation_manual_settlement_service.py:801`), the reference guard lets the pictures of a failed job go
  only with NOT_DELIVERED, REVOKED or DELETED (`media_deletion_service.py:198`), and nothing writes NOT_DELIVERED: the pictures of a failed order are kept for ever. The design (559) deletes them once the end is confirmed. [`media_progress`, `Partner = None`, a limit of 3]
* **G2 `CancellationStands`** — the answer to a cancellation does not advance `last_provider_event_at` (`subscription_service.py:1859`), so a late event from before it shows the subscription as active again. The design (410) says
  that an old event out of order must not take back a later confirmed fact. [`subscriptions`]
* **G3 `TrialLimitKept`** — trial orders of the last 24 hours are counted before the image checks (`order_creation_service.py:389`) and not again under the lock: `validate_for_amount` compares the snapshot it is given. Two requests that both counted two
  make, one after the other, the third and the fourth order. Design 311 `TRIAL_MAX_ATTEMPTS_PER_24H=3`; the plan (2303) wants the fourth attempt refused, and (2419) "The reservation service locks/validates those facts".
  [`order_admission` with a key and the body "single" for each request, `Purchases = {}`, `MayExpire = {}`, `MaxOrders = 4`]
* **G4 `WelcomeOnlyBuysTrials`** — the credits of a failed order come back as a lot of type REFUND (`credit_reservation_service.py:694`), also those of a trial, and REFUND funds PAID_ONLY orders (line 42): the next order of a user who never bought anything is delivered as a
  paid one. Design 311 gives the welcome credits back for another trial; the plan (35) says they "can fund only the base single-subject trial". [as G3, with two requests and `MaxOrders = 2`]
* **G5 `RefundsReachTheCredits`** — `_apply_refund` takes credits back from the user the purchase names (`payment_service.py:912`, `credit_reversal_service.py:107`); after a claim has moved the lot it finds none, opens a case, and the credits stay
  spendable with the claimant. Design 235: a later refund must follow the lineage to the canonical balance. [`account_claims`]
* **G6 `SettledAccountsCanMerge`** — `merge_credit_accounts` rewrites `user_id` of the reservations (`account_merge_credit_service.py:613`), and the trigger `commercial_reservation_transition_guard` (migration 0016, line 455) refuses that: an account that ever placed an
  order cannot be claimed. Design 232: orders are rebound in the transaction. [`account_claims`, `Ordering = {a}`]
* **G7 `ClosureReachesPictures`** — `close_account` commits the closure and then asks for the deletion of pictures, there and nowhere else (`account_closure_service.py:147`): a call that ends between, or a picture in PENDING_UPLOAD whose refusal rolls back and expires the rows the loop
  goes on with, leaves pictures in use. Design 541: pictures go through the deletion state machine. [`account_claims`]
* **G8 `ClosedIsSignedOut`** — an exchange that has read identity and user before the closure (`routers/auth/google.py:111`) waits for its lock and then issues a session for the closed account (`account_closure_service.py:87`). Every call with it is refused by the status of the user,
  but design 541 has sessions revoked at once. [`account_claims`]

The others were met while modelling; some can be seen by the change in brackets.

Generation:

* **F1** — a reservation that runs out while the order is queued is never expired: each
  claim is refused by `require_initial_submission_reservation`, the order stays open and its credits held.
  The design (345) wants it failed and released. [`ReservationMayExpire = TRUE` in `generation_progress`]
* **F2** — the withdrawal plans from `order.settlement_status`, which stays RESERVED
  after the capture. Between two attempts it plans a release, which raises: the partner cannot withdraw then (design 639).
* **F3** — a withdrawal during an ambiguous submission overwrites the order status by which
  operators find the case; the job is in no queue and never scheduled again (`docs/OPERATIONS_RUNBOOK.md:41`). [`NeverOrphaned` without `consentCase = "none"`]
* **F4** — a case that was OPEN stays OPEN when the job is settled by a poll timeout, a terminal
  rejection or an operator's ruling: only a Provider fact closes it.
* **F5** — an output that cannot be stored is fetched again for ever, without using a retry (design 443). [outcome "unusable" in `generation_progress`] So is a query about an UNKNOWN attempt with a task that gets no answer: `ensure_accepted_submission_accounting` refuses the
  UNKNOWN attempt before the retry budget is looked at (`generation_executor_service.py:411`).
* **F6** — the first POST leaves without a look at the fence. An invocation stalled there sends it after an operator ruled "not
  accepted": a task runs at EvoLink for an order whose credits were released, or a rejection recorded late refunds a repair a second time. `generation_races` and three theorems assume that evidence is final; without that `MoneyMatchesOutcome`, `ChargedIffAccepted` and `SettlementIsFinal` fail, and the other five properties of the run still hold. [`EvidenceIsFinal = FALSE`]
* **F7** — the settlement of a withdrawal has no fence and does not check that its attempt is
  still the active one; a stale invocation settles while the repair runs at the Provider (design 639).
* **F8** — the watermarked preview is audited like a final download, and costs the refund
  (design 640; `backend/tests/test_partner_consent_settlement.py:76`).
* **F9** — `prepare_submission_boundary` (`generation_attempt_service.py:344`) and `qa_verdict_service.py:143` require every source picture to belong to the customer, but one picture
  of a partner order belongs to the partner (`create_partner_order`, `partner_invite_service.py:719`): every such order is refused at submission and never ends. The runs with a partner assume the
  check to pass (`PartnerInputsPass`), so that what lies behind it is checked; F2, F3, F7, F8 need it too. [`PartnerOrders = {TRUE}`, `PartnerInputsPass = FALSE` in `generation_progress`]
* **F10** — if it were not, a partner's order that passes QA would still never end: `_load_delivery_context` refuses it (`delivery_asset_service.py:285`), spending the retries, and then the clean-up of the last failure raises for the same reason, so that the claim runs out and the job comes back for ever. Hence no withdrawal ever finds a delivered order: the branch of `plan_partner_withdrawal` that refunds one (`RefundPlanned`) is dead, and with it
  what F8 would cost. [`PartnerOrders = {TRUE}`, `PartnerInputsPass = TRUE` in `generation_progress`]
* **F11, callback before a lost answer** — the POST's answer is lost, the callback binds the task, and `mark_submission_unknown` then overwrites with the object it holds: the attempt is UNKNOWN *with* a task, and the retry time that the callback set is gone (`job.next_retry_at` is computed from the stale object). The claim that follows at once queries the task; if the invocation
  dies before, the order is in no queue (`provider_job_id` is not NULL, `generation_manual_settlement_service.py:482`) and never due, against `docs/OPERATIONS_RUNBOOK.md:41` "remaining cases stay visible". If the answer is that the task failed, the held credits are released although EvoLink accepted the submission (`generation_executor_service.py:474`); nothing was
  delivered, so this is in the customer's favour. [`EventuallySettled` without its second alternative; `ChargedIffAccepted` with `AcceptedTasks(1) = {}` for what is released]
* **F12, writes after a takeover** — a fence on a remembered job lets an invocation write that has been overtaken, if it read the clock before its lease ran out: candidate and QA services read it once for all their fences, the others before they wait for the row. It finishes an attempt of a settled job, or shows a READY or FAILED order as in progress (`persist_evolink_candidate` sets the order's status); it takes the lease from another invocation while pausing (the QA retry, the pause of a repair's submission); it puts a job that another has given a PREPARED
  repair into RECONCILING, where nobody claims it; and a repair that is marked unknown late may wait with neither a retry time nor a case. The docstring of `require_current_generation_fence` ("Lock and validate the fence immediately before a durable side effect", `job_lease_service.py:343`) promises that it cannot. `LateWorkerIsBounded` and `SettlementIsFinal` say what does not happen. [`LateWorkerIsBounded` with `rows' = rows` added; `NeverOrphaned` without `job.active = 1`; `EventuallySettled` without its second alternative]
* **F13, rulings that the database refuses** — CONFIRMED_NOT_ACCEPTED_RETRY puts an UNKNOWN attempt back to PREPARED, which migration 0019 (lines 468-475) never lets through, and FAIL_AND_SETTLE of an INITIAL submission that was accepted makes it SUBMITTED without a task id, which it refuses too (451-454). Both raise and change nothing: a submission that was accepted can only be bound, one that was not can only be failed. `docs/OPERATIONS_RUNBOOK.md` (38, 39) offers both.
* **F14** — with `evolink_max_retries` of 3 or more (`tests/test_runtime_config.py:121` sets 4) the fourth rejection of one attempt raises `generation_preaccept_rejection_history_invalid` (`generation_attempt_service.py:505`) instead of being recorded.

Despite F2, F3, F7 and F12, `generation_races` shows that no interleaving refunds twice, as long as evidence is final.

Credits and payments:

* A dispute that is OPEN and then WON leaves its case OPEN, nothing sets a case RESOLVED, and `private_download_service.py:297` refuses downloads while one is open (design 383).
* Because of G4 a failed trial cannot be repeated either: a trial may not use a REFUND lot (design 311).
* An event that waits for reconciliation may still be applied by the stale first delivery (`tests/test_payment_webhook.py:287` calls the state terminal). A WON dispute unfreezes what a partial refund froze; a late OPEN freezes a
  lot again after WON or LOST; a full refund while an order holds credits leaves them spendable (design 380); a second event about the same refund fails on every redelivery.
* A freeze takes held credits too, so a capture after the Provider's acceptance raises; and an entitlement is made ACTIVE from lots that were taken back between the check and the publication.

Uploads and pictures:

* `recover_stale_upload_batches` has no caller outside the tests: the slot and bytes of a handler that dies are never given back. If it ran while a handler is
  alive, that handler would release once more (this is why `QuotaExact` excludes overtaken handlers). A crash while storing leaves PENDING_UPLOAD rows and objects that nothing removes. The refusal at the daily limit leaves its batch and slot behind like a crash (`media_asset_service.py:616` reads a batch that the rollback has expired).
* The delivery's object is written after its check was committed (`delivery_asset_service.py:436`); a clean-up that gets there first deletes nothing, closes the case, and the picture appears
  afterwards. [`SlowWrites = TRUE`]
* A withdrawal after all pictures are gone leaves its case SETTLED_DELETION_PENDING for ever, and so do two clean-ups that overlap and crash. The customer's own picture is kept for ever once an order is under
  consent review (`KeptForEver`). A withdrawal with the result stored settles the case and leaves the job ACTIVE.
* `apply_order_retention` has no caller; retention asks for sources and deliveries only.

Sessions:

* A writing call that meets the expiry of the access token is sent again with the X-CSRF-Token of before the rotation and answered 403 (`http.ts`, `tests/unit/http.spec.ts:83`).
* Refreshes are not single-flight: two calls that are answered 401 together refresh twice, and the second is taken for a stolen token, which signs the customer out.
* `logout_session` may work on a row that a refresh has rotated meanwhile; the trigger refuses it and the page gets a 500. It is not signed out, and no property says it is.
* A call that was authenticated before a logout commits and is answered after it: nothing looks at the session again.

Subscriptions:

* Two subscriptions can be paid (design 409): a webhook between the second look and the lock lets a second checkout through; its projection ends in review.
* A late answer to a cancellation turns a CANCELED or EXPIRED row into CANCEL_REQUESTED (design 408, 410); a 5xx answer marks it FAILED_RETRYABLE, and the webhook that would confirm it looks only for CALLING and UNKNOWN (design 414).
* A checkout that was abandoned, or whose handler died, blocks every later one (design 366). A late `checkout.completed` of an ended subscription fails on every redelivery. Account closure does not look at subscriptions.

Accounts:

* A proof that ran out unused blocks its reference for good; `record_support_claim_proof`, the way out, has no route. Old accounts with a positive balance and no lots cannot be claimed (`legacy_pool_migration_required`).
* A failed order (delivery BLOCKED, as in G1) or a checkout that was abandoned (PENDING) blocks every later claim. Two unspent welcome lots, once merged, allow two trials.
* `(provider, subject)` is unique over revoked identities too: after a closure the same Google account cannot sign up again, and the attempt fails with an integrity error.
* The transfer of credits is recognised by the request id alone (`account_merge_credit_service.py:334`). The status of the claimed account is not looked at, only its identities.

Row locks. `credit_reservation_service.py:115` speaks of "the global job -> attempt order" and the plan (3308) of a global lock order. Submission, accounting, candidate, disposition, delivery,
manual settlement, download and deletion do keep one. These do not, and each can deadlock with the call behind it (PostgreSQL then aborts one, which the callers treat like any failure):

* `create_order_transaction_graph` locks pictures before the account, and lots by expiry; a submission locks account, lots by id, then pictures.
* `reverse_root_grant` locks a lot before the account; a capture the account before its lots.
* `unlock_trial_order` locks order, then job; a manual settlement job, then order.
* `close_account` selects pictures without an order; two of them, or a clean-up, meet.
* Only for partner orders: a withdrawal locks invite, order, job while manual settlement locks job, order; `execute_claimed_generation_attempt` locks job and attempt of a repair before `require_partner_submission_allowed` locks the invite, where others start with the
  invite; `_execute_generation_reconciliation` and strict QA look for the consent case with job and attempt locked in the same transaction, and keep both locked while they query the Provider; `_retry_reconciliation` locks the job before the clean-up of the delivery locks the invite.

## 7. What is abstracted, and what is not modelled

Within what is modelled:

* The order statuses QUEUED, GENERATING, REPAIRING and QA_PENDING are one, IN_PROGRESS: no guard tells them apart. The job's copies of settlement and
  delivery status are kept only in the order's row.
* QA's verdict, a Provider's outcome and whether an external call fails are nondeterministic.
* `retryCount` saturates at `MaxRetries`, which is where every comparison with it ends; `rejections` at the length
  (`MaxHistory` + 1) from which the code raises.
* The capability kill switch, read once at entry, and the limit of a maintenance batch are left out: each invocation may start or
  not in any state.
* Branches no execution reaches are left out: the replay of an existing repair row, the idempotent replay of a claim by its own id.
* Query errors that are not retryable are listed as a hazard; of an UNKNOWN attempt they are `QueryRaises`. A 3xx answer to a POST is left out.
* Two resolutions of a manual case that a trigger refuses (F13) change nothing and are left out; `MaxHistory` is 2 in the code.
* Whether an UPDATE writes a column that the remembered object already shows as wanted depends on that object; where it matters both outcomes are possible (`PersistSubmittedFact`, `MarkSubmissionUnknown`).
* A fence on a remembered job whose remembered lease has run out raises; that is not told apart from `LostFence` and `Crash`.
* What an operator states as evidence is true.
* Steps are whole commits; the locks inside them are LockOrder's.

* Ledger: one account; what a merge does to lots is in AccountClaims; amounts are small integers; the order of lots is a rank; the lots of subscriptions have the behaviour of a purchase's. A refund or dispute whose amount or currency is not
  valid goes to review without touching anything, as `RejectCapture` does. A capture of the same payment for another purchase is not modelled.
* Uploads: sizes are in units of the progress step; images are valid or the part fails; time is the day and whether a lease may be over, so a recovery may come at any moment.
* Pictures: DELETE_FAILED is PENDING_DELETE; the hour between two checks of a blocked picture may pass at any moment; which rows a limit selects is free. Candidates of repairs and retention's choice of pictures are left out. A clean-up is assumed
  not to overtake a write in progress (`SlowWrites = FALSE`): writes take seconds, the back-off of a row that was just staged does not.
* Admission: what catalogue, prompts, legal terms and gatekeeper say is a free choice; a trial costs 2 credits; the rate limit of requests is left out. Nothing deletes idempotency records.
* Accounts: one lot of one credit per purchase, one order and one plan per account; partner lineage, live portraits, the export and risk events are left out. `CallsAreShort`: a call ends before a claim proof is made for its account, or a clean-up is done with it (minutes against
  milliseconds); each claim has a request id of its own.
* Row locks: rows of users and identities, advisory locks (their keys belong to one request), merges, transactions that lock one row or SKIP LOCKED, and grants of pictures are left out; one candidate, source and result stand for the pictures of an order.
* Sessions: one family and one browser; sign-in is the initial state; the acceptance session and OAuth intents are left out.
* Subscriptions: a user pays only at a checkout's URL that was returned READY; Creem schedules a cancellation once and never takes it back; refunds and disputes of invoices (`apply_subscription_adjustment_event`) and the lot of a grant are left out. A checkout
  opens at most one subscription, so its key names both.

Components not modelled, with reasons, are in `PROJECT.json`: those of section 8 are planned; gatekeeping, QA models, prompts and image processing have no shared
state; analytics, admin and content are independent single writes; the rest of the frontend acts through the HTTP application; migrations and release scripts are not part
of the running system. They are most of the repository's lines, which is why the map covers a small share of them.

## 8. Plan

Done: the lease, the life of one order, the ledger with the events of purchases, admission of orders, claims and closure of accounts, uploads, pictures and their deletion, sessions, subscriptions, the order of row locks; the proofs of section 5. Next:

1. **MaintenanceBatch** — several orders and a batch of two: starvation behind jobs that fail in every attempt.
2. **Settlement** — an abstract specification (held, captured, given back, once) implemented by GenerationLifecycle.
3. The partner invite protocol before the order exists; OAuth intents; refunds and disputes of subscription invoices.
