------------------------------ MODULE JobLease ------------------------------
(***************************************************************************)
(* The lease columns of one generation_jobs row and the invocations that   *)
(* compete for it: job_lease_service with the heartbeat of generation_     *)
(* executor_service and the writers that clear a lease.                    *)
(*                                                                         *)
(* Every service reads the clock when it is entered and only then waits    *)
(* for the row lock, so each decision uses a time that may be old.  A      *)
(* session is one call of _claim: its claim id is a fresh uuid4, its owner *)
(* is shared by every invocation of a deployment.                          *)
(*                                                                         *)
(* A locked read of a row that the database session has loaded before      *)
(* returns the object it holds, with the columns it had (expire_on_commit  *)
(* is off and nothing asks for populate_existing).  The first fence of a   *)
(* service therefore decides by the row, but those that follow a commit of *)
(* the same service compare the claim with a copy of itself, and pass.     *)
(***************************************************************************)
EXTENDS Naturals

CONSTANTS
  Sessions,      \* claim ids
  Owners,        \* worker ids
  Owner,         \* the worker id a session claims with
  LeaseSeconds,  \* JOB_LEASE_SECONDS
  MaxTime,       \* bound: the clock stops here
  None           \* the NULL of the lease columns

ASSUME LeaseAssumption ==
  /\ None \notin Sessions /\ None \notin Owners
  /\ Owner \in [Sessions -> Owners]
  /\ LeaseSeconds \in Nat \ {0}
  /\ MaxTime \in Nat

VARIABLES
  now,       \* the clock
  job,       \* generation_jobs: status and the lease columns
  session,   \* each session's step, its JobLease and the clock readings it uses
  lastEntry  \* the fencing token with which a fence was last passed by the row

vars == <<now, job, session, lastEntry>>

Closed == {"FINISHED", "FAILED", "CANCELLED"}
Status == {"QUEUED", "ACTIVE", "RECONCILING"} \cup Closed

Step == {"new", "claimJob", "claimReconciliation", "working", "over"}

JobRow ==
  [status : Status, owner : Owners \cup {None}, claim : Sessions \cup {None},
   token : Nat, expires : Nat]

\* loaded: the service that runs holds the job as its first fence has read it.
SessionRow == [pc : Step, token : Nat, seen : Nat, beat : Nat, loaded : BOOLEAN]

\* No clock reading is ahead of the clock and no lease runs further ahead of it
\* than LeaseSeconds: so long at most does a dead invocation keep a job.
TypeOK ==
  /\ now \in Nat
  /\ job \in JobRow
  /\ session \in [Sessions -> SessionRow]
  /\ lastEntry \in Nat
  /\ job.expires <= now + LeaseSeconds
  /\ \A s \in Sessions : session[s].seen <= now /\ session[s].beat <= now

\* NULL timestamps are 0, which is always in the past.
Init ==
  /\ now = 1
  /\ job = [status |-> "QUEUED", owner |-> None, claim |-> None, token |-> 0, expires |-> 0]
  /\ session = [s \in Sessions |->
                  [pc |-> "new", token |-> 0, seen |-> 0, beat |-> 0, loaded |-> FALSE]]
  /\ lastEntry = 0

Tick ==
  /\ now < MaxTime
  /\ now' = now + 1
  /\ UNCHANGED <<job, session, lastEntry>>

-----------------------------------------------------------------------------
(* The row *)

Live(t) == job.expires > t

\* _clear_lease
Cleared(j, status) ==
  [j EXCEPT !.status = status, !.owner = None, !.claim = None, !.expires = 0]

\* A fence that trusts the worker id, which all invocations of a deployment share.
FenceByOwner(s, t) == job.status = "ACTIVE" /\ job.owner = Owner[s] /\ job.expires > t

\* _require_current_fence
Fence(s, t) ==
  /\ job.status = "ACTIVE"
  /\ job.owner = Owner[s] /\ job.claim = s
  /\ job.token = session[s].token
  /\ job.expires > t

Over(s) ==
  session' = [session EXCEPT ![s].pc = "over", ![s].seen = 0, ![s].beat = 0,
                             ![s].loaded = FALSE]

-----------------------------------------------------------------------------
(* claim_generation_job and claim_generation_reconciliation *)

BeginClaim(s, kind) ==
  /\ session[s].pc = "new"
  /\ session' = [session EXCEPT ![s].pc = kind, ![s].seen = now]
  /\ UNCHANGED <<now, job, lastEntry>>

StatusClaimable(s) ==
  \/ session[s].pc = "claimJob" /\ job.status \in {"QUEUED", "ACTIVE"}
  \/ session[s].pc = "claimReconciliation" /\ job.status = "RECONCILING"

\* A claim that does not respect a lease that is still live.
MayClaimAnyway(s) == StatusClaimable(s)

MayClaim(s) == StatusClaimable(s) /\ ~Live(session[s].seen)

\* Besides, a reconciliation claim is refused when no attempt is left to reconcile.
ClaimRefused(s) ==
  /\ \/ session[s].pc \in {"claimJob", "claimReconciliation"} /\ ~MayClaim(s)
     \/ session[s].pc = "claimReconciliation"
  /\ Over(s)
  /\ UNCHANGED <<now, job, lastEntry>>

\* The active attempt may already have reached the Provider.
ClaimRouted(s) ==
  /\ session[s].pc = "claimJob" /\ MayClaim(s)
  /\ job' = Cleared(job, "RECONCILING")
  /\ Over(s)
  /\ UNCHANGED <<now, lastEntry>>

\* A token that is counted only the first time.
TokenReused(token) == IF token = 0 THEN 1 ELSE token

NextToken(token) == token + 1

GrantedUntil(s) == session[s].seen + LeaseSeconds

ClaimGranted(s) ==
  /\ MayClaim(s)
  /\ job' = [status |-> "ACTIVE", owner |-> Owner[s], claim |-> s,
             token |-> NextToken(job.token), expires |-> GrantedUntil(s)]
  /\ session' = [session EXCEPT ![s].pc = "working", ![s].token = NextToken(job.token)]
  /\ UNCHANGED <<now, lastEntry>>

-----------------------------------------------------------------------------
(* Working under the lease *)

Working(s) == session[s].pc = "working"

\* A service is entered, in a database session of its own or in that of the one
\* before, and fixes the time it will compare the lease with.
ReadClock(s) ==
  /\ Working(s)
  /\ \E loaded \in {FALSE, session[s].loaded} :
       session' = [session EXCEPT ![s].seen = now, ![s].loaded = loaded]
  /\ UNCHANGED <<now, job, lastEntry>>

\* The fence of a service that has not loaded the job yet is passed by the row, a
\* later one by the copy of it.
FenceOfRow(s) ==
  /\ ~session[s].loaded /\ Fence(s, session[s].seen)
  /\ lastEntry' = session[s].token

FenceOfCopy(s) == session[s].loaded /\ UNCHANGED lastEntry

Fenced(s) == Working(s) /\ (FenceOfRow(s) \/ FenceOfCopy(s))

\* require_current_generation_fence and a write to rows other than the job
FencedWrite(s) ==
  /\ Fenced(s)
  /\ session' = [session EXCEPT ![s].loaded = TRUE]
  /\ UNCHANGED <<now, job>>

\* pause_generation_reconciliation and mark_submission_unknown leave the job
\* RECONCILING, a scheduled repair leaves it ACTIVE without a lease, complete_
\* generation_job and fail_generation_and_settle close it.  What is written are the
\* columns that differ from the copy, in which the job is ACTIVE; a closed job is
\* kept as it is by trg_generation_jobs_transition.
HandOn(s, status) ==
  /\ Fenced(s)
  /\ status # "ACTIVE" /\ job.status \in Closed => status = job.status
  /\ job' = Cleared(job, IF status = "ACTIVE" THEN job.status ELSE status)
  /\ Over(s)
  /\ UNCHANGED now

\* StaleWorkerFence
FenceRaises(s) ==
  /\ Working(s) /\ ~session[s].loaded /\ ~Fence(s, session[s].seen)
  /\ Over(s)
  /\ UNCHANGED <<now, job, lastEntry>>

Crash(s) ==
  /\ session[s].pc \notin {"new", "over"}
  /\ Over(s)
  /\ UNCHANGED <<now, job, lastEntry>>

-----------------------------------------------------------------------------
(* _heartbeat_loop, a task of its own beside the work *)

BeginHeartbeat(s) ==
  /\ Working(s) /\ session[s].beat = 0
  /\ session' = [session EXCEPT ![s].beat = now]
  /\ UNCHANGED <<now, job, lastEntry>>

\* heartbeat_generation_job
Heartbeat(s) ==
  /\ Working(s) /\ session[s].beat # 0
  /\ Fence(s, session[s].beat)
  /\ job' = [job EXCEPT !.expires = session[s].beat + LeaseSeconds]
  /\ session' = [session EXCEPT ![s].beat = 0]
  /\ UNCHANGED <<now, lastEntry>>

\* A heartbeat that finds its fence gone cancels the work.
HeartbeatRaises(s) ==
  /\ Working(s) /\ session[s].beat # 0
  /\ ~Fence(s, session[s].beat)
  /\ Over(s)
  /\ UNCHANGED <<now, job, lastEntry>>

-----------------------------------------------------------------------------
(* Writers without a lease *)

\* bind_evolink_callback_task, when it finds no live lease
CallbackHandsOn ==
  /\ job.status \in {"ACTIVE", "RECONCILING"} /\ ~Live(now)
  /\ job' = Cleared(job, "RECONCILING")
  /\ UNCHANGED <<now, session, lastEntry>>

\* resolve_generation_manual_case
OperatorRules ==
  /\ job.status = "RECONCILING" /\ job.owner = None
  /\ \E status \in {"RECONCILING", "ACTIVE", "FAILED"} : job' = [job EXCEPT !.status = status]
  /\ UNCHANGED <<now, session, lastEntry>>

\* withdraw_partner_invite before anything was submitted: the lease stays
PartnerWithdraws ==
  /\ job.status \in {"QUEUED", "ACTIVE"}
  /\ job' = [job EXCEPT !.status = "CANCELLED"]
  /\ UNCHANGED <<now, session, lastEntry>>

\* settle_open_partner_consent_case_after_provider, whoever calls it
WithdrawalSettled ==
  /\ job.status \in {"ACTIVE", "RECONCILING", "CANCELLED"}
  /\ job' = Cleared(job, "CANCELLED")
  /\ UNCHANGED <<now, session, lastEntry>>

-----------------------------------------------------------------------------

Claims(s) ==
  \/ \E kind \in {"claimJob", "claimReconciliation"} : BeginClaim(s, kind)
  \/ ClaimRefused(s) \/ ClaimRouted(s) \/ ClaimGranted(s)

Works(s) ==
  \/ ReadClock(s) \/ FencedWrite(s)
  \/ \E status \in {"RECONCILING", "ACTIVE", "FINISHED", "FAILED"} : HandOn(s, status)
  \/ FenceRaises(s) \/ Crash(s)
  \/ BeginHeartbeat(s) \/ Heartbeat(s) \/ HeartbeatRaises(s)

Unleased == CallbackHandsOn \/ OperatorRules \/ PartnerWithdraws \/ WithdrawalSettled

Next == Tick \/ (\E s \in Sessions : Claims(s) \/ Works(s)) \/ Unleased

Spec == Init /\ [][Next]_vars

-----------------------------------------------------------------------------
(* Properties *)

\* A fencing token names one claim for ever: no two sessions are given the same,
\* and the row's token is the newest (claim_generation_job and claim_generation_
\* reconciliation each count on their own).
TokensNeverReused ==
  /\ \A s \in Sessions : session[s].token <= job.token
  /\ \A s, t \in Sessions : session[s].token = session[t].token =>
                              s = t \/ session[s].token = 0

\* A job waiting for reconciliation, or closed by its worker, is not held by
\* anybody: an operator and the next claim find it free.  Only a withdrawal leaves
\* the lease of the job it cancels behind (_clear_lease and its three copies).
LeaseOnlyWhileActive == job.claim # None => job.status \in {"ACTIVE", "CANCELLED"}

\* Once a claim has passed its first fence, no earlier claim passes the fence of a
\* service it enters, even if it was stalled past its lease or compares its lease
\* with an old time.  An earlier one that is inside a service goes on to its end.
OldClaimsNeverEnter == [][lastEntry' >= lastEntry]_vars

\* A lease that is live by the clock may be given up or revoked but is never
\* handed to another session.
LiveLeaseNotStolen ==
  [][job.claim # None /\ Live(now) => job'.claim \in {job.claim, None}]_vars

\* While a claim stands, its deadline never moves back, although a heartbeat may
\* wait for the row, locked by the work beside it, with the time it has read.
DeadlineNeverMovesBack ==
  [][job'.claim = job.claim => job'.expires >= job.expires]_vars

Holder == INSTANCE FencedHolder WITH
  holder <- job.claim,
  live <- job.claim # None /\ Live(now),
  epoch <- job.token

\* The row is a lock: its current holder alone enters work on the job, and those
\* whom it has overtaken inside a service can at most take the lease off the row,
\* never hold the job again or hand it to anybody.
ImplementsFencedHolder == Holder!Spec

=============================================================================
