------------------------------ MODULE LockOrder ------------------------------
(* The rows that the transactions about one order lock with SELECT ... FOR UPDATE, and
   the order in which they take them.  A transaction waits while another holds the row
   it wants; PostgreSQL aborts one of the transactions that wait for each other.  The
   code speaks of a global lock order; this module has the order every transaction
   really keeps, so that a deadlock can be traced to the calls that leave it.

   Left out: transactions that lock a single row (heartbeat, pause, claim, freezing a
   lot), those that SKIP LOCKED, rows no other transaction about the order locks, the
   rows of users and identities, and advisory locks, whose keys belong to one request.
   A transaction whose rows are the first rows of another is that one rolled back: the
   claim of a reconciliation, mark_submission_unknown, persist_submitted_fact, storing
   the candidate, the callback.

   The names Init, Next and their like are taken by JobLease, which is proved about
   together with this module; here they begin with LO. *)
EXTENDS Naturals, Sequences, SequencesExt, FiniteSets

CONSTANTS
  Calls,    \* the database sessions
  Orderly   \* those that run no call of OutOfOrder (a bound of the state space)

ASSUME OrderlyAssumption == Orderly \subseteq Calls

VARIABLES
  partner,  \* BOOLEAN: the order came from a partner invite; never changes
  ready,    \* BOOLEAN: the order was delivered, its job is FINISHED
  case,     \* "none", "open" or "settled": the consent case of a withdrawal
  call      \* [Calls -> the transaction a session runs, its rows to lock and locked]

LOvars == <<partner, ready, case, call>>

(***************************************************************************)
(* What the transactions lock, in their order                              *)
(***************************************************************************)
RowNames ==
  {"invite", "case", "job", "attempt1", "attempt2", "order", "reservation", "account", "lot1",
   "lot2", "unlockLot", "entitlement", "source", "candidate", "result"}

\* require_partner_generation_allowed locks the invite of the job, if there is one.
Gate == IF partner THEN <<"invite">> ELSE <<>>

\* require_current_generation_fence, then the attempt; a repair is the second attempt.
Attempts == {"attempt1", "attempt2"}
FencedRows(a) == <<"job", a>>

\* _load_repair_capture_lineage
RepairLineage == <<"order", "attempt1", "reservation">>

\* The context that candidate, strict QA and delivery load before they write.
Context(a) ==
  Gate \o FencedRows(a) \o <<"order">> \o (IF a = "attempt2" THEN RepairLineage ELSE <<>>)
       \o <<"candidate">>

\* The lots a reservation took, ORDER BY id.
Lots == <<"lot1", "lot2">>
AllLots == {"lot1", "lot2", "unlockLot"}

\* capture_reservation; release_reservation and refund_captured_reservation
Capture == FencedRows("attempt1") \o <<"reservation", "account">> \o Lots
GiveBack == <<"reservation", "account">>

\* fail_generation_and_settle
Fail == <<"job", "order">> \o GiveBack

\* _lock_funding_graph of a private download
Funding == <<"reservation">> \o Lots \o <<"entitlement", "unlockLot">>

\* prepare_submission_boundary: funding is proved before the pictures are granted.
SubmitInitial ==
  Gate \o FencedRows("attempt1") \o <<"order">> \o GiveBack \o Lots \o <<"source">>

\* execute_claimed_generation_attempt locks the job of a repair, and only then enters
\* the boundary that starts with the invite.
SubmitRepair ==
  FencedRows("attempt2") \o Gate \o <<"order">> \o RepairLineage \o <<"source", "candidate">>

\* settle_open_partner_consent_case_after_provider, with and without an open case
SettleCase(a) == Gate \o <<"case", "order", "job", a>> \o GiveBack
NothingToSettle == Gate

\* _execute_generation_reconciliation goes from the query to the case, and to the
\* failure or the candidate, in one transaction; it starts anew where accounting or
\* the candidate was committed.
Reconcile(a) ==
  {start \o rest : start \in {<<>>, FencedRows(a)},
                   rest \in {NothingToSettle, NothingToSettle \o Fail,
                            NothingToSettle \o Context(a)}
                           \cup (IF partner THEN {SettleCase(a)} ELSE {})}

\* run_and_persist_strict_qa, reached with or without the attempt locked
Judge(a) ==
  {start \o NothingToSettle \o <<"job">> \o Context(a) \o <<"source">> :
     start \in {<<>>, FencedRows(a)}}

\* decide_next_generation_action after a look for an open case
Dispose ==
  {NothingToSettle \o <<"job">> \o rest :
     rest \in {<<"attempt2", "order">>, RepairLineage, Fail}
             \cup {Context(a) : a \in Attempts}}

\* build_delivery_assets, the transaction that publishes
Deliver(a) ==
  Context(a) \o <<"reservation">> \o Lots \o <<"result", "entitlement", "job">>

\* _execute_ready_delivery out of retries: it has locked the job to count them.
CleanUp(a) == <<"job">> \o Context(a) \o <<"result">> \o Fail

\* The operator's case starts with the order it is about.
ResolveFromOrder(a) ==
  {<<"order">> \o FencedRows(a) \o rest : rest \in {<<>>, GiveBack, Capture \o GiveBack}}

\* create_generation_manual_evidence and resolve_generation_manual_case
Resolve(a) ==
  {FencedRows(a) \o <<"order">> \o rest : rest \in {<<>>, GiveBack, Capture \o GiveBack}}

\* withdraw_partner_invite of a completed invite, or of one withdrawn before
Withdraw ==
  IF case # "none" THEN <<"invite", "case">>
  ELSE <<"invite", "order", "job", "attempt1", "attempt2", "source", "candidate", "result",
         "entitlement">> \o GiveBack

\* resolve_private_download and unlock_trial_order
Download == <<"order", "result">> \o Funding
Unlock == Download \o <<"job">>

\* create_order_transaction of another order with the same picture: lock_credit_funding
\* takes every lot it may use ORDER BY expires_at.
CreateOrders == {<<"source", "account">> \o lots : lots \in SetToSeqs(AllLots)}

\* reverse_root_grant
Reversals == {<<lot, "account", "entitlement">> : lot \in AllLots}

\* confirm_storage_deletion, and the settled case it may close
Pictures == {"source", "candidate", "result"}
ConfirmDeletions ==
  {<<p>> \o rest : p \in Pictures, rest \in IF partner THEN {<<>>, <<"case">>} ELSE {<<>>}}

\* close_account selects the pictures of an owner with no ORDER BY.
CloseAccounts == SetToSeqs(Pictures)

\* The ways a transaction may go on, each with the rows it locks.
LocksOf(name) ==
  CASE name = "Submit" -> {SubmitInitial}
    [] name = "SubmitRepair" -> {SubmitRepair}
    [] name = "Reject" -> {FencedRows(a) \o Fail : a \in Attempts}
    [] name = "Account" ->
         {Capture, FencedRows("attempt1") \o <<"order">> \o Capture,
          FencedRows("attempt2") \o RepairLineage}
    [] name = "Reconcile" -> UNION {Reconcile(a) : a \in Attempts}
    [] name = "Judge" -> UNION {Judge(a) : a \in Attempts}
    [] name = "Dispose" -> Dispose
    [] name = "Deliver" -> {Deliver(a) : a \in Attempts}
    [] name = "CleanUp" -> {CleanUp(a) : a \in Attempts}
    [] name = "Resolve" -> UNION {Resolve(a) : a \in Attempts}
    [] name = "Withdraw" -> IF partner THEN {Withdraw} ELSE {}
    [] name = "Download" -> {Download}
    [] name = "Unlock" -> {Unlock}
    [] name = "CreateOrder" -> CreateOrders
    [] name = "Reverse" -> Reversals
    [] name = "ConfirmDeletion" -> ConfirmDeletions
    [] name = "CloseAccount" -> CloseAccounts

Worker ==
  {"Submit", "SubmitRepair", "Reject", "Account", "Reconcile", "Judge", "Dispose",
   "Deliver", "CleanUp"}
Names ==
  Worker \cup {"Resolve", "Withdraw", "Download", "Unlock", "CreateOrder", "Reverse",
               "ConfirmDeletion", "CloseAccount"}

\* The calls that leave the order in which the others lock: a picture before the account
\* and lots by their expiry (CreateOrder), a lot before the account (Reverse), the order
\* before the job (Unlock, Withdraw, the settlement of a case), pictures in no order
\* (CloseAccount), and for a partner's order the job before the invite.
OutOfOrder ==
  {"CreateOrder", "Reverse", "Unlock", "CloseAccount"}
    \cup IF partner THEN {"Withdraw", "SubmitRepair", "Reconcile", "Judge", "CleanUp"} ELSE {}

(***************************************************************************)
(* Sessions                                                                *)
(***************************************************************************)
Idle == [name |-> "idle", todo |-> <<>>, held |-> {}]

Running(c) == call[c].name # "idle"
Wants(c) == call[c].todo # <<>>
Blocks(d, c) == d # c /\ Wants(c) /\ Head(call[c].todo) \in call[d].held

\* What is left to lock: a row that the transaction holds is had again at once.
Ahead(rows, held) ==
  LET new == {i \in DOMAIN rows : rows[i] \notin held} IN
  IF new = {} THEN <<>> ELSE SubSeq(rows, Min(new), Len(rows))

LOInit ==
  /\ partner \in BOOLEAN
  /\ ready = FALSE /\ case = "none"
  /\ call = [c \in Calls |-> Idle]

Begin(c) ==
  /\ ~Running(c)
  /\ \E name \in IF c \in Orderly THEN Names \ OutOfOrder ELSE Names :
       \E rows \in LocksOf(name) :
         call' = [call EXCEPT ![c] = [name |-> name, todo |-> rows, held |-> {}]]
  /\ UNCHANGED <<partner, ready, case>>

\* The check behind a lock fails: the fence, once the job has ended; a download before
\* delivery or after a withdrawal.
Refused(c, row) ==
  \/ row = "job" /\ call[c].name \in Worker /\ (ready \/ case = "settled")
  \/ row = "order" /\ call[c].name \in {"Download", "Unlock"} /\ (~ready \/ case # "none")

Lock(c) ==
  /\ Wants(c)
  /\ \A d \in Calls : ~Blocks(d, c)
  /\ LET row == Head(call[c].todo)
         locked == call[c].held \cup {row}
     IN call' = [call EXCEPT ![c] =
                   IF Refused(c, row) THEN Idle
                   ELSE [call[c] EXCEPT !.todo = Ahead(Tail(call[c].todo), locked),
                                        !.held = locked]]
  /\ UNCHANGED <<partner, ready, case>>

\* The changes that the checks above see.  Partner orders are not delivered.
Commit(c) ==
  /\ Running(c) /\ ~Wants(c)
  /\ ready' = (ready \/ (call[c].name = "Deliver" /\ ~partner))
  /\ case' \in CASE call[c].name = "Withdraw" /\ case = "none" -> {"open", "settled"}
                 [] "case" \in call[c].held /\ case = "open" -> {"open", "settled"}
                 [] OTHER -> {case}
  /\ call' = [call EXCEPT ![c] = Idle]
  /\ UNCHANGED partner

\* The caller raises or dies, or PostgreSQL aborts the transaction.
Rollback(c) ==
  /\ Running(c)
  /\ call' = [call EXCEPT ![c] = Idle]
  /\ UNCHANGED <<partner, ready, case>>

LONext == \E c \in Calls : Begin(c) \/ Lock(c) \/ Commit(c) \/ Rollback(c)

LOSpec == LOInit /\ [][LONext]_LOvars

(***************************************************************************)
(* Deadlocks                                                               *)
(***************************************************************************)
\* Sessions of which each waits for another of them.
Deadlocks == {S \in (SUBSET Calls) \ {{}} : \A c \in S : \E d \in S : Blocks(d, c)}

LOTypeOK ==
  /\ partner \in BOOLEAN /\ ready \in BOOLEAN
  /\ case \in {"none", "open", "settled"}
  /\ call \in [Calls -> [name : Names \cup {"idle"}, todo : Seq(RowNames), held : SUBSET RowNames]]

\* No row is locked by two transactions, and none wait for each other for ever unless one
\* of them is a call that is known to lock out of order: submission, accounting, candidate,
\* disposition, delivery, callback, manual settlement, download and deletion keep one order
\* among themselves ("the global job -> attempt order", credit_reservation_service.py:115).
OnlyKnownDeadlocks ==
  /\ LOTypeOK
  /\ \A c, d \in Calls : c # d => call[c].held \cap call[d].held = {}
  /\ \A S \in Deadlocks : \E c \in S : call[c].name \in OutOfOrder
=============================================================================
