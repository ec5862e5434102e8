--------------------------- MODULE OrderAdmission ---------------------------
(***************************************************************************)
(* Admission of orders: order_creation_service over idempotency_service    *)
(* and the transaction of order_transaction_service, on the credits of one *)
(* account (CreditLedger) while its orders are generated, settled and      *)
(* delivered.                                                              *)
(*                                                                         *)
(* A request looks up its key, reads the facts that decide whether it is a *)
(* free trial, has its images checked, which takes seconds, and only then  *)
(* runs the transaction that trusts those facts.  A client repeats a       *)
(* request with the same key; a handler may die at any point.              *)
(***************************************************************************)
EXTENDS CreditLedger, Sequences

CONSTANTS
  Requests,  \* deliveries of POST /orders, each with a handler of its own
  Key,       \* its Idempotency-Key
  Payload,   \* what its body hashes to
  Simple     \* payloads a trial may pay for: one subject, base scene, no director

\* Which of its two orders a request makes depends on how it is to be paid.
OrderOf(r, trial) == <<r, IF trial THEN "trial" ELSE "paid">>

ASSUME AdmissionAssumption ==
  /\ Orders = Requests \X {"trial", "paid"}
  /\ TrialOrders = Requests \X {"trial"}
  /\ \A r \in Requests : Price[OrderOf(r, TRUE)] = 2
  /\ Requests \subseteq DOMAIN Key /\ Requests \subseteq DOMAIN Payload

VARIABLES
  request,  \* the handlers
  record,   \* idempotency_records that are COMPLETED, by key
  recent    \* the trial orders of the last 24 hours, the oldest first

admissionVars == <<request, record, recent>>
vars == <<creditVars, admissionVars>>

Keys == {Key[r] : r \in Requests}
NoOrder == <<>>

\* trial is what the facts said; answer is the order of a 202.
RequestRow ==
  [at : {"none", "facts", "images", "created", "answered", "refused", "dead"},
   trial : BOOLEAN, answer : Orders \cup {NoOrder}]

RecordRow == [payload : {Payload[r] : r \in Requests}, order : Orders \cup {NoOrder}]

\* Every column has its type.
TypeOK ==
  /\ CreditTypeOK
  /\ request \in [Requests -> RequestRow]
  /\ record \in [Keys -> RecordRow]
  /\ recent \in Seq(TrialOrders)

Recorded(k) == record[k].order # NoOrder

Init ==
  /\ CreditInit
  /\ request = [r \in Requests |-> [at |-> "none", trial |-> FALSE, answer |-> NoOrder]]
  /\ record = [k \in Keys |->
       [payload |-> Payload[CHOOSE r \in Requests : Key[r] = k], order |-> NoOrder]]
  /\ recent = <<>>

-----------------------------------------------------------------------------
(* create_order_for_user *)

Go(r, at) == request' = [request EXCEPT ![r].at = at]

Refuse(r) == Go(r, "refused") /\ UNCHANGED <<creditVars, record, recent>>

\* A replay that hands out the recorded order whatever the body says.
ReplaysAnything(r) == Recorded(Key[r])

\* A record with another request hash is a conflict, never an answer.
Replays(r) == Recorded(Key[r]) /\ record[Key[r]].payload = Payload[r]

Replay(r) ==
  /\ Replays(r)
  /\ request' = [request EXCEPT ![r].at = "answered", ![r].answer = record[Key[r]].order]
  /\ UNCHANGED <<creditVars, record, recent>>

Conflict(r) == Recorded(Key[r]) /\ ~Replays(r) /\ Refuse(r)

\* _completed_replay reads the record without a lock.
LookUp(r) ==
  /\ request[r].at = "none"
  /\ \/ Replay(r)
     \/ Conflict(r)
     \/ ~Recorded(Key[r]) /\ Go(r, "facts") /\ UNCHANGED <<creditVars, record, recent>>

\* The sum of the welcome lots counts credits that another order holds.
WelcomeSpendable ==
  IF Granted(Welcome) /\ Welcome \notin expired THEN Spendable(lot[Welcome]) ELSE 0

ReadyTrialExists == \E o \in TrialOrders : delivery[o].step = "ready"

\* trial_eligible of build_create_order_command
TrialEligible(r) ==
  /\ Payload[r] \in Simple
  /\ WelcomeSpendable >= 2
  /\ Len(recent) < 3
  /\ ~ReadyTrialExists

\* _load_admission_facts; its queries follow each other, later ones only see more.
LoadFacts(r) ==
  /\ request[r].at = "facts"
  /\ request' = [request EXCEPT ![r].at = "images", ![r].trial = TrialEligible(r)]
  /\ UNCHANGED <<creditVars, record, recent>>

\* Template, prompt, legal terms or catalogue do not allow the request.
RejectBody(r) == request[r].at = "facts" /\ Refuse(r)

\* _run_gatekeeper_checks
RejectImages(r) == request[r].at = "images" /\ Refuse(r)

-----------------------------------------------------------------------------
(* create_order_transaction *)

\* The transaction does not look whether the key has been used meanwhile.
NeverTaken(r) == FALSE

\* begin_idempotent_request locks the key and reads its record again.
KeyTaken(r) == Recorded(Key[r])

\* The orders _load_admission_facts counts.
Counted(o) == IF o \in TrialOrders THEN Append(recent, o) ELSE recent

\* Order, reservation, job and completed record are committed together; the
\* policy is the one the facts of before gave.
CreateOrder(r) ==
  LET o == OrderOf(r, request[r].trial)
  IN /\ request[r].at = "images" /\ ~KeyTaken(r)
     /\ Reserve(o)
     /\ record' = [record EXCEPT ![Key[r]] = [payload |-> Payload[r], order |-> o]]
     /\ recent' = Counted(o)
     /\ request' = [request EXCEPT ![r].at = "created", ![r].answer = o]

\* A picture is no longer ACTIVE when the transaction locks it.
PictureGone(r) == request[r].at = "images" /\ ~KeyTaken(r) /\ Refuse(r)

ReplayLocked(r) == request[r].at = "images" /\ KeyTaken(r) /\ (Replay(r) \/ Conflict(r))

\* InsufficientCredits, 402
CannotPay(r) ==
  /\ request[r].at = "images" /\ ~KeyTaken(r)
  /\ ~MayReserve(OrderOf(r, request[r].trial))
  /\ Refuse(r)

\* A generation that cannot be started now does not change the answer.
Answer(r) ==
  /\ request[r].at = "created"
  /\ Go(r, "answered")
  /\ UNCHANGED <<creditVars, record, recent>>

Die(r) ==
  /\ request[r].at \in {"facts", "images", "created"}
  /\ Go(r, "dead")
  /\ UNCHANGED <<creditVars, record, recent>>

-----------------------------------------------------------------------------

\* A completed checkout grants its credits.
Buy(p) ==
  /\ ~Granted(p)
  /\ Grant(p, Credits[p])
  /\ UNCHANGED <<expired, reservation, delivery, admissionVars>>

\* 24 hours have passed since the oldest trial order was made.
DayPasses ==
  /\ recent # <<>>
  /\ recent' = Tail(recent)
  /\ UNCHANGED <<creditVars, request, record>>

Handle(r) ==
  \/ LookUp(r) \/ LoadFacts(r) \/ RejectBody(r) \/ RejectImages(r) \/ ReplayLocked(r)
  \/ PictureGone(r) \/ CannotPay(r) \/ CreateOrder(r) \/ Answer(r) \/ Die(r)

\* What happens to an order after its admission.
Generate(o) ==
  /\ \/ Submit(o) \/ Release(o) \/ Capture(o) \/ RefundGeneration(o)
     \/ CheckFunding(o) \/ DeliveryLost(o) \/ Deliver(o)
  /\ UNCHANGED admissionVars

Next ==
  \/ \E r \in Requests : Handle(r)
  \/ \E o \in Orders : Generate(o)
  \/ \E p \in Purchases : Buy(p)
  \/ (GrantWelcome \/ \E l \in Lots : Expire(l)) /\ UNCHANGED admissionVars
  \/ DayPasses

Spec == Init /\ [][Next]_vars

-----------------------------------------------------------------------------
(* Properties *)

Admitted == {o \in Orders : reservation[o].status # "none"}

\* Two answers for one key name one order and were given for one body, however often
\* the request was repeated, at once or after a crash (idempotency_service).
OneOrderPerKey ==
  \A q, r \in Requests :
    /\ request[q].at = "answered" /\ request[r].at = "answered" /\ Key[q] = Key[r]
    => request[q].answer = request[r].answer /\ Payload[q] = Payload[r]

\* Every order holds its key: no credits are reserved that a repeated request would
\* not find, and no record promises an order that holds none (create_order_transaction).
OrdersAreRecorded ==
  /\ Admitted = {record[k].order : k \in Keys} \ {NoOrder}
  /\ \A j, k \in Keys : Recorded(j) /\ record[j].order = record[k].order => j = k

\* Every column has its type, and the welcome grant carries one trial at a time, and one
\* that is paid for good, whatever old facts two admissions were decided on.
OneTrialAtATime ==
  /\ TypeOK
  /\ Cardinality({o \in TrialOrders :
       \/ reservation[o].status = "RESERVED"
       \/ reservation[o].status = "CAPTURED" /\ ~reservation[o].refunded}) <= 1

-----------------------------------------------------------------------------
(* What the documents say and the code does not do (README, section 6) *)

\* TRIAL_MAX_ATTEMPTS_PER_24H: no account has more than three trial orders made
\* within 24 hours.
TrialLimitKept == Len(recent) <= 3

\* What the welcome grant pays for is never more than a trial: without a purchase no
\* order is delivered as a paid one.
WelcomeOnlyBuysTrials ==
  (\A p \in Purchases : ~Granted(p)) =>
    \A o \in Orders \ TrialOrders : delivery[o].entitlement # "ACTIVE"

=============================================================================
