---------------------------- MODULE CreditLedger ----------------------------
(***************************************************************************)
(* The credits of one account: credit_reservation_service, credit_         *)
(* reversal_service, welcome_grant_service and the freezing of payment_    *)
(* reconciliation_service over user_credits, credit_grant_lots, credit_    *)
(* reservations with their allocations, and order_entitlements.            *)
(*                                                                         *)
(* A lot is named by what it came from: the welcome grant, a purchase, or  *)
(* the order whose captured credits were given back.  A lot that has not   *)
(* been granted has original 0.  An action is one committed transaction.   *)
(***************************************************************************)
EXTENDS Integers, FiniteSets, Functions

CONSTANTS
  Purchases,     \* credit purchases
  Orders,        \* orders, one reservation each
  TrialOrders,   \* those whose funding policy is WELCOME_ONLY
  Welcome,       \* the lot of the welcome grant
  Credits,       \* CreditPurchase.credits
  Price,         \* the amount an order reserves
  ExpiryRank,    \* the order of lots by expires_at, created_at and id
  MayExpire,     \* lots that may run out
  MaxOrders      \* bound: how many of the orders are made in one behaviour

Lots == {Welcome} \cup Purchases \cup Orders

ASSUME CreditAssumption ==
  /\ IsFiniteSet(Purchases) /\ IsFiniteSet(Orders)
  /\ Welcome \notin Purchases \cup Orders
  /\ Purchases \cap Orders = {}
  /\ TrialOrders \subseteq Orders
  /\ Credits \in [Purchases -> Nat \ {0}]
  /\ \A o \in Orders : Price[o] \in Nat \ {0}
  /\ \A l \in Lots : ExpiryRank[l] \in Nat
  /\ MayExpire \subseteq Lots
  /\ MaxOrders \in Nat

VARIABLES
  account,      \* user_credits: balance, reserved_balance
  lot,          \* credit_grant_lots
  expired,      \* lots whose expires_at is past
  reservation,  \* status, and what was allocated to which lot
  delivery      \* how far an order is, with its entitlement

creditVars == <<account, lot, expired, reservation, delivery>>

LotRow ==
  [original : Nat, offset : Nat, reversed : Nat, frozen : Nat, consumed : Nat]

ReservationRow ==
  [status : {"none", "RESERVED", "CAPTURED", "RELEASED"}, alloc : [Lots -> Nat],
   refunded : BOOLEAN]

\* unlock is the paid lot that opened a trial, or the order's own lot for none.
DeliveryRow ==
  [step : {"none", "submitting", "checked", "ready", "failed"},
   entitlement : {"none", "ACTIVE", "REVOKED"}, unlock : Lots]

\* Every column has its type.
CreditTypeOK ==
  /\ account \in [balance : Int, reserved : Nat]
  /\ lot \in [Lots -> LotRow]
  /\ expired \subseteq Lots
  /\ reservation \in [Orders -> ReservationRow]
  /\ delivery \in [Orders -> DeliveryRow]

\* No lot is spent beyond what was granted and did not repay a debt, none is taken
\* back more than once, and none is frozen beyond its grant.
NoLotOverdrawn ==
  \A l \in Lots : /\ lot[l].offset + lot[l].consumed <= lot[l].original
                  /\ lot[l].reversed <= lot[l].original
                  /\ lot[l].frozen <= lot[l].original

LotOf(amount, repaid) ==
  [original |-> amount, offset |-> repaid, reversed |-> 0, frozen |-> 0, consumed |-> 0]
NoCredits == [l \in Lots |-> 0]

CreditInit ==
  /\ account = [balance |-> 0, reserved |-> 0]
  /\ lot = [l \in Lots |-> LotOf(0, 0)]
  /\ expired = {}
  /\ reservation = [o \in Orders |->
       [status |-> "none", alloc |-> NoCredits, refunded |-> FALSE]]
  /\ delivery = [o \in Orders |-> [step |-> "none", entitlement |-> "none", unlock |-> o]]

-----------------------------------------------------------------------------
(* Lots *)

AtLeastZero(n) == IF n > 0 THEN n ELSE 0
Least(m, n) == IF m < n THEN m ELSE n

Granted(l) == lot[l].original > 0

\* CreditGrantLot.spendable_amount
Spendable(r) == AtLeastZero(r.original - r.offset - r.reversed - r.frozen - r.consumed)

\* A grant that repays what the account has instead of what it owes.
NewLotRepaysBalance(amount) == LotOf(amount, Least(amount, AtLeastZero(account.balance)))

\* A grant first repays the debt of the account.
NewLot(amount) == LotOf(amount, Least(amount, AtLeastZero(-account.balance)))

Grant(l, amount) ==
  /\ lot' = [lot EXCEPT ![l] = NewLot(amount)]
  /\ account' = [account EXCEPT !.balance = @ + amount]

\* ensure_welcome_grant_for_identity, WELCOME_GRANT_AMOUNT
GrantWelcome ==
  /\ ~Granted(Welcome)
  /\ Grant(Welcome, 2)
  /\ UNCHANGED <<expired, reservation, delivery>>

Expire(l) ==
  /\ l \in MayExpire \ expired /\ Granted(l)
  /\ expired' = expired \cup {l}
  /\ UNCHANGED <<account, lot, reservation, delivery>>

-----------------------------------------------------------------------------
(* Reservations *)

\* OrderFundingPolicySnapshot.allowed_source_types: a refund is paid credit.
Allowed(o) == IF o \in TrialOrders THEN {Welcome} ELSE Lots \ {Welcome}

Holding == {o \in Orders : reservation[o].status = "RESERVED"}

\* _reserved_amounts_by_lot
Held(l) == SumFunctionOnSet([o \in Orders |-> reservation[o].alloc[l]], Holding)

\* Credits of other reservations that are not counted against a lot.
AvailableUnheld(o) ==
  [l \in Lots |-> IF l \in Allowed(o) \ expired THEN Spendable(lot[l]) ELSE 0]

Available(o) ==
  [l \in Lots |->
     IF l \in Allowed(o) \ expired THEN AtLeastZero(Spendable(lot[l]) - Held(l)) ELSE 0]

\* build_fefo_allocations: the lot that expires first is used up first.
FefoAllocation(amount, available) ==
  [l \in Lots |->
     LET sooner == {m \in Lots : ExpiryRank[m] < ExpiryRank[l]}
     IN Least(available[l], AtLeastZero(amount - SumFunctionOnSet(available, sooner)))]

\* UserCredit.spendable_balance
SpendableBalance == AtLeastZero(account.balance - account.reserved)

\* A hold that looks at the lots and not at the account.
MayReserveInDebt(o) == SumFunction(Available(o)) >= Price[o]

\* lock_credit_funding
MayReserve(o) ==
  /\ SpendableBalance >= Price[o]
  /\ SumFunction(Available(o)) >= Price[o]

\* reserve_credits; with its key an order reserves once.
Reserve(o) ==
  /\ reservation[o].status = "none"
  /\ Cardinality({p \in Orders : reservation[p].status # "none"}) < MaxOrders
  /\ MayReserve(o)
  /\ LET alloc == FefoAllocation(Price[o], Available(o))
     IN /\ alloc \in [Lots -> 0..Price[o]]
        /\ reservation' = [reservation EXCEPT ![o].status = "RESERVED", ![o].alloc = alloc]
  /\ account' = [account EXCEPT !.reserved = @ + Price[o]]
  /\ UNCHANGED <<lot, expired, delivery>>

LotsCover(o) ==
  /\ account.reserved >= Price[o]
  /\ \A l \in Lots : Spendable(lot[l]) >= reservation[o].alloc[l]

\* require_initial_submission_reservation, before the Provider is asked
Submit(o) ==
  /\ reservation[o].status = "RESERVED" /\ delivery[o].step = "none"
  /\ LotsCover(o)
  /\ delivery' = [delivery EXCEPT ![o].step = "submitting"]
  /\ UNCHANGED <<account, lot, expired, reservation>>

\* release_reservation, by whoever proves that nothing was accepted; only the
\* amount of the reservation matters, its lots are not looked at.
Release(o) ==
  /\ reservation[o].status = "RESERVED"
  /\ account.reserved >= Price[o]
  /\ reservation' = [reservation EXCEPT ![o].status = "RELEASED"]
  /\ account' = [account EXCEPT !.reserved = @ - Price[o]]
  /\ delivery' = [delivery EXCEPT ![o].step = "failed"]
  /\ UNCHANGED <<lot, expired>>

\* capture_reservation; it raises, and the attempt stays where it is, when a lot
\* no longer covers its allocation.
Capture(o) ==
  /\ reservation[o].status = "RESERVED" /\ delivery[o].step = "submitting"
  /\ LotsCover(o)
  /\ lot' = [l \in Lots |-> [lot[l] EXCEPT !.consumed = @ + reservation[o].alloc[l]]]
  /\ account' = [balance |-> account.balance - Price[o],
                 reserved |-> account.reserved - Price[o]]
  /\ reservation' = [reservation EXCEPT ![o].status = "CAPTURED"]
  /\ UNCHANGED <<expired, delivery>>

\* fail_generation_and_settle with refund_captured_reservation: the credits come
\* back as a lot of their own.
RefundGeneration(o) ==
  /\ reservation[o].status = "CAPTURED" /\ ~reservation[o].refunded
  /\ delivery[o].step \in {"submitting", "checked"}
  /\ Grant(o, Price[o])
  /\ reservation' = [reservation EXCEPT ![o].refunded = TRUE]
  /\ delivery' = [delivery EXCEPT ![o].step = "failed"]
  /\ UNCHANGED expired

-----------------------------------------------------------------------------
(* Entitlements *)

Funding(o) == {l \in Lots : reservation[o].alloc[l] > 0}

\* validate_captured_entitlement_funding
FundingIntact(o) ==
  /\ reservation[o].status = "CAPTURED"
  /\ \A l \in Funding(o) : lot[l].reversed = 0 /\ lot[l].frozen = 0

\* build_delivery_assets looks at the funding before it stores its artifacts.
CheckFunding(o) ==
  /\ delivery[o].step = "submitting" /\ FundingIntact(o)
  /\ delivery' = [delivery EXCEPT ![o].step = "checked"]
  /\ UNCHANGED <<account, lot, expired, reservation>>

\* The invocation dies or loses its lease; the next one looks afresh.
DeliveryLost(o) ==
  /\ delivery[o].step = "checked"
  /\ delivery' = [delivery EXCEPT ![o].step = "submitting"]
  /\ UNCHANGED <<account, lot, expired, reservation>>

\* When it publishes, the lots it locks again are the objects its session has
\* already loaded: nothing refreshes them, and it sees what it saw before.
Deliver(o) ==
  /\ delivery[o].step = "checked"
  /\ delivery' = [delivery EXCEPT ![o].step = "ready",
       ![o].entitlement = IF o \in TrialOrders THEN "none" ELSE "ACTIVE"]
  /\ UNCHANGED <<account, lot, expired, reservation>>

\* validate_trial_unlock_grant; unlock_trial_order
MayUnlock(o, l) ==
  /\ delivery[o].step = "ready" /\ o \in TrialOrders /\ delivery[o].entitlement = "none"
  /\ FundingIntact(o)
  /\ l \notin expired /\ lot[l].reversed = 0 /\ lot[l].frozen = 0 /\ Spendable(lot[l]) > 0
  /\ \A p \in Orders \ {o} : delivery[p].unlock # l

UnlockTrial(o, l) ==
  /\ l \in Purchases
  /\ MayUnlock(o, l)
  /\ delivery' = [delivery EXCEPT ![o].entitlement = "ACTIVE", ![o].unlock = l]
  /\ UNCHANGED <<account, lot, expired, reservation>>

-----------------------------------------------------------------------------
(* Reversals and holds, the parts of a payment event's transaction *)

\* A grant may be taken back while an order holds credits of it.
MayReverseHeld(l) == Granted(l) /\ lot[l].reversed + Credits[l] <= lot[l].original

\* Every notice takes the whole grant back, however often it was taken back.
MayReverseTwice(l) == Granted(l) /\ \A o \in Holding : reservation[o].alloc[l] = 0

\* reverse_root_grant
MayReverse(l) ==
  /\ MayReverseHeld(l)
  /\ \A o \in Holding : reservation[o].alloc[l] = 0

\* Active entitlements funded or unlocked by the lot.
AccessRevoked(l) ==
  [o \in Orders |->
     IF delivery[o].entitlement = "ACTIVE" /\ (l \in Funding(o) \/ delivery[o].unlock = l)
     THEN [delivery[o] EXCEPT !.entitlement = "REVOKED"] ELSE delivery[o]]

\* apply_root_reversal_counters: the whole grant is taken back, spent or not.
Reverse(l) ==
  /\ lot' = [lot EXCEPT ![l].reversed = @ + Credits[l],
                        ![l].frozen = AtLeastZero(@ - Credits[l])]
  /\ account' = [account EXCEPT !.balance = @ - Credits[l]]
  /\ delivery' = AccessRevoked(l)
  /\ UNCHANGED <<expired, reservation>>

\* freeze_unspent_purchase_lineage, which also freezes what orders hold
Freeze(l) ==
  /\ lot' = [lot EXCEPT ![l].frozen = @ + Spendable(lot[l])]
  /\ UNCHANGED <<account, expired, reservation, delivery>>

\* unfreeze_purchase_lineage
Unfreeze(l) ==
  /\ lot' = [lot EXCEPT ![l].frozen = 0]
  /\ UNCHANGED <<account, expired, reservation, delivery>>

-----------------------------------------------------------------------------

OrderSteps(o) ==
  \/ Reserve(o) \/ Submit(o) \/ Release(o) \/ Capture(o) \/ RefundGeneration(o)
  \/ CheckFunding(o) \/ DeliveryLost(o) \/ Deliver(o) \/ \E l \in Purchases : UnlockTrial(o, l)

CreditSteps == GrantWelcome \/ (\E l \in Lots : Expire(l)) \/ \E o \in Orders : OrderSteps(o)

=============================================================================
