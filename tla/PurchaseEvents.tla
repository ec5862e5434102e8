--------------------------- MODULE PurchaseEvents ---------------------------
(***************************************************************************)
(* Payment events of Creem and the credit purchases they belong to:        *)
(* creem_event_service, the event handlers of payment_service and the      *)
(* cases of payment_reconciliation_service, over the credits they grant,   *)
(* freeze and take back while orders hold and spend them.                  *)
(*                                                                         *)
(* Events arrive in any order, more than once, or not at all.  An event is *)
(* ingested in one transaction and applied in the next; in between another *)
(* delivery may apply it, and a handler that dies just never goes on.      *)
(***************************************************************************)
EXTENDS CreditLedger

CONSTANTS
  Events,      \* event ids
  Fact,        \* what an event says
  Captured,    \* captured_minor_units of every purchase
  NoPurchase,  \* the subject of a case about an unknown payment
  MaxEvents    \* bound: how many of the events happen in one behaviour

\* amount is in minor units; object is the provider's refund or dispute id.
FactRow ==
  [kind : {"capture", "mismatch", "refund", "OPEN", "WON", "LOST", "REVIEW"},
   purchase : Purchases, amount : Nat \ {0}, object : STRING]

ASSUME EventAssumption ==
  /\ \A e \in Events : Fact[e] \in FactRow
  /\ Captured \in Nat \ {0}
  /\ NoPurchase \notin Purchases
  /\ MaxEvents \in Nat

\* Two lots never tie: the last column of their order is the id.
ASSUME RankAssumption == \A l, m \in Lots : ExpiryRank[l] = ExpiryRank[m] => l = m

VARIABLES
  purchase,  \* credit_purchases with their capture, refund and dispute facts
  event,     \* payment_events: processing_state
  loaded,    \* events whose handler has read RECEIVED and not yet locked the row
  case       \* payment_reconciliation_cases, all of them OPEN

vars == <<creditVars, purchase, event, loaded, case>>

EventState == {"absent", "RECEIVED", "APPLIED", "RECONCILIATION_REQUIRED"}

PurchaseRow ==
  [captured : BOOLEAN, refunded : 0..Captured, facts : SUBSET Events,
   dispute : {"NONE", "OPEN", "WON", "LOST"}]

\* A case is named by its key; its event stands for the payload's hash.
TypeOK ==
  /\ CreditTypeOK
  /\ purchase \in [Purchases -> PurchaseRow]
  /\ event \in [Events -> EventState]
  /\ loaded \subseteq Events
  /\ \A c \in case : c.event \in Events /\ c.purchase \in Purchases \cup {NoPurchase}

Init ==
  /\ CreditInit
  /\ purchase = [p \in Purchases |->
       [captured |-> FALSE, refunded |-> 0, facts |-> {}, dispute |-> "NONE"]]
  /\ event = [e \in Events |-> "absent"]
  /\ loaded = {}
  /\ case = {}

-----------------------------------------------------------------------------
(* Delivery of events *)

\* ingest_verified_creem_event commits the event before anything is applied.
Ingest(e) ==
  /\ event[e] = "absent"
  /\ Cardinality({f \in Events : event[f] # "absent"}) < MaxEvents
  /\ event' = [event EXCEPT ![e] = "RECEIVED"]
  /\ loaded' = loaded \cup {e}
  /\ UNCHANGED <<creditVars, purchase, case>>

\* apply_payment_event locks the row; a later delivery reads its state there, but
\* the first one's session keeps the RECEIVED it has read before.
FirstDelivery(e) == e \in loaded /\ loaded' = loaded \ {e}
LaterDelivery(e) == event[e] = "RECEIVED" /\ UNCHANGED loaded

Mark(e, state) == event' = [event EXCEPT ![e] = state]

\* A case that does not say which purchase it is about.
OpenCaseUnnamed(e, key, p) ==
  LET row == [key |-> key, event |-> e, purchase |-> NoPurchase]
  IN /\ \A c \in case : c.key = key => c = row
     /\ case' = case \cup {row}

\* open_payment_reconciliation_case: a case with the same key must be about the
\* same event and purchase, or it raises and the whole transaction is undone.
OpenCase(e, key, p) ==
  LET row == [key |-> key, event |-> e, purchase |-> p]
  IN /\ \A c \in case : c.key = key => c = row
     /\ case' = case \cup {row}

EventKey(e) == <<"event", e>>

\* _mark_event_reconciliation
NeedsReconciliation(e, p) ==
  /\ OpenCase(e, EventKey(e), p)
  /\ Mark(e, "RECONCILIATION_REQUIRED")

\* An event whose fact is already recorded is applied, whatever it was before.
AlreadyRecorded(e) ==
  /\ Mark(e, "APPLIED")
  /\ UNCHANGED <<creditVars, purchase, case>>

-----------------------------------------------------------------------------
(* _apply_checkout_capture *)

\* A capture is granted whenever its event comes.
GrantsAgain(p) == TRUE

GrantsFirst(p) == ~purchase[p].captured

ApplyCapture(e, p) ==
  /\ Fact[e].kind = "capture"
  /\ \/ /\ GrantsFirst(p)
        /\ Grant(p, Credits[p])
        /\ purchase' = [purchase EXCEPT ![p].captured = TRUE]
        /\ Mark(e, "APPLIED")
        /\ UNCHANGED <<expired, reservation, delivery, case>>
     \/ ~GrantsFirst(p) /\ AlreadyRecorded(e)

\* Amount, product, currency or status are not those of the catalogue.
RejectCapture(e, p) ==
  /\ Fact[e].kind = "mismatch"
  /\ NeedsReconciliation(e, p)
  /\ UNCHANGED <<creditVars, purchase>>

\* A refund or dispute that overtakes its capture, or belongs to none.
CaptureNotFound(e, p) ==
  /\ Fact[e].kind \notin {"capture", "mismatch"} /\ ~purchase[p].captured
  /\ NeedsReconciliation(e, NoPurchase)
  /\ UNCHANGED <<creditVars, purchase>>

-----------------------------------------------------------------------------
(* _apply_refund *)

\* classify_monetary_reversal: FULL only if nothing was refunded before.
IsFull(e, p) == Fact[e].amount = Captured /\ purchase[p].refunded = 0

\* Unique constraints: another event about the same refund, or the same outcome
\* of a dispute, cannot be recorded, and its transaction is undone.
NewFact(e) ==
  \A q \in Purchases : \A f \in purchase[q].facts :
    Fact[f].kind = Fact[e].kind => Fact[f].object # Fact[e].object

WithRefundFact(e, p) ==
  LET total == purchase[p].refunded + Fact[e].amount
  IN [purchase EXCEPT ![p].facts = @ \cup {e},
                      ![p].refunded = IF total <= Captured THEN total ELSE @]

ApplyFullRefund(e, p) ==
  /\ IsFull(e, p)
  /\ \/ /\ MayReverse(p)
        /\ Reverse(p)
        /\ NewFact(e)
        /\ purchase' = WithRefundFact(e, p)
        /\ Mark(e, "APPLIED")
        /\ UNCHANGED case
     \/ /\ ~MayReverse(p)
        /\ NeedsReconciliation(e, p)
        /\ UNCHANGED <<creditVars, purchase>>

ApplyOtherRefund(e, p) ==
  /\ ~IsFull(e, p)
  /\ Freeze(p)
  /\ NewFact(e)
  /\ purchase' = WithRefundFact(e, p)
  /\ OpenCase(e, <<"refund", Fact[e].object>>, p)
  /\ Mark(e, "RECONCILIATION_REQUIRED")

ApplyRefund(e, p) ==
  /\ Fact[e].kind = "refund" /\ purchase[p].captured
  /\ \/ e \in purchase[p].facts /\ AlreadyRecorded(e)
     \/ e \notin purchase[p].facts /\ (ApplyFullRefund(e, p) \/ ApplyOtherRefund(e, p))

-----------------------------------------------------------------------------
(* _apply_dispute *)

WithDisputeFact(e, p, state) ==
  [purchase EXCEPT ![p].facts = @ \cup {e}, ![p].dispute = state]

DisputeUnclear(e) ==
  Fact[e].kind = "REVIEW" \/ (Fact[e].kind \in {"OPEN", "WON", "LOST"} /\ Fact[e].amount > Captured)

\* reverse_root_grant finds its own earlier transaction for the dispute.
ReversedFor(e, p) ==
  \E f \in purchase[p].facts :
    Fact[f].kind = "LOST" /\ Fact[f].object = Fact[e].object /\ Fact[f].amount = Captured

\* The purchase is frozen and a case opened, applied or not.
HoldForDispute(e, p, tag, dispute, state) ==
  /\ Freeze(p)
  /\ NewFact(e)
  /\ purchase' = WithDisputeFact(e, p, dispute)
  /\ OpenCase(e, <<tag, Fact[e].object>>, p)
  /\ Mark(e, state)

ReviewDispute(e, p) ==
  /\ DisputeUnclear(e)
  /\ HoldForDispute(e, p, Fact[e].kind, purchase[p].dispute, "RECONCILIATION_REQUIRED")

OpenDispute(e, p) ==
  /\ Fact[e].kind = "OPEN" /\ ~DisputeUnclear(e)
  /\ HoldForDispute(e, p, "open", "OPEN", "APPLIED")

WinDispute(e, p) ==
  /\ Fact[e].kind = "WON" /\ ~DisputeUnclear(e)
  /\ Unfreeze(p)
  /\ NewFact(e)
  /\ purchase' = WithDisputeFact(e, p, "WON")
  /\ Mark(e, "APPLIED")
  /\ UNCHANGED case

LoseDispute(e, p) ==
  /\ Fact[e].kind = "LOST" /\ ~DisputeUnclear(e)
  /\ \/ /\ Fact[e].amount # Captured
        /\ HoldForDispute(e, p, "lost", purchase[p].dispute, "RECONCILIATION_REQUIRED")
     \/ /\ Fact[e].amount = Captured /\ MayReverse(p)
        /\ Reverse(p)
        /\ NewFact(e)
        /\ purchase' = WithDisputeFact(e, p, "LOST")
        /\ Mark(e, "APPLIED")
        /\ UNCHANGED case
     \/ /\ Fact[e].amount = Captured /\ ~MayReverse(p) /\ ~ReversedFor(e, p)
        /\ NeedsReconciliation(e, p)
        /\ UNCHANGED <<creditVars, purchase>>

ApplyDispute(e, p) ==
  /\ Fact[e].kind \in {"OPEN", "WON", "LOST", "REVIEW"} /\ purchase[p].captured
  /\ \/ e \in purchase[p].facts /\ AlreadyRecorded(e)
     \/ /\ e \notin purchase[p].facts
        /\ ReviewDispute(e, p) \/ OpenDispute(e, p) \/ WinDispute(e, p) \/ LoseDispute(e, p)

-----------------------------------------------------------------------------

\* apply_payment_event
Apply(e) ==
  /\ FirstDelivery(e) \/ LaterDelivery(e)
  /\ LET p == Fact[e].purchase
     IN \/ ApplyCapture(e, p) \/ RejectCapture(e, p) \/ CaptureNotFound(e, p)
        \/ ApplyRefund(e, p) \/ ApplyDispute(e, p)

Untouched == UNCHANGED <<purchase, event, loaded, case>>

EventSteps(e) == Ingest(e) \/ Apply(e)

Next == (CreditSteps /\ Untouched) \/ \E e \in Events : EventSteps(e)

Spec == Init /\ [][Next]_vars

-----------------------------------------------------------------------------
(* What holds *)

\* The account is the sum of its lots, and every lot the sum of what the orders
\* took from it, whatever order the events came in.
LedgerAgrees ==
  /\ account.balance = SumFunction([l \in Lots |-> lot[l].original - lot[l].reversed - lot[l].consumed])
  /\ account.reserved = SumFunctionOnSet(Price, Holding)
  /\ \A l \in Lots :
       lot[l].consumed = SumFunctionOnSet([o \in Orders |-> reservation[o].alloc[l]],
                           {o \in Orders : reservation[o].status = "CAPTURED"})

\* What orders hold of a lot is still there: it was not held twice, spent, used
\* to repay a debt, or taken back while it was held.
HeldCreditsBacked ==
  \A l \in Lots : Held(l) > 0 =>
    Held(l) + lot[l].offset + lot[l].reversed + lot[l].consumed <= lot[l].original

\* Every credit of a positive balance can be found on some lot: no grant repays
\* more debt than spent credits that were taken back have left.
NothingStranded ==
  account.balance <=
    SumFunction([l \in Lots |-> AtLeastZero(lot[l].original - lot[l].offset - lot[l].reversed
                                         - lot[l].consumed)])

\* Credits are frozen only while somebody has a case to decide about them.
FrozenOnlyUnderReview ==
  \A p \in Purchases : lot[p].frozen > 0 => \E c \in case : c.purchase = p

\* What captured orders have used, as LedgerAgrees finds it on the lots.
Used == SumFunctionOnSet(Price, {o \in Orders : reservation[o].status = "CAPTURED"})

Prepaid == INSTANCE PrepaidAccount WITH
  worth <- account.balance + Used, used <- Used, held <- account.reserved

\* To its user the account is a prepaid one: whatever the lots and the events do,
\* an order holds only what is paid for and neither used nor held.
ImplementsPrepaid == Prepaid!Spec

=============================================================================
