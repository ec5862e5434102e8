------------------------ MODULE PurchaseEventsProofs ------------------------
(***************************************************************************)
(* Theorems about the credits of an account under any payment events: any  *)
(* purchases, orders, prices and facts.                                    *)
(***************************************************************************)
EXTENDS PurchaseEvents, SumTheorems, TLAPS

\* The invariant the two theorems need of each other's parts.
IInv == TypeOK /\ NoLotOverdrawn /\ FrozenOnlyUnderReview

\* A row of a lot in which nothing is overdrawn.
Sound(r) ==
  /\ r \in LotRow
  /\ r.offset + r.consumed <= r.original
  /\ r.reversed <= r.original
  /\ r.frozen <= r.original

\* What can be spent of a lot is what no other column has taken.
LEMMA SpendableBound ==
  ASSUME NEW r, Sound(r)
  PROVE  /\ Spendable(r) \in Nat
         /\ Spendable(r) > 0 =>
              r.offset + r.consumed + r.reversed + r.frozen + Spendable(r) = r.original
  BY DEF Sound, LotRow, Spendable, AtLeastZero

\* A lot that has just been granted is sound.
LEMMA NewLotSound ==
  ASSUME CreditTypeOK, NEW amount \in Nat
  PROVE  Sound(NewLot(amount)) /\ NewLot(amount).frozen = 0
<1> DEFINE offset == Least(amount, AtLeastZero(-account.balance))
<1>1. account.balance \in Int
  BY DEF CreditTypeOK
<1>2. offset \in Nat /\ offset <= amount
  BY <1>1 DEF Least, AtLeastZero
<1>3. NewLot(amount) = LotOf(amount, offset)
  BY DEF NewLot
<1> HIDE DEF offset
<1> QED
  BY <1>2, <1>3 DEF Sound, LotRow, LotOf

\* A step that leaves every lot sound, freezes nothing new without a case about the
\* purchase, and keeps the other columns well-formed, preserves the invariant.
LEMMA LotStep ==
  ASSUME IInv,
         account' \in [balance : Int, reserved : Nat],
         expired' \subseteq Lots,
         reservation' \in [Orders -> ReservationRow],
         delivery' \in [Orders -> DeliveryRow],
         lot' \in [Lots -> LotRow],
         \A l \in Lots : Sound(lot'[l]),
         \A p \in Purchases : lot'[p].frozen > 0 =>
           lot[p].frozen > 0 \/ \E c \in case' : c.purchase = p,
         case \subseteq case',
         \A c \in case' : c.event \in Events /\ c.purchase \in Purchases \cup {NoPurchase},
         purchase' \in [Purchases -> PurchaseRow],
         event' \in [Events -> EventState],
         loaded' \subseteq Events
  PROVE  IInv'
<1>1. NoLotOverdrawn'
  BY DEF NoLotOverdrawn, Sound
<1>2. FrozenOnlyUnderReview'
  BY DEF IInv, FrozenOnlyUnderReview
<1>3. TypeOK'
  BY DEF TypeOK, CreditTypeOK
<1> QED
  BY <1>1, <1>2, <1>3 DEF IInv

-----------------------------------------------------------------------------
(* What the operations leave of the lots *)

\* Every lot is sound, and those that are frozen were frozen before, or are in P.
LotsKept(P) ==
  /\ lot' \in [Lots -> LotRow]
  /\ \A l \in Lots : Sound(lot'[l])
  /\ \A p \in Purchases : lot'[p].frozen > 0 => lot[p].frozen > 0 \/ p \in P

\* The lots are rows and sound.
LEMMA RowsSound ==
  ASSUME IInv
  PROVE  /\ lot \in [Lots -> LotRow]
         /\ \A l \in Lots : Sound(lot[l])
  BY DEF IInv, TypeOK, CreditTypeOK, NoLotOverdrawn, Sound

\* One lot is changed to a sound row.
LEMMA OneLot ==
  ASSUME IInv, NEW P, NEW l \in Lots, NEW r, Sound(r), lot' = [lot EXCEPT ![l] = r],
         r.frozen > 0 => lot[l].frozen > 0 \/ l \in P
  PROVE  LotsKept(P)
  BY RowsSound DEF LotsKept, Sound, Lots

\* Lots that are left alone are kept.
LEMMA LotsSame ==
  ASSUME IInv, UNCHANGED lot
  PROVE  LotsKept({})
  BY RowsSound DEF LotsKept, Lots

\* A grant keeps the lots sound.
LEMMA GrantKeeps ==
  ASSUME IInv, NEW l \in Lots, NEW amount \in Nat, Grant(l, amount)
  PROVE  LotsKept({}) /\ account' \in [balance : Int, reserved : Nat]
<1>1. CreditTypeOK
  BY DEF IInv, TypeOK
<1>2. Sound(NewLot(amount)) /\ NewLot(amount).frozen = 0
  BY <1>1, NewLotSound
<1>3. lot' = [lot EXCEPT ![l] = NewLot(amount)]
  BY DEF Grant
<1>4. LotsKept({})
  <2> DEFINE r == NewLot(amount)
  <2>1. Sound(r) /\ ~(r.frozen > 0) /\ lot' = [lot EXCEPT ![l] = r]
    BY <1>2, <1>3
  <2> HIDE DEF r
  <2> QED
    BY <2>1, OneLot
<1> QED
  BY <1>1, <1>4 DEF Grant, CreditTypeOK

\* A capture consumes no more of a lot than it could spend.
LEMMA CaptureKeeps ==
  ASSUME IInv, NEW o \in Orders, Capture(o)
  PROVE  LotsKept({}) /\ account' \in [balance : Int, reserved : Nat]
<1> DEFINE row(l) == [lot[l] EXCEPT !.consumed = @ + reservation[o].alloc[l]]
<1>1. CreditTypeOK
  BY DEF IInv, TypeOK
<1>2. ASSUME NEW l \in Lots
      PROVE  Sound(row(l)) /\ row(l).frozen = lot[l].frozen
  <2>1. reservation[o].alloc[l] \in Nat /\ Spendable(lot[l]) >= reservation[o].alloc[l]
    BY <1>1 DEF CreditTypeOK, ReservationRow, Capture, LotsCover
  <2>2. Sound(lot[l])
    BY RowsSound
  <2>3. lot[l].offset + lot[l].consumed + reservation[o].alloc[l] <= lot[l].original
    BY <2>1, <2>2, SpendableBound DEF Sound, LotRow
  <2> QED
    BY <2>1, <2>2, <2>3 DEF Sound, LotRow
<1>3. lot' = [l \in Lots |-> row(l)]
  BY DEF Capture
<1>4. LotsKept({})
  <2> HIDE DEF row
  <2> QED
    BY <1>2, <1>3 DEF LotsKept, Lots, Sound
<1>5. account' \in [balance : Int, reserved : Nat]
  BY <1>1, CreditAssumption DEF CreditTypeOK, Capture, LotsCover
<1> QED
  BY <1>4, <1>5

\* A reversal takes no more from a lot than is left of it.
LEMMA ReverseKeeps ==
  ASSUME IInv, NEW p \in Purchases, MayReverse(p), Reverse(p)
  PROVE  LotsKept({}) /\ account' \in [balance : Int, reserved : Nat]
<1> DEFINE row == [lot[p] EXCEPT !.reversed = @ + Credits[p], !.frozen = AtLeastZero(@ - Credits[p])]
<1>1. p \in Lots /\ Credits[p] \in Nat /\ Sound(lot[p])
  BY CreditAssumption, RowsSound DEF Lots
<1>2. lot[p].reversed + Credits[p] <= lot[p].original
  BY DEF MayReverse, MayReverseHeld
<1>3. Sound(row) /\ (row.frozen > 0 => lot[p].frozen > 0)
  <2> DEFINE left == AtLeastZero(lot[p].frozen - Credits[p])
  <2>1. left \in Nat /\ left <= lot[p].frozen
    BY <1>1 DEF Sound, LotRow, AtLeastZero
  <2> HIDE DEF left
  <2>2. lot[p] \in LotRow
    BY <1>1 DEF Sound
  <2>3. row \in LotRow
    <3>1. ASSUME NEW v \in Nat, NEW w \in Nat
          PROVE  [lot[p] EXCEPT !.reversed = v, !.frozen = w] \in LotRow
      BY <2>2 DEF LotRow
    <3>2. lot[p].reversed + Credits[p] \in Nat
      BY <1>1, <2>2 DEF LotRow
    <3> QED
      BY <2>1, <3>1, <3>2 DEF left
  <2>4. row.frozen = left /\ row.reversed = lot[p].reversed + Credits[p]
    BY <2>2 DEF LotRow, left
  <2>5. row.original = lot[p].original /\ row.offset = lot[p].offset
          /\ row.consumed = lot[p].consumed
    BY <2>2 DEF LotRow
  <2> HIDE DEF row
  <2> QED
    BY <1>1, <1>2, <2>1, <2>3, <2>4, <2>5 DEF Sound, LotRow
<1>4. lot' = [lot EXCEPT ![p] = row]
  BY DEF Reverse
<1>5. LotsKept({})
  <2> HIDE DEF row
  <2> QED
    BY <1>1, <1>3, <1>4, OneLot
<1>6. account' \in [balance : Int, reserved : Nat]
  BY <1>1 DEF IInv, TypeOK, CreditTypeOK, Reverse
<1> QED
  BY <1>5, <1>6

\* Freezing and unfreezing touch the lot of the purchase only.
LEMMA FreezeKeeps ==
  ASSUME IInv, NEW p \in Purchases, Freeze(p) \/ Unfreeze(p)
  PROVE  LotsKept({p})
<1> DEFINE row == IF Freeze(p) THEN [lot[p] EXCEPT !.frozen = @ + Spendable(lot[p])]
                               ELSE [lot[p] EXCEPT !.frozen = 0]
<1>1. p \in Lots /\ Sound(lot[p]) /\ lot \in [Lots -> LotRow]
  BY RowsSound DEF Lots
<1>2. lot[p].frozen + Spendable(lot[p]) <= lot[p].original /\ Spendable(lot[p]) \in Nat
  BY <1>1, SpendableBound DEF Sound, LotRow
<1>3. Sound(row)
  BY <1>1, <1>2 DEF Sound, LotRow
<1>4. lot' = [lot EXCEPT ![p] = row]
  BY <1>1 DEF Freeze, Unfreeze
<1> HIDE DEF row
<1> QED
  BY <1>1, <1>3, <1>4, OneLot


-----------------------------------------------------------------------------
(* The steps *)

\* What the payment columns owe the invariant.
EventsKept ==
  /\ case \subseteq case'
  /\ \A c \in case' : c.event \in Events /\ c.purchase \in Purchases \cup {NoPurchase}
  /\ purchase' \in [Purchases -> PurchaseRow]
  /\ event' \in [Events -> EventState]
  /\ loaded' \subseteq Events

\* Events stay as they are while credits are moved.
LEMMA UntouchedKeeps ==
  ASSUME IInv, Untouched
  PROVE  EventsKept
  BY DEF IInv, TypeOK, Untouched, EventsKept

\* Changing one column of one order keeps the types.
LEMMA ReservationUpdates ==
  ASSUME CreditTypeOK, NEW o \in Orders
  PROVE  /\ \A status \in {"RESERVED", "CAPTURED", "RELEASED"} :
              [reservation EXCEPT ![o].status = status] \in [Orders -> ReservationRow]
         /\ \A alloc \in [Lots -> Nat] :
              [reservation EXCEPT ![o].status = "RESERVED", ![o].alloc = alloc]
                \in [Orders -> ReservationRow]
         /\ [reservation EXCEPT ![o].refunded = TRUE] \in [Orders -> ReservationRow]
<1>1. reservation \in [Orders -> ReservationRow] /\ reservation[o] \in ReservationRow
  BY DEF CreditTypeOK
<1>2. ASSUME NEW status \in {"RESERVED", "CAPTURED", "RELEASED"}
      PROVE  [reservation[o] EXCEPT !.status = status] \in ReservationRow
  BY <1>1 DEF ReservationRow
<1>3. ASSUME NEW alloc \in [Lots -> Nat]
      PROVE  [reservation[o] EXCEPT !.status = "RESERVED", !.alloc = alloc] \in ReservationRow
  BY <1>1 DEF ReservationRow
<1>4. [reservation[o] EXCEPT !.refunded = TRUE] \in ReservationRow
  BY <1>1 DEF ReservationRow
<1> QED
  BY <1>1, <1>2, <1>3, <1>4

\* Changing one column of the delivery of one order keeps the types.
LEMMA DeliveryUpdates ==
  ASSUME CreditTypeOK, NEW o \in Orders
  PROVE  /\ \A step \in {"submitting", "checked", "ready", "failed"} :
              [delivery EXCEPT ![o].step = step] \in [Orders -> DeliveryRow]
         /\ \A access \in {"none", "ACTIVE"} :
              [delivery EXCEPT ![o].step = "ready", ![o].entitlement = access]
                \in [Orders -> DeliveryRow]
         /\ \A l \in Lots :
              [delivery EXCEPT ![o].entitlement = "ACTIVE", ![o].unlock = l]
                \in [Orders -> DeliveryRow]
         /\ \A l \in Lots : AccessRevoked(l) \in [Orders -> DeliveryRow]
<1>1. delivery \in [Orders -> DeliveryRow] /\ delivery[o] \in DeliveryRow
  BY DEF CreditTypeOK
<1>2. ASSUME NEW step \in {"submitting", "checked", "ready", "failed"}
      PROVE  [delivery[o] EXCEPT !.step = step] \in DeliveryRow
  BY <1>1 DEF DeliveryRow
<1>3. ASSUME NEW access \in {"none", "ACTIVE"}
      PROVE  [delivery[o] EXCEPT !.step = "ready", !.entitlement = access] \in DeliveryRow
  BY <1>1 DEF DeliveryRow
<1>4. ASSUME NEW l \in Lots
      PROVE  [delivery[o] EXCEPT !.entitlement = "ACTIVE", !.unlock = l] \in DeliveryRow
  BY <1>1 DEF DeliveryRow
<1>5. ASSUME NEW q \in Orders
      PROVE  [delivery[q] EXCEPT !.entitlement = "REVOKED"] \in DeliveryRow
  BY <1>1 DEF DeliveryRow
<1>6. \A l \in Lots : AccessRevoked(l) \in [Orders -> DeliveryRow]
  BY <1>1, <1>5 DEF AccessRevoked
<1> QED
  BY <1>1, <1>2, <1>3, <1>4, <1>6

\* The steps of orders keep the lots sound.
LEMMA CreditStepKeeps ==
  ASSUME IInv, Untouched, CreditSteps
  PROVE  IInv'
<1> USE CreditAssumption
<1>1. EventsKept
  BY UntouchedKeeps
<1>2. CreditTypeOK
  BY DEF IInv, TypeOK
<1>3. ASSUME LotsKept({}),
             account' \in [balance : Int, reserved : Nat],
             expired' \subseteq Lots,
             reservation' \in [Orders -> ReservationRow],
             delivery' \in [Orders -> DeliveryRow]
      PROVE  IInv'
  BY <1>1, <1>3, LotStep DEF LotsKept, EventsKept
<1>4. CASE GrantWelcome
  BY <1>2, <1>3, <1>4, GrantKeeps DEF GrantWelcome, CreditTypeOK, Lots
<1>5. CASE \E l \in Lots : Expire(l)
  BY <1>2, <1>3, <1>5, LotsSame DEF Expire, CreditTypeOK
<1>6. ASSUME NEW o \in Orders, OrderSteps(o)
      PROVE  IInv'
  <2>1. CASE Reserve(o)
    <3>1. PICK alloc \in [Lots -> 0..Price[o]] :
            reservation' = [reservation EXCEPT ![o].status = "RESERVED", ![o].alloc = alloc]
      BY <2>1 DEF Reserve
    <3>2. alloc \in [Lots -> Nat]
      BY <3>1
    <3>3. reservation' \in [Orders -> ReservationRow]
      BY <1>2, <3>1, <3>2, ReservationUpdates
    <3>4. account' \in [balance : Int, reserved : Nat]
      BY <1>2, <2>1 DEF Reserve, CreditTypeOK
    <3> QED
      BY <1>2, <1>3, <2>1, <3>3, <3>4, LotsSame DEF Reserve, CreditTypeOK
  <2>2. CASE Submit(o) \/ CheckFunding(o) \/ DeliveryLost(o)
    <3>1. PICK step \in {"submitting", "checked", "ready", "failed"} :
            delivery' = [delivery EXCEPT ![o].step = step]
      BY <2>2 DEF Submit, CheckFunding, DeliveryLost
    <3>2. delivery' \in [Orders -> DeliveryRow]
      <4>1. [delivery EXCEPT ![o].step = step] \in [Orders -> DeliveryRow]
        BY <1>2, DeliveryUpdates
      <4> QED
        BY <3>1, <4>1
    <3> QED
      BY <1>2, <1>3, <2>2, <3>2, LotsSame DEF Submit, CheckFunding, DeliveryLost, CreditTypeOK
  <2>3. CASE Release(o)
    <3>1. delivery' \in [Orders -> DeliveryRow] /\ reservation' \in [Orders -> ReservationRow]
      BY <1>2, <2>3, DeliveryUpdates, ReservationUpdates DEF Release
    <3>2. account' \in [balance : Int, reserved : Nat]
      BY <1>2, <2>3 DEF Release, CreditTypeOK
    <3> QED
      BY <1>2, <1>3, <2>3, <3>1, <3>2, LotsSame DEF Release, CreditTypeOK
  <2>4. CASE Capture(o)
    <3>1. LotsKept({}) /\ account' \in [balance : Int, reserved : Nat]
      BY <2>4, CaptureKeeps
    <3>2. reservation' \in [Orders -> ReservationRow]
      BY <1>2, <2>4, ReservationUpdates DEF Capture
    <3> QED
      BY <1>2, <1>3, <2>4, <3>1, <3>2 DEF Capture, CreditTypeOK
  <2>5. CASE RefundGeneration(o)
    <3>1. LotsKept({}) /\ account' \in [balance : Int, reserved : Nat]
      BY <2>5, GrantKeeps DEF RefundGeneration, Lots
    <3>2. delivery' \in [Orders -> DeliveryRow] /\ reservation' \in [Orders -> ReservationRow]
      BY <1>2, <2>5, DeliveryUpdates, ReservationUpdates DEF RefundGeneration
    <3> QED
      BY <1>2, <1>3, <2>5, <3>1, <3>2 DEF RefundGeneration, CreditTypeOK
  <2>6. CASE Deliver(o)
    <3>1. delivery' \in [Orders -> DeliveryRow]
      <4> DEFINE access == IF o \in TrialOrders THEN "none" ELSE "ACTIVE"
      <4>1. access \in {"none", "ACTIVE"}
        OBVIOUS
      <4>2. delivery' = [delivery EXCEPT ![o].step = "ready", ![o].entitlement = access]
        BY <2>6 DEF Deliver
      <4> HIDE DEF access
      <4> QED
        BY <1>2, <4>1, <4>2, DeliveryUpdates
    <3> QED
      BY <1>2, <1>3, <2>6, <3>1, LotsSame DEF Deliver, CreditTypeOK
  <2>7. CASE \E l \in Purchases : UnlockTrial(o, l)
    <3>1. PICK l \in Purchases : UnlockTrial(o, l)
      BY <2>7
    <3>2. l \in Lots
      BY DEF Lots
    <3>3. delivery' \in [Orders -> DeliveryRow]
      BY <1>2, <3>1, <3>2, DeliveryUpdates DEF UnlockTrial
    <3> QED
      BY <1>2, <1>3, <3>1, <3>3, LotsSame DEF UnlockTrial, CreditTypeOK
  <2> QED
    BY <1>6, <2>1, <2>2, <2>3, <2>4, <2>5, <2>6, <2>7 DEF OrderSteps
<1> QED
  BY <1>4, <1>5, <1>6 DEF CreditSteps

-----------------------------------------------------------------------------
(* Events *)

\* Facts and states of events, whatever a handler does to the lots.
LEMMA PurchaseUpdates ==
  ASSUME IInv, NEW e \in Events, NEW p \in Purchases
  PROVE  /\ WithRefundFact(e, p) \in [Purchases -> PurchaseRow]
         /\ \A state \in {"NONE", "OPEN", "WON", "LOST"} :
              WithDisputeFact(e, p, state) \in [Purchases -> PurchaseRow]
         /\ [purchase EXCEPT ![p].captured = TRUE] \in [Purchases -> PurchaseRow]
         /\ purchase[p].dispute \in {"NONE", "OPEN", "WON", "LOST"}
<1>1. purchase \in [Purchases -> PurchaseRow] /\ purchase[p] \in PurchaseRow
  BY DEF IInv, TypeOK
<1>2. Captured \in Nat /\ Fact[e].amount \in Nat
  BY EventAssumption DEF FactRow
<1> DEFINE total == purchase[p].refunded + Fact[e].amount
           refunded == IF total <= Captured THEN total ELSE purchase[p].refunded
<1>3. refunded \in 0..Captured
  BY <1>1, <1>2 DEF PurchaseRow
<1>4. ASSUME NEW n \in 0..Captured, NEW F \in SUBSET Events
      PROVE  [purchase[p] EXCEPT !.facts = F, !.refunded = n] \in PurchaseRow
  BY <1>1 DEF PurchaseRow
<1>5. purchase[p].facts \cup {e} \in SUBSET Events
  BY <1>1 DEF PurchaseRow
<1>6. WithRefundFact(e, p) =
        [purchase EXCEPT ![p] = [purchase[p] EXCEPT !.facts = purchase[p].facts \cup {e},
                                                    !.refunded = refunded]]
  BY <1>1 DEF WithRefundFact
<1>7. WithRefundFact(e, p) \in [Purchases -> PurchaseRow]
  <2> HIDE DEF refunded
  <2> QED
    BY <1>1, <1>3, <1>4, <1>5, <1>6
<1>8. ASSUME NEW state \in {"NONE", "OPEN", "WON", "LOST"}
      PROVE  WithDisputeFact(e, p, state) \in [Purchases -> PurchaseRow]
  <2>1. [purchase[p] EXCEPT !.facts = purchase[p].facts \cup {e}, !.dispute = state] \in PurchaseRow
    BY <1>1, <1>5 DEF PurchaseRow
  <2> QED
    BY <1>1, <2>1 DEF WithDisputeFact
<1>9. [purchase[p] EXCEPT !.captured = TRUE] \in PurchaseRow
  BY <1>1 DEF PurchaseRow
<1> QED
  BY <1>1, <1>7, <1>8, <1>9 DEF PurchaseRow

\* Opening a case only adds one, about the purchase it names.
LEMMA OpenCaseKeeps ==
  ASSUME IInv, NEW e \in Events, NEW key, NEW p \in Purchases \cup {NoPurchase},
         OpenCase(e, key, p)
  PROVE  /\ case \subseteq case'
         /\ \A c \in case' : c.event \in Events /\ c.purchase \in Purchases \cup {NoPurchase}
         /\ \E c \in case' : c.purchase = p
<1> DEFINE row == [key |-> key, event |-> e, purchase |-> p]
<1>1. case' = case \cup {row}
  BY DEF OpenCase
<1>2. row.event = e /\ row.purchase = p
  OBVIOUS
<1> HIDE DEF row
<1> QED
  BY <1>1, <1>2 DEF IInv, TypeOK

\* A handler changes lots soundly, and says which purchases it leaves frozen.
LEMMA HandlerStep ==
  ASSUME IInv, NEW e \in Events, NEW P, LotsKept(P),
         account' \in [balance : Int, reserved : Nat],
         UNCHANGED <<expired, reservation>>,
         delivery' \in [Orders -> DeliveryRow],
         purchase' \in [Purchases -> PurchaseRow],
         NEW state \in EventState, Mark(e, state),
         FirstDelivery(e) \/ LaterDelivery(e),
         case \subseteq case',
         \A c \in case' : c.event \in Events /\ c.purchase \in Purchases \cup {NoPurchase},
         \A p \in P : \E c \in case' : c.purchase = p
  PROVE  IInv'
<1>1. loaded' \subseteq Events
  BY DEF IInv, TypeOK, FirstDelivery, LaterDelivery
<1>2. event' \in [Events -> EventState]
  BY DEF IInv, TypeOK, Mark
<1>3. expired' \subseteq Lots /\ reservation' \in [Orders -> ReservationRow]
  BY DEF IInv, TypeOK, CreditTypeOK
<1> QED
  BY <1>1, <1>2, <1>3, LotStep DEF LotsKept

\* Applying a fact keeps the lots sound and leaves a case behind what it freezes.
LEMMA ApplyKeeps ==
  ASSUME IInv, NEW e \in Events, Apply(e)
  PROVE  IInv'
<1> DEFINE p == Fact[e].purchase
<1>1. p \in Purchases /\ p \in Lots /\ Credits[p] \in Nat
  BY CreditAssumption, EventAssumption DEF FactRow, Lots
<1>2. CreditTypeOK /\ (\A c \in case : c.event \in Events /\ c.purchase \in Purchases \cup {NoPurchase})
      /\ purchase \in [Purchases -> PurchaseRow]
  BY DEF IInv, TypeOK
<1>3. FirstDelivery(e) \/ LaterDelivery(e)
  BY DEF Apply
<1> HIDE DEF p
<1>4. ASSUME NEW q \in {p, NoPurchase}, NeedsReconciliation(e, q), UNCHANGED <<creditVars, purchase>>
      PROVE  IInv'
  <2>1. Mark(e, "RECONCILIATION_REQUIRED") /\ OpenCase(e, EventKey(e), q)
    BY <1>4 DEF NeedsReconciliation
  <2>2. LotsKept({})
    BY <1>4, LotsSame DEF creditVars
  <2>3. /\ case \subseteq case'
        /\ \A c \in case' : c.event \in Events /\ c.purchase \in Purchases \cup {NoPurchase}
    BY <1>1, <2>1, OpenCaseKeeps
  <2> QED
    BY <1>2, <1>3, <1>4, <2>1, <2>2, <2>3, HandlerStep DEF creditVars, CreditTypeOK, EventState
<1>5. ASSUME AlreadyRecorded(e)
      PROVE  IInv'
  <2>1. LotsKept({})
    BY <1>5, LotsSame DEF AlreadyRecorded, creditVars
  <2> QED
    BY <1>2, <1>3, <1>5, <2>1, HandlerStep DEF AlreadyRecorded, creditVars, CreditTypeOK, EventState
<1>6. ASSUME MayReverse(p), Reverse(p), Mark(e, "APPLIED"), UNCHANGED case,
             purchase' \in [Purchases -> PurchaseRow]
      PROVE  IInv'
  <2>1. LotsKept({}) /\ account' \in [balance : Int, reserved : Nat]
    BY <1>1, <1>6, ReverseKeeps
  <2>2. delivery' \in [Orders -> DeliveryRow]
    <3>1. delivery' = AccessRevoked(p)
      BY <1>6 DEF Reverse
    <3>2. ASSUME Orders = {}
          PROVE  AccessRevoked(p) \in [Orders -> DeliveryRow]
      BY <3>2 DEF AccessRevoked
    <3> QED
      BY <1>1, <1>2, <3>1, <3>2, DeliveryUpdates
  <2> QED
    BY <1>2, <1>3, <1>6, <2>1, <2>2, HandlerStep DEF Reverse, EventState
<1>7. ASSUME Freeze(p), NEW key, OpenCase(e, key, p), NEW state \in EventState, Mark(e, state),
             purchase' \in [Purchases -> PurchaseRow]
      PROVE  IInv'
  <2>1. LotsKept({p})
    BY <1>1, <1>7, FreezeKeeps
  <2>2. /\ case \subseteq case'
        /\ \A c \in case' : c.event \in Events /\ c.purchase \in Purchases \cup {NoPurchase}
        /\ \E c \in case' : c.purchase = p
    BY <1>1, <1>7, OpenCaseKeeps
  <2> QED
    BY <1>2, <1>3, <1>7, <2>1, <2>2, HandlerStep DEF Freeze, CreditTypeOK
<1>8. /\ WithRefundFact(e, p) \in [Purchases -> PurchaseRow]
      /\ \A state \in {"NONE", "OPEN", "WON", "LOST"} :
           WithDisputeFact(e, p, state) \in [Purchases -> PurchaseRow]
      /\ [purchase EXCEPT ![p].captured = TRUE] \in [Purchases -> PurchaseRow]
      /\ purchase[p].dispute \in {"NONE", "OPEN", "WON", "LOST"}
  BY <1>1, PurchaseUpdates
<1>9. CASE ApplyCapture(e, p)
  <2>1. CASE AlreadyRecorded(e)
    BY <1>5, <2>1
  <2>2. CASE /\ Grant(p, Credits[p])
             /\ purchase' = [purchase EXCEPT ![p].captured = TRUE]
             /\ Mark(e, "APPLIED")
             /\ UNCHANGED <<expired, reservation, delivery, case>>
    <3>1. LotsKept({}) /\ account' \in [balance : Int, reserved : Nat]
      BY <1>1, <2>2, GrantKeeps
    <3>2. delivery' \in [Orders -> DeliveryRow] /\ purchase' \in [Purchases -> PurchaseRow]
      BY <1>2, <1>8, <2>2 DEF CreditTypeOK
    <3>3. "APPLIED" \in EventState
      BY DEF EventState
    <3>4. case \subseteq case' /\ UNCHANGED <<expired, reservation>> /\ Mark(e, "APPLIED")
      BY <2>2
    <3>5. \A c \in case' : c.event \in Events /\ c.purchase \in Purchases \cup {NoPurchase}
      BY <1>2, <2>2
    <3> QED
      BY <1>3, <3>1, <3>2, <3>3, <3>4, <3>5, HandlerStep
  <2> QED
    BY <1>9, <2>1, <2>2 DEF ApplyCapture
<1>10. CASE RejectCapture(e, p) \/ CaptureNotFound(e, p)
  BY <1>4, <1>10 DEF RejectCapture, CaptureNotFound
<1>11. CASE ApplyRefund(e, p)
  <2>1. CASE AlreadyRecorded(e)
    BY <1>5, <2>1
  <2>2. CASE ApplyFullRefund(e, p)
    BY <1>4, <1>6, <1>8, <2>2 DEF ApplyFullRefund
  <2>3. CASE ApplyOtherRefund(e, p)
    BY <1>7, <1>8, <2>3 DEF ApplyOtherRefund, EventState
  <2> QED
    BY <1>11, <2>1, <2>2, <2>3 DEF ApplyRefund
<1>12. CASE ApplyDispute(e, p)
  <2>1. CASE AlreadyRecorded(e)
    BY <1>5, <2>1
  <2>2. ASSUME NEW tag, NEW dispute \in {"NONE", "OPEN", "WON", "LOST"},
               NEW state \in EventState, HoldForDispute(e, p, tag, dispute, state)
        PROVE  IInv'
    BY <1>7, <1>8, <2>2 DEF HoldForDispute
  <2>3. CASE ReviewDispute(e, p)
    <3>1. HoldForDispute(e, p, Fact[e].kind, purchase[p].dispute, "RECONCILIATION_REQUIRED")
      BY <2>3 DEF ReviewDispute
    <3>2. "RECONCILIATION_REQUIRED" \in EventState
      BY DEF EventState
    <3> QED
      BY <1>8, <2>2, <3>1, <3>2
  <2>4. CASE OpenDispute(e, p)
    BY <2>2, <2>4 DEF OpenDispute, EventState
  <2>5. CASE WinDispute(e, p)
    <3>1. LotsKept({})
      <4>1. LotsKept({p}) /\ lot'[p].frozen = 0
        BY <1>1, <1>2, <2>5, FreezeKeeps DEF WinDispute, Unfreeze, CreditTypeOK, LotRow
      <4> QED
        BY <4>1 DEF LotsKept
    <3> QED
      BY <1>2, <1>3, <1>8, <2>5, <3>1, HandlerStep DEF WinDispute, Unfreeze, CreditTypeOK, EventState
  <2>6. CASE LoseDispute(e, p)
    BY <1>4, <1>6, <1>8, <2>2, <2>6 DEF LoseDispute, EventState
  <2> QED
    BY <1>12, <2>1, <2>3, <2>4, <2>5, <2>6 DEF ApplyDispute
<1> QED
  BY <1>9, <1>10, <1>11, <1>12 DEF Apply, p

-----------------------------------------------------------------------------

\* The inductive invariant about lots holds in every behaviour.
LEMMA Inductive == Spec => []IInv
<1>1. Init => IInv
  <2> SUFFICES ASSUME Init
               PROVE  IInv
    OBVIOUS
  <2>1. LotOf(0, 0) \in LotRow /\ Sound(LotOf(0, 0)) /\ LotOf(0, 0).frozen = 0
    BY DEF LotOf, LotRow, Sound
  <2>2. CreditTypeOK
    BY <2>1, CreditAssumption DEF Init, CreditInit, CreditTypeOK, NoCredits, ReservationRow, DeliveryRow, Lots
  <2>3. NoLotOverdrawn /\ FrozenOnlyUnderReview
    BY <2>1 DEF Init, CreditInit, NoLotOverdrawn, FrozenOnlyUnderReview, Sound, Lots
  <2>4. TypeOK
    BY <2>2, EventAssumption DEF Init, TypeOK, PurchaseRow, EventState
  <2> QED
    BY <2>2, <2>3, <2>4 DEF IInv
<1>2. IInv /\ [Next]_vars => IInv'
  <2> SUFFICES ASSUME IInv, [Next]_vars
               PROVE  IInv'
    OBVIOUS
  <2>1. CASE CreditSteps /\ Untouched
    BY <2>1, CreditStepKeeps
  <2>2. ASSUME NEW e \in Events, Ingest(e)
        PROVE  IInv'
    <3>1. EventsKept
      BY <2>2 DEF IInv, TypeOK, EventsKept, Ingest, EventState
    <3>2. LotsKept({})
      BY <2>2, LotsSame DEF Ingest, creditVars
    <3> QED
      BY <2>2, <3>1, <3>2, LotStep
         DEF Ingest, creditVars, EventsKept, LotsKept, IInv, TypeOK, CreditTypeOK
  <2>3. ASSUME NEW e \in Events, Apply(e)
        PROVE  IInv'
    BY <2>3, ApplyKeeps
  <2>4. CASE UNCHANGED vars
    BY <2>4 DEF vars, creditVars, IInv, TypeOK, CreditTypeOK, NoLotOverdrawn, FrozenOnlyUnderReview
  <2> QED
    BY <2>1, <2>2, <2>3, <2>4 DEF Next, EventSteps
<1> QED
  BY <1>1, <1>2, PTL DEF Spec

\* The columns of the account, the lots, the orders and the payments keep their
\* types, and refunds never add up beyond what was captured (_apply_refund).
THEOREM TypeCorrect == Spec => []TypeOK
<1>1. IInv => TypeOK
  BY DEF IInv
<1> QED
  BY <1>1, Inductive, PTL

\* Whatever the events and the orders do in whatever order, no lot is spent, taken
\* back or frozen beyond its grant (capture_reservation, reverse_root_grant).
THEOREM LotsNeverOverdrawn == Spec => []NoLotOverdrawn
<1>1. IInv => NoLotOverdrawn
  BY DEF IInv
<1> QED
  BY <1>1, Inductive, PTL

\* Credits that are frozen are named by an open case (freeze_purchase_and_open_case).
THEOREM FrozenIsUnderReview == Spec => []FrozenOnlyUnderReview
<1>1. IInv => FrozenOnlyUnderReview
  BY DEF IInv
<1> QED
  BY <1>1, Inductive, PTL

-----------------------------------------------------------------------------
(* What a reservation takes from the lots *)

\* There are finitely many lots and orders, so that they can be added up.
LEMMA LotsFinite ==
  IsFiniteSet(Lots) /\ IsFiniteSet(Orders) /\ \A T : T \subseteq Orders => IsFiniteSet(T)
<1>1. IsFiniteSet({Welcome}) /\ IsFiniteSet(Purchases) /\ IsFiniteSet(Orders)
  BY CreditAssumption, FS_Singleton
<1>2. IsFiniteSet({Welcome} \cup Purchases)
  BY <1>1, FS_Union
<1>3. IsFiniteSet(Lots)
  BY <1>1, <1>2, FS_Union DEF Lots
<1> QED
  BY <1>1, <1>3, FS_Subset

\* If the lots have enough, the lots that expire first give the amount together, no lot
\* more than it has (build_fefo_allocations).
LEMMA FefoGivesAmount ==
  ASSUME NEW available \in [Lots -> Nat], NEW amount \in Nat,
         SumFunctionOnSet(available, Lots) >= amount
  PROVE  /\ FefoAllocation(amount, available) \in [Lots -> Nat]
         /\ \A l \in Lots : FefoAllocation(amount, available)[l] <= available[l]
         /\ SumFunctionOnSet(FefoAllocation(amount, available), Lots) = amount
<1> DEFINE Sooner(n) == {m \in Lots : ExpiryRank[m] < n}
           Has(T) == SumFunctionOnSet(available, T)
           alloc == FefoAllocation(amount, available)
           Gives(T) == SumFunctionOnSet(alloc, T)
           G == {n \in Nat : Gives(Sooner(n)) = Least(amount, Has(Sooner(n)))}
<1>1. \A T \in SUBSET Lots : IsFiniteSet(T) /\ Has(T) \in Nat
  <2> TAKE T \in SUBSET Lots
  <2>1. IsFiniteSet(T)
    BY LotsFinite, FS_Subset
  <2> QED
    BY <2>1, SumType
<1>2. \A l \in Lots : ExpiryRank[l] \in Nat
  BY CreditAssumption
<1>3. \A l \in Lots : alloc[l] = Least(available[l], AtLeastZero(amount - Has(Sooner(ExpiryRank[l]))))
  BY DEF FefoAllocation
<1>4. \A l \in Lots : alloc[l] \in Nat /\ alloc[l] <= available[l]
  <2> TAKE l \in Lots
  <2> DEFINE left == amount - Has(Sooner(ExpiryRank[l]))
  <2>1. Sooner(ExpiryRank[l]) \in SUBSET Lots
    OBVIOUS
  <2>2. left \in Int /\ available[l] \in Nat /\ alloc[l] = Least(available[l], AtLeastZero(left))
    BY <1>1, <1>3, <2>1
  <2> HIDE DEF left, alloc
  <2> QED
    BY <2>2 DEF Least, AtLeastZero
<1>5. alloc \in [Lots -> Nat]
  <2>1. alloc = [l \in Lots |-> alloc[l]]
    BY DEF FefoAllocation
  <2> HIDE DEF alloc
  <2> QED
    BY <1>4, <2>1
<1> HIDE DEF alloc
<1>6. 0 \in G
  <2>1. Sooner(0) = {}
    BY <1>2
  <2>2. Gives({}) = 0 /\ Has({}) = 0
    BY SumEmpty
  <2> QED
    BY <2>1, <2>2 DEF Least
<1>7. ASSUME NEW n \in Nat, n \in G PROVE n + 1 \in G
  <2>1. CASE \A l \in Lots : ExpiryRank[l] # n
    <3>1. Sooner(n + 1) = Sooner(n)
      BY <1>2, <2>1
    <3> QED
      BY <1>7, <3>1
  <2>2. ASSUME NEW l \in Lots, ExpiryRank[l] = n PROVE n + 1 \in G
    <3> DEFINE T == Sooner(n)
    <3>1. T \in SUBSET Lots /\ l \notin T
      BY <1>2, <2>2
    <3>2. Sooner(n + 1) = T \cup {l}
      <4>1. \A m \in Lots : ExpiryRank[m] < n + 1 <=> ExpiryRank[m] < n \/ m = l
        <5> TAKE m \in Lots
        <5>1. ExpiryRank[m] < n + 1 <=> ExpiryRank[m] < n \/ ExpiryRank[m] = n
          BY <1>2
        <5>2. ExpiryRank[m] = n <=> m = l
          BY <2>2, RankAssumption
        <5> QED
          BY <5>1, <5>2
      <4> QED
        BY <4>1
    <3>3. alloc[l] = Least(available[l], AtLeastZero(amount - Has(T)))
      BY <1>3, <2>2
    <3> HIDE DEF T
    <3>4. Gives(T) = Least(amount, Has(T))
      BY <1>7 DEF T
    <3>5. IsFiniteSet(T) /\ Has(T) \in Nat /\ available[l] \in Nat /\ alloc[l] \in Nat
      BY <1>1, <1>4, <3>1
    <3>6. Has(T \cup {l}) = Has(T) + available[l]
      BY <3>1, <3>5, SumInsert
    <3>7. Gives(T \cup {l}) = Gives(T) + alloc[l]
      BY <1>4, <3>1, <3>5, SumInsert
    <3>8. Gives(T \cup {l}) = Least(amount, Has(T \cup {l}))
      <4> HIDE DEF Gives, Has
      <4> QED
        BY <3>3, <3>4, <3>5, <3>6, <3>7 DEF Least, AtLeastZero
    <3> QED
      BY <3>2, <3>8
  <2> QED
    BY <2>1, <2>2
<1>8. Nat \subseteq G
  <2> HIDE DEF G
  <2> QED
    BY <1>6, <1>7, NatGood
<1> DEFINE last == SumFunctionOnSet(ExpiryRank, Lots) + 1
<1>9. last \in Nat /\ Sooner(last) = Lots
  <2>1. SumFunctionOnSet(ExpiryRank, Lots) \in Nat
    BY <1>2, LotsFinite, SumType
  <2>2. \A l \in Lots : ExpiryRank[l] <= SumFunctionOnSet(ExpiryRank, Lots)
    BY <1>2, LotsFinite, SumMember
  <2> QED
    BY <1>2, <2>1, <2>2
<1> HIDE DEF last
<1>10. last \in G
  BY <1>8, <1>9
<1>11. Gives(Lots) = Least(amount, Has(Lots))
  BY <1>9, <1>10
<1>12. Has(Lots) \in Nat /\ Has(Lots) >= amount
  BY <1>1
<1>13. Gives(Lots) = amount
  <2> HIDE DEF Gives, Has
  <2> QED
    BY <1>11, <1>12 DEF Least
<1> QED
  BY <1>4, <1>5, <1>13 DEF alloc

-----------------------------------------------------------------------------
(* The ledger *)

\* What is left of a grant, by the account and by the lot.
NetOf == [l \in Lots |-> lot[l].original - lot[l].reversed - lot[l].consumed]
LeftOf == [l \in Lots |-> AtLeastZero(lot[l].original - lot[l].offset - lot[l].reversed
                                      - lot[l].consumed)]

TakenFrom(l) == [o \in Orders |-> reservation[o].alloc[l]]

Spending == {o \in Orders : reservation[o].status = "CAPTURED"}

Balanced == account.balance = SumFunctionOnSet(NetOf, Lots)
ReservedIsHeld == account.reserved = SumFunctionOnSet(Price, Holding)
ConsumedIsSpent == \A l \in Lots : lot[l].consumed = SumFunctionOnSet(TakenFrom(l), Spending)
BalanceIsThere == account.balance <= SumFunctionOnSet(LeftOf, Lots)

\* The lots give an order its whole price, whatever it holds or has spent.
AllocationsAddUp ==
  \A o \in Orders : reservation[o].status \in {"RESERVED", "CAPTURED"} =>
    SumFunctionOnSet(reservation[o].alloc, Lots) = Price[o]

\* A lot is granted once: what would grant it again knows that it was.
GrantedOnce ==
  /\ \A p \in Purchases : Granted(p) => purchase[p].captured
  /\ \A o \in Orders : Granted(o) => reservation[o].refunded

LedgerInv ==
  /\ Balanced /\ ReservedIsHeld /\ ConsumedIsSpent /\ BalanceIsThere
  /\ HeldCreditsBacked /\ AllocationsAddUp /\ GrantedOnce

\* The columns of a lot are numbers.
LEMMA Columns ==
  ASSUME NEW r \in LotRow
  PROVE  /\ r.original \in Nat /\ r.offset \in Nat /\ r.reversed \in Nat
         /\ r.frozen \in Nat /\ r.consumed \in Nat
BY DEF LotRow

\* The rows hold numbers, and so do their sums.
LEMMA LedgerNumbers ==
  ASSUME lot \in [Lots -> LotRow], reservation \in [Orders -> ReservationRow]
  PROVE  /\ \A l \in Lots : NetOf[l] \in Int /\ LeftOf[l] \in Nat
         /\ \A l \in Lots, o \in Orders : TakenFrom(l)[o] \in Nat /\ reservation[o].alloc[l] \in Nat
         /\ \A o \in Orders : reservation[o].alloc \in [Lots -> Nat]
         /\ SumFunctionOnSet(NetOf, Lots) \in Int /\ SumFunctionOnSet(LeftOf, Lots) \in Nat
         /\ \A l \in Lots : Held(l) = SumFunctionOnSet(TakenFrom(l), Holding) /\ Held(l) \in Nat
         /\ SumFunctionOnSet(Price, Holding) \in Nat
         /\ SumFunctionOnSet(Price, Spending) \in Nat
         /\ \A o \in Orders : Price[o] \in Nat /\ Price[o] > 0
<1>1. \A l \in Lots : NetOf[l] \in Int /\ LeftOf[l] \in Nat
  <2> TAKE l \in Lots
  <2>1. lot[l] \in LotRow
    OBVIOUS
  <2>2. lot[l].original - lot[l].offset - lot[l].reversed - lot[l].consumed \in Int
    BY <2>1, Columns
  <2>3. NetOf[l] \in Int
    BY <2>1, Columns DEF NetOf
  <2>4. LeftOf[l] \in Nat
    BY <2>2 DEF LeftOf, AtLeastZero
  <2> QED
    BY <2>3, <2>4
<1>2. /\ \A o \in Orders : reservation[o].alloc \in [Lots -> Nat]
      /\ \A l \in Lots, o \in Orders : TakenFrom(l)[o] \in Nat /\ reservation[o].alloc[l] \in Nat
  BY DEF ReservationRow, TakenFrom
<1>3. SumFunctionOnSet(NetOf, Lots) \in Int /\ SumFunctionOnSet(LeftOf, Lots) \in Nat
  <2>1. \A l \in Lots : LeftOf[l] \in Int /\ LeftOf[l] >= 0
    BY <1>1
  <2> QED
    BY <1>1, <2>1, LotsFinite, SumType
<1>4. Holding \subseteq Orders /\ Spending \subseteq Orders
  BY DEF Holding, Spending
<1>5. \A o \in Orders : Price[o] \in Nat /\ Price[o] > 0
  BY CreditAssumption
<1>6. \A l \in Lots : Held(l) = SumFunctionOnSet(TakenFrom(l), Holding)
  BY DEF Held, TakenFrom
<1>7. \A l \in Lots : SumFunctionOnSet(TakenFrom(l), Holding) \in Nat
  <2> TAKE l \in Lots
  <2>1. \A o \in Holding : TakenFrom(l)[o] \in Int /\ TakenFrom(l)[o] >= 0
    BY <1>2, <1>4
  <2> QED
    BY <1>4, <2>1, LotsFinite, SumType
<1>8. SumFunctionOnSet(Price, Holding) \in Nat /\ SumFunctionOnSet(Price, Spending) \in Nat
  <2>1. /\ \A o \in Holding : Price[o] \in Int /\ Price[o] >= 0
        /\ \A o \in Spending : Price[o] \in Int /\ Price[o] >= 0
    BY <1>4, <1>5
  <2> QED
    BY <1>4, <2>1, LotsFinite, SumType
<1> QED
  BY <1>1, <1>2, <1>3, <1>5, <1>6, <1>7, <1>8

\* The parts of the ledger, as the properties name them.
LEMMA LedgerShape == LedgerInv => LedgerAgrees /\ HeldCreditsBacked /\ NothingStranded
<1> SUFFICES ASSUME LedgerInv PROVE LedgerAgrees /\ NothingStranded
  BY DEF LedgerInv
<1>1. account.balance = SumFunction([l \in Lots |-> lot[l].original - lot[l].reversed - lot[l].consumed])
  BY DEF LedgerInv, Balanced, NetOf, SumFunction
<1>2. account.balance <=
        SumFunction([l \in Lots |-> AtLeastZero(lot[l].original - lot[l].offset - lot[l].reversed
                                             - lot[l].consumed)])
  BY DEF LedgerInv, BalanceIsThere, LeftOf, SumFunction
<1>3. \A l \in Lots :
        lot[l].consumed = SumFunctionOnSet([o \in Orders |-> reservation[o].alloc[l]],
                            {o \in Orders : reservation[o].status = "CAPTURED"})
  BY DEF LedgerInv, ConsumedIsSpent, TakenFrom, Spending
<1> QED
  BY <1>1, <1>2, <1>3 DEF LedgerInv, ReservedIsHeld, LedgerAgrees, NothingStranded

\* At first every sum is zero.
LEMMA InitLedger == Init => LedgerInv
<1> SUFFICES ASSUME Init PROVE LedgerInv
  OBVIOUS
<1>1. /\ account.balance = 0 /\ account.reserved = 0
      /\ \A l \in Lots : lot[l] = LotOf(0, 0)
      /\ \A o \in Orders : reservation[o].status = "none"
  BY DEF Init, CreditInit
<1>2. /\ LotOf(0, 0).original = 0 /\ LotOf(0, 0).offset = 0 /\ LotOf(0, 0).reversed = 0
      /\ LotOf(0, 0).consumed = 0
  BY DEF LotOf
<1>3. Holding = {} /\ Spending = {}
  BY <1>1 DEF Holding, Spending
<1>4. \A l \in Lots : NetOf[l] = 0 /\ LeftOf[l] = 0
  BY <1>1, <1>2 DEF NetOf, LeftOf, AtLeastZero
<1>5. SumFunctionOnSet(NetOf, Lots) = 0 /\ SumFunctionOnSet(LeftOf, Lots) = 0
  BY <1>4, LotsFinite, SumSubset, SumEmpty
<1>6. Balanced /\ ReservedIsHeld /\ ConsumedIsSpent /\ BalanceIsThere
  BY <1>1, <1>2, <1>3, <1>5, SumEmpty DEF Balanced, ReservedIsHeld, ConsumedIsSpent, BalanceIsThere
<1>7. HeldCreditsBacked
  BY <1>3, SumEmpty DEF HeldCreditsBacked, Held
<1>8. AllocationsAddUp /\ GrantedOnce
  BY <1>1, <1>2 DEF AllocationsAddUp, GrantedOnce, Granted, Lots
<1> QED
  BY <1>6, <1>7, <1>8 DEF LedgerInv

\* The columns that a step of the ledger leaves as they are.
HoldsKept ==
  \A o \in Orders : /\ reservation'[o].status = reservation[o].status
                    /\ reservation'[o].alloc = reservation[o].alloc

GrantsRemembered ==
  /\ \A p \in Purchases : purchase[p].captured => purchase'[p].captured
  /\ \A o \in Orders : reservation[o].refunded => reservation'[o].refunded

\* Reservations that are left alone hold what they held.
LEMMA HoldsSame ==
  ASSUME HoldsKept
  PROVE  /\ Holding' = Holding /\ Spending' = Spending
         /\ \A l \in Lots : TakenFrom(l)' = TakenFrom(l)
         /\ \A l \in Lots : Held(l)' = Held(l)
         /\ AllocationsAddUp => AllocationsAddUp'
<1>1. Holding' = Holding /\ Spending' = Spending
  BY DEF HoldsKept, Holding, Spending
<1>2. \A l \in Lots : [o \in Orders |-> reservation'[o].alloc[l]] = [o \in Orders |-> reservation[o].alloc[l]]
  BY DEF HoldsKept
<1>3. \A l \in Lots : TakenFrom(l)' = TakenFrom(l)
  BY <1>2 DEF TakenFrom
<1>4. \A l \in Lots : Held(l)' = Held(l)
  BY <1>1, <1>2 DEF Held
<1>5. AllocationsAddUp => AllocationsAddUp'
  BY DEF AllocationsAddUp, HoldsKept
<1> QED
  BY <1>1, <1>3, <1>4, <1>5

\* Only what is frozen of the lots changes, or nothing.
LEMMA LotsAlike ==
  ASSUME IInv, LedgerInv, HoldsKept, GrantsRemembered, UNCHANGED account,
         \A l \in Lots : /\ lot'[l].original = lot[l].original /\ lot'[l].offset = lot[l].offset
                         /\ lot'[l].reversed = lot[l].reversed /\ lot'[l].consumed = lot[l].consumed
  PROVE  LedgerInv'
<1>1. NetOf' = NetOf /\ LeftOf' = LeftOf
  BY DEF NetOf, LeftOf
<1>2. Balanced' /\ ReservedIsHeld' /\ BalanceIsThere'
  BY <1>1, HoldsSame DEF LedgerInv, Balanced, ReservedIsHeld, BalanceIsThere
<1>3. ConsumedIsSpent'
  BY HoldsSame DEF LedgerInv, ConsumedIsSpent
<1>4. HeldCreditsBacked'
  BY HoldsSame DEF LedgerInv, HeldCreditsBacked
<1>5. AllocationsAddUp'
  BY HoldsSame DEF LedgerInv
<1>6. GrantedOnce'
  BY DEF LedgerInv, GrantedOnce, Granted, GrantsRemembered, Lots
<1> QED
  BY <1>2, <1>3, <1>4, <1>5, <1>6 DEF LedgerInv

\* A lot that was never granted is granted.
LEMMA GrantLedger ==
  ASSUME IInv, LedgerInv, NEW l \in Lots, NEW amount \in Nat, Grant(l, amount), ~Granted(l),
         HoldsKept, GrantedOnce'
  PROVE  LedgerInv'
<1> DEFINE offset == Least(amount, AtLeastZero(-account.balance))
           r == NewLot(amount)
<1>1. lot \in [Lots -> LotRow] /\ reservation \in [Orders -> ReservationRow] /\ account.balance \in Int
  BY DEF IInv, TypeOK, CreditTypeOK
<1>2. /\ lot[l].original = 0 /\ lot[l].offset = 0 /\ lot[l].reversed = 0 /\ lot[l].consumed = 0
  BY <1>1, RowsSound, Columns DEF Granted, Sound
<1>3. offset \in Nat /\ offset <= amount /\ (account.balance + offset <= 0 \/ offset = 0)
  BY <1>1 DEF Least, AtLeastZero
<1>4. /\ r.original = amount /\ r.offset = offset /\ r.reversed = 0 /\ r.consumed = 0
  BY DEF NewLot, LotOf
<1>5. /\ lot'[l] = r /\ \A m \in Lots : m # l => lot'[m] = lot[m]
      /\ account'.balance = account.balance + amount /\ account'.reserved = account.reserved
  <2>1. account \in [balance : Int, reserved : Nat]
    BY DEF IInv, TypeOK, CreditTypeOK
  <2> QED
    BY <1>1, <2>1 DEF Grant
<1> HIDE DEF r, offset
<1>6. NetOf[l] = 0 /\ NetOf'[l] = amount /\ \A m \in Lots : m # l => NetOf'[m] = NetOf[m]
  BY <1>2, <1>4, <1>5 DEF NetOf
<1>7. LeftOf[l] = 0 /\ LeftOf'[l] = amount - offset /\ \A m \in Lots : m # l => LeftOf'[m] = LeftOf[m]
  BY <1>2, <1>3, <1>4, <1>5 DEF LeftOf, AtLeastZero
<1>8. SumFunctionOnSet(NetOf', Lots) = SumFunctionOnSet(NetOf, Lots) + amount
  <2>1. SumFunctionOnSet(NetOf', Lots) = SumFunctionOnSet(NetOf, Lots) - NetOf[l] + NetOf'[l]
    BY <1>1, <1>6, LotsFinite, LedgerNumbers, SumChange
  <2> QED
    BY <1>1, <1>6, <2>1, LedgerNumbers
<1>9. SumFunctionOnSet(LeftOf', Lots) = SumFunctionOnSet(LeftOf, Lots) + amount - offset
  <2>1. LeftOf'[l] \in Int
    BY <1>3, <1>7
  <2>2. SumFunctionOnSet(LeftOf', Lots) = SumFunctionOnSet(LeftOf, Lots) - LeftOf[l] + LeftOf'[l]
    BY <1>1, <1>7, <2>1, LotsFinite, LedgerNumbers, SumChange
  <2> QED
    BY <1>1, <1>3, <1>7, <2>2, LedgerNumbers
<1>10. Balanced'
  BY <1>5, <1>8 DEF LedgerInv, Balanced
<1>11. BalanceIsThere'
  <2> DEFINE left == SumFunctionOnSet(LeftOf, Lots)
  <2>1. left \in Nat /\ account.balance <= left
    BY <1>1, LedgerNumbers DEF LedgerInv, BalanceIsThere
  <2> HIDE DEF left
  <2>2. account.balance + amount <= left + amount - offset
    BY <1>1, <1>3, <2>1
  <2> QED
    BY <1>5, <1>9, <2>2 DEF BalanceIsThere, left
<1>12. ReservedIsHeld'
  BY <1>5, HoldsSame DEF LedgerInv, ReservedIsHeld
<1>13. ConsumedIsSpent'
  <2>1. \A m \in Lots : lot'[m].consumed = lot[m].consumed
    BY <1>2, <1>4, <1>5
  <2> QED
    BY <2>1, HoldsSame DEF LedgerInv, ConsumedIsSpent
<1>14. HeldCreditsBacked'
  <2> SUFFICES ASSUME NEW m \in Lots, Held(m)' > 0
               PROVE  Held(m)' + lot'[m].offset + lot'[m].reversed + lot'[m].consumed <= lot'[m].original
    BY DEF HeldCreditsBacked
  <2>1. Held(m)' = Held(m) /\ Held(m) \in Nat
    BY <1>1, HoldsSame, LedgerNumbers
  <2>2. Held(m) + lot[m].offset + lot[m].reversed + lot[m].consumed <= lot[m].original
    BY <2>1 DEF LedgerInv, HeldCreditsBacked
  <2>3. m # l
    BY <1>2, <2>1, <2>2
  <2> QED
    BY <1>5, <2>1, <2>2, <2>3
<1>15. AllocationsAddUp'
  BY HoldsSame DEF LedgerInv
<1> QED
  BY <1>10, <1>11, <1>12, <1>13, <1>14, <1>15 DEF LedgerInv

\* A purchase is taken back that no order holds credits of.
LEMMA ReverseLedger ==
  ASSUME IInv, LedgerInv, NEW p \in Purchases, MayReverse(p), Reverse(p), GrantsRemembered
  PROVE  LedgerInv'
<1> DEFINE n == Credits[p]
<1>1. lot \in [Lots -> LotRow] /\ reservation \in [Orders -> ReservationRow] /\ account.balance \in Int
  BY DEF IInv, TypeOK, CreditTypeOK
<1>2. n \in Nat /\ p \in Lots
  BY CreditAssumption DEF Lots
<1>3. /\ lot'[p].original = lot[p].original /\ lot'[p].offset = lot[p].offset
      /\ lot'[p].reversed = lot[p].reversed + n /\ lot'[p].consumed = lot[p].consumed
      /\ \A m \in Lots : m # p => lot'[m] = lot[m]
  BY <1>1, <1>2 DEF Reverse, LotRow
<1>4. account'.balance = account.balance - n /\ account'.reserved = account.reserved
  <2>1. account \in [balance : Int, reserved : Nat]
    BY DEF IInv, TypeOK, CreditTypeOK
  <2> QED
    BY <2>1 DEF Reverse
<1>5. HoldsKept
  BY DEF HoldsKept, Reverse
<1> HIDE DEF n
<1>6. lot[p].original \in Nat /\ lot[p].offset \in Nat /\ lot[p].reversed \in Nat /\ lot[p].consumed \in Nat
  BY <1>1, <1>2, Columns
<1>7. NetOf'[p] = NetOf[p] - n /\ NetOf'[p] \in Int /\ \A m \in Lots : m # p => NetOf'[m] = NetOf[m]
  BY <1>2, <1>3, <1>6 DEF NetOf
<1>8. /\ LeftOf'[p] >= LeftOf[p] - n /\ LeftOf'[p] \in Int
      /\ \A m \in Lots : m # p => LeftOf'[m] = LeftOf[m]
  <2>1. LeftOf'[p] = AtLeastZero(lot[p].original - lot[p].offset - (lot[p].reversed + n) - lot[p].consumed)
    BY <1>2, <1>3 DEF LeftOf
  <2>2. LeftOf[p] = AtLeastZero(lot[p].original - lot[p].offset - lot[p].reversed - lot[p].consumed)
    BY <1>2 DEF LeftOf
  <2>3. LeftOf'[p] >= LeftOf[p] - n /\ LeftOf'[p] \in Int
    BY <1>2, <1>6, <2>1, <2>2 DEF AtLeastZero
  <2>4. \A m \in Lots : m # p => LeftOf'[m] = LeftOf[m]
    BY <1>3 DEF LeftOf
  <2> QED
    BY <2>3, <2>4
<1>9. SumFunctionOnSet(NetOf', Lots) = SumFunctionOnSet(NetOf, Lots) - n
  <2>1. SumFunctionOnSet(NetOf', Lots) = SumFunctionOnSet(NetOf, Lots) - NetOf[p] + NetOf'[p]
    BY <1>1, <1>2, <1>7, LotsFinite, LedgerNumbers, SumChange
  <2> QED
    BY <1>1, <1>2, <1>7, <2>1, LedgerNumbers
<1>10. SumFunctionOnSet(LeftOf', Lots) >= SumFunctionOnSet(LeftOf, Lots) - n
  <2>1. SumFunctionOnSet(LeftOf', Lots) = SumFunctionOnSet(LeftOf, Lots) - LeftOf[p] + LeftOf'[p]
    BY <1>1, <1>2, <1>8, LotsFinite, LedgerNumbers, SumChange
  <2> QED
    BY <1>1, <1>2, <1>8, <2>1, LedgerNumbers
<1>11. Balanced'
  BY <1>4, <1>9 DEF LedgerInv, Balanced
<1>12. BalanceIsThere'
  <2> DEFINE left == SumFunctionOnSet(LeftOf, Lots)
             after == SumFunctionOnSet(LeftOf', Lots)
  <2>1. left \in Nat /\ account.balance <= left
    BY <1>1, LedgerNumbers DEF LedgerInv, BalanceIsThere
  <2>2. after \in Int
    <3>1. \A m \in Lots : LeftOf'[m] \in Int
      BY <1>1, <1>8, LedgerNumbers
    <3> QED
      BY <3>1, LotsFinite, SumType
  <2>3. after >= left - n
    BY <1>10
  <2> HIDE DEF left, after
  <2>4. account.balance - n <= after
    BY <1>1, <1>2, <2>1, <2>2, <2>3
  <2> QED
    BY <1>4, <2>4 DEF BalanceIsThere, after
<1>13. ReservedIsHeld'
  BY <1>4, <1>5, HoldsSame DEF LedgerInv, ReservedIsHeld
<1>14. ConsumedIsSpent'
  <2>1. \A m \in Lots : lot'[m].consumed = lot[m].consumed
    BY <1>3
  <2> QED
    BY <1>5, <2>1, HoldsSame DEF LedgerInv, ConsumedIsSpent
<1>15. HeldCreditsBacked'
  <2> SUFFICES ASSUME NEW m \in Lots, Held(m)' > 0
               PROVE  Held(m)' + lot'[m].offset + lot'[m].reversed + lot'[m].consumed <= lot'[m].original
    BY DEF HeldCreditsBacked
  <2>1. Held(m)' = Held(m)
    BY <1>5, HoldsSame
  <2>2. Held(m) + lot[m].offset + lot[m].reversed + lot[m].consumed <= lot[m].original
    BY <2>1 DEF LedgerInv, HeldCreditsBacked
  <2>3. Held(p) = 0
    <3>1. \A o \in Holding : TakenFrom(p)[o] \in Nat /\ TakenFrom(p)[o] = 0
      BY <1>1, <1>2, LedgerNumbers DEF Holding, TakenFrom, MayReverse
    <3>2. IsFiniteSet(Holding) /\ {} \in SUBSET Holding
      BY LotsFinite DEF Holding
    <3>3. SumFunctionOnSet(TakenFrom(p), {}) = SumFunctionOnSet(TakenFrom(p), Holding)
      BY <3>1, <3>2, SumSubset
    <3> QED
      BY <1>1, <1>2, <3>3, SumEmpty, LedgerNumbers
  <2>4. m # p
    BY <2>1, <2>3
  <2> QED
    BY <1>3, <2>1, <2>2, <2>4
<1>16. AllocationsAddUp'
  BY <1>5, HoldsSame DEF LedgerInv
<1>17. GrantedOnce'
  BY <1>2, <1>3 DEF LedgerInv, GrantedOnce, Granted, GrantsRemembered, Lots
<1> QED
  BY <1>11, <1>12, <1>13, <1>14, <1>15, <1>16, <1>17 DEF LedgerInv

\* Nothing but the reservation of o changes.
ChangesOnly(o) ==
  /\ reservation' \in [Orders -> ReservationRow]
  /\ \A q \in Orders : q # o => reservation'[q] = reservation[q]

Without(o) == {T \in SUBSET Orders : o \notin T}

\* The sums over the orders when one reservation changes.
LEMMA TakenSums ==
  ASSUME IInv, NEW o \in Orders, ChangesOnly(o), NEW l \in Lots, NEW T \in Without(o)
  PROVE  /\ SumFunctionOnSet(TakenFrom(l), T) \in Nat
         /\ SumFunctionOnSet(TakenFrom(l)', T) = SumFunctionOnSet(TakenFrom(l), T)
         /\ SumFunctionOnSet(TakenFrom(l)', T \cup {o})
              = SumFunctionOnSet(TakenFrom(l), T) + reservation'[o].alloc[l]
         /\ SumFunctionOnSet(TakenFrom(l), T \cup {o})
              = SumFunctionOnSet(TakenFrom(l), T) + reservation[o].alloc[l]
<1> DEFINE f == TakenFrom(l)
           g == [q \in Orders |-> reservation'[q].alloc[l]]
<1>1. TakenFrom(l)' = g
  BY DEF TakenFrom
<1>2. IsFiniteSet(T) /\ o \notin T /\ T \subseteq Orders
  BY LotsFinite DEF Without
<1>3. \A q \in Orders : f[q] \in Nat
  BY LedgerNumbers DEF IInv, TypeOK, CreditTypeOK
<1>4. /\ f[o] = reservation[o].alloc[l] /\ g[o] = reservation'[o].alloc[l]
      /\ reservation'[o].alloc[l] \in Nat
  BY DEF TakenFrom, ReservationRow, ChangesOnly
<1>5. \A q \in T : g[q] = f[q] /\ g[q] \in Int /\ f[q] \in Int /\ f[q] >= 0
  BY <1>2, <1>3 DEF TakenFrom, ChangesOnly
<1> HIDE DEF f, g
<1>6. SumFunctionOnSet(g, T) = SumFunctionOnSet(f, T) /\ SumFunctionOnSet(f, T) \in Nat
  BY <1>2, <1>5, SumSame, SumType
<1>7. SumFunctionOnSet(g, T \cup {o}) = SumFunctionOnSet(g, T) + g[o]
  BY <1>2, <1>4, <1>5, SumInsert
<1>8. SumFunctionOnSet(f, T \cup {o}) = SumFunctionOnSet(f, T) + f[o]
  BY <1>2, <1>3, <1>5, SumInsert
<1> QED
  BY <1>1, <1>4, <1>6, <1>7, <1>8 DEF f

\* One more order adds its price to what the orders hold.
LEMMA PriceSums ==
  ASSUME NEW o \in Orders, NEW T \in Without(o)
  PROVE  /\ SumFunctionOnSet(Price, T) \in Nat
         /\ SumFunctionOnSet(Price, T \cup {o}) = SumFunctionOnSet(Price, T) + Price[o]
<1>1. IsFiniteSet(T) /\ o \notin T /\ T \subseteq Orders
  BY LotsFinite DEF Without
<1>2. Price[o] \in Int /\ \A q \in T : Price[q] \in Int /\ Price[q] >= 0
  BY <1>1, CreditAssumption
<1> QED
  BY <1>1, <1>2, SumInsert, SumType

\* A reservation moves its price from what can be spent to what is held, lot by lot.
LEMMA ReserveLedger ==
  ASSUME IInv, LedgerInv, NEW o \in Orders, Reserve(o), GrantsRemembered
  PROVE  LedgerInv'
<1> DEFINE alloc == FefoAllocation(Price[o], Available(o))
           r == [reservation[o] EXCEPT !.status = "RESERVED", !.alloc = alloc]
<1>1. /\ lot \in [Lots -> LotRow] /\ reservation \in [Orders -> ReservationRow]
      /\ account \in [balance : Int, reserved : Nat]
  BY DEF IInv, TypeOK, CreditTypeOK
<1>2. Available(o) \in [Lots -> Nat]
  <2>1. \A l \in Lots : Spendable(lot[l]) \in Nat /\ Held(l) \in Nat
    BY <1>1, RowsSound, SpendableBound, LedgerNumbers
  <2> QED
    BY <2>1 DEF Available, AtLeastZero
<1>3. SumFunctionOnSet(Available(o), Lots) >= Price[o] /\ Price[o] \in Nat
  <2>1. DOMAIN Available(o) = Lots
    BY DEF Available
  <2> QED
    BY <2>1, CreditAssumption DEF Reserve, MayReserve, SumFunction
<1>4. /\ alloc \in [Lots -> Nat] /\ SumFunctionOnSet(alloc, Lots) = Price[o]
      /\ \A l \in Lots : alloc[l] <= Available(o)[l]
  BY <1>2, <1>3, FefoGivesAmount
<1>5. reservation' = [reservation EXCEPT ![o] = r] /\ reservation[o].status = "none"
  BY DEF Reserve
<1>6. /\ account'.balance = account.balance /\ account'.reserved = account.reserved + Price[o]
      /\ UNCHANGED lot
  BY <1>1 DEF Reserve
<1> HIDE DEF alloc
<1>7. /\ r \in ReservationRow /\ r.status = "RESERVED" /\ r.alloc = alloc
      /\ r.refunded = reservation[o].refunded
  <2>1. reservation[o] \in ReservationRow
    BY <1>1
  <2> QED
    BY <1>4, <2>1 DEF ReservationRow
<1> HIDE DEF r
<1>8. /\ Holding' = Holding \cup {o} /\ Spending' = Spending
      /\ Holding \in Without(o) /\ Spending \in Without(o)
      /\ ChangesOnly(o) /\ reservation'[o].alloc = alloc
  BY <1>1, <1>5, <1>7 DEF Holding, Spending, Without, ChangesOnly
<1>9. \A l \in Lots : Held(l)' = Held(l) + alloc[l] /\ Held(l) \in Nat
  <2> TAKE l \in Lots
  <2>1. Held(l)' = SumFunctionOnSet(TakenFrom(l)', Holding')
    BY DEF Held, TakenFrom
  <2>2. Held(l) = SumFunctionOnSet(TakenFrom(l), Holding) /\ Held(l) \in Nat
    BY <1>1, LedgerNumbers
  <2>3. SumFunctionOnSet(TakenFrom(l)', Holding \cup {o})
          = SumFunctionOnSet(TakenFrom(l), Holding) + reservation'[o].alloc[l]
    BY <1>8, TakenSums
  <2> QED
    BY <1>7, <1>8, <2>1, <2>2, <2>3
<1>10. Balanced' /\ BalanceIsThere'
  BY <1>6 DEF LedgerInv, Balanced, BalanceIsThere, NetOf, LeftOf
<1>11. ReservedIsHeld'
  <2>1. SumFunctionOnSet(Price, Holding \cup {o}) = SumFunctionOnSet(Price, Holding) + Price[o]
    BY <1>8, PriceSums
  <2> QED
    BY <1>6, <1>8, <2>1 DEF LedgerInv, ReservedIsHeld
<1>12. ConsumedIsSpent'
  <2>1. \A l \in Lots : SumFunctionOnSet(TakenFrom(l)', Spending') = SumFunctionOnSet(TakenFrom(l), Spending)
    BY <1>8, TakenSums
  <2> QED
    BY <1>6, <2>1 DEF LedgerInv, ConsumedIsSpent
<1>13. HeldCreditsBacked'
  <2> SUFFICES ASSUME NEW l \in Lots, Held(l)' > 0
               PROVE  Held(l)' + lot[l].offset + lot[l].reversed + lot[l].consumed <= lot[l].original
    BY <1>6 DEF HeldCreditsBacked
  <2>1. /\ Held(l)' = Held(l) + alloc[l] /\ Held(l) \in Nat /\ alloc[l] \in Nat
        /\ alloc[l] <= Available(o)[l]
    BY <1>4, <1>9
  <2>2. CASE alloc[l] = 0
    <3>1. Held(l) > 0 /\ Held(l)' = Held(l)
      BY <2>1, <2>2
    <3> QED
      BY <3>1 DEF LedgerInv, HeldCreditsBacked
  <2>3. CASE alloc[l] > 0
    <3>1. Available(o)[l] > 0
      BY <1>2, <2>1, <2>3
    <3>2. Available(o)[l] = AtLeastZero(Spendable(lot[l]) - Held(l))
      BY <3>1 DEF Available
    <3>3. Spendable(lot[l]) \in Nat /\ Sound(lot[l])
      BY RowsSound, SpendableBound
    <3>4. Available(o)[l] = Spendable(lot[l]) - Held(l) /\ Spendable(lot[l]) > 0
      BY <2>1, <3>1, <3>2, <3>3 DEF AtLeastZero
    <3>5. lot[l].offset + lot[l].consumed + lot[l].reversed + lot[l].frozen + Spendable(lot[l]) = lot[l].original
      BY <3>3, <3>4, SpendableBound
    <3>6. Held(l)' <= Spendable(lot[l])
      BY <2>1, <3>3, <3>4
    <3> QED
      BY <2>1, <3>3, <3>5, <3>6, Columns DEF Sound
  <2> QED
    BY <2>1, <2>2, <2>3
<1>14. AllocationsAddUp'
  BY <1>1, <1>4, <1>5, <1>7 DEF LedgerInv, AllocationsAddUp
<1>15. GrantedOnce'
  BY <1>6 DEF LedgerInv, GrantedOnce, Granted, GrantsRemembered
<1> QED
  BY <1>10, <1>11, <1>12, <1>13, <1>14, <1>15 DEF LedgerInv

\* A release gives every lot back what the order held of it.
LEMMA ReleaseLedger ==
  ASSUME IInv, LedgerInv, NEW o \in Orders, Release(o), GrantsRemembered
  PROVE  LedgerInv'
<1> DEFINE r == [reservation[o] EXCEPT !.status = "RELEASED"]
           H == Holding \ {o}
<1>1. /\ lot \in [Lots -> LotRow] /\ reservation \in [Orders -> ReservationRow]
      /\ account \in [balance : Int, reserved : Nat] /\ Price[o] \in Nat
  BY CreditAssumption DEF IInv, TypeOK, CreditTypeOK
<1>2. reservation' = [reservation EXCEPT ![o] = r] /\ reservation[o].status = "RESERVED"
  BY DEF Release
<1>3. /\ account'.balance = account.balance /\ account'.reserved = account.reserved - Price[o]
      /\ UNCHANGED lot
  BY <1>1 DEF Release
<1>4. /\ r \in ReservationRow /\ r.status = "RELEASED" /\ r.alloc = reservation[o].alloc
  BY <1>1 DEF ReservationRow
<1> HIDE DEF r
<1>5. /\ Holding' = H /\ Holding = H \cup {o} /\ Spending' = Spending
      /\ H \in Without(o) /\ Spending \in Without(o)
      /\ ChangesOnly(o)
  BY <1>1, <1>2, <1>4 DEF Holding, Spending, Without, ChangesOnly
<1> HIDE DEF H
<1>6. \A l \in Lots : Held(l)' <= Held(l) /\ Held(l)' \in Nat /\ Held(l) \in Nat
  <2> TAKE l \in Lots
  <2>1. Held(l)' = SumFunctionOnSet(TakenFrom(l)', H)
    BY <1>5 DEF Held, TakenFrom
  <2>2. Held(l) = SumFunctionOnSet(TakenFrom(l), H \cup {o}) /\ Held(l) \in Nat
    BY <1>1, <1>5, LedgerNumbers
  <2>3. reservation[o].alloc[l] \in Nat
    BY <1>1, LedgerNumbers
  <2>4. /\ SumFunctionOnSet(TakenFrom(l)', H) = SumFunctionOnSet(TakenFrom(l), H)
        /\ SumFunctionOnSet(TakenFrom(l), H \cup {o})
             = SumFunctionOnSet(TakenFrom(l), H) + reservation[o].alloc[l]
        /\ SumFunctionOnSet(TakenFrom(l), H) \in Nat
    BY <1>5, TakenSums
  <2> QED
    BY <2>1, <2>2, <2>3, <2>4
<1>7. Balanced' /\ BalanceIsThere'
  BY <1>3 DEF LedgerInv, Balanced, BalanceIsThere, NetOf, LeftOf
<1>8. ReservedIsHeld'
  <2>1. /\ SumFunctionOnSet(Price, H) \in Nat
        /\ SumFunctionOnSet(Price, H \cup {o}) = SumFunctionOnSet(Price, H) + Price[o]
    BY <1>5, PriceSums
  <2>2. account.reserved = SumFunctionOnSet(Price, H \cup {o})
    BY <1>5 DEF LedgerInv, ReservedIsHeld
  <2>3. account'.reserved = SumFunctionOnSet(Price, H)
    BY <1>1, <1>3, <2>1, <2>2
  <2> QED
    BY <1>5, <2>3 DEF ReservedIsHeld
<1>9. ConsumedIsSpent'
  <2>1. \A l \in Lots : SumFunctionOnSet(TakenFrom(l)', Spending') = SumFunctionOnSet(TakenFrom(l), Spending)
    BY <1>5, TakenSums
  <2> QED
    BY <1>3, <2>1 DEF LedgerInv, ConsumedIsSpent
<1>10. HeldCreditsBacked'
  <2> SUFFICES ASSUME NEW l \in Lots, Held(l)' > 0
               PROVE  Held(l)' + lot[l].offset + lot[l].reversed + lot[l].consumed <= lot[l].original
    BY <1>3 DEF HeldCreditsBacked
  <2>1. Held(l)' <= Held(l) /\ Held(l)' \in Nat /\ Held(l) \in Nat /\ Held(l) > 0
    BY <1>6
  <2>2. Held(l) + lot[l].offset + lot[l].reversed + lot[l].consumed <= lot[l].original
    BY <2>1 DEF LedgerInv, HeldCreditsBacked
  <2>3. lot[l] \in LotRow
    BY <1>1
  <2> QED
    BY <2>1, <2>2, <2>3, Columns
<1>11. AllocationsAddUp'
  BY <1>1, <1>2, <1>4 DEF LedgerInv, AllocationsAddUp
<1>12. GrantedOnce'
  BY <1>3 DEF LedgerInv, GrantedOnce, Granted, GrantsRemembered
<1> QED
  BY <1>7, <1>8, <1>9, <1>10, <1>11, <1>12 DEF LedgerInv

\* A capture consumes of every lot what the order held of it.
LEMMA CaptureLedger ==
  ASSUME IInv, LedgerInv, NEW o \in Orders, Capture(o), GrantsRemembered
  PROVE  LedgerInv'
<1> DEFINE alloc == reservation[o].alloc
           r == [reservation[o] EXCEPT !.status = "CAPTURED"]
           H == Holding \ {o}
<1>1. /\ lot \in [Lots -> LotRow] /\ reservation \in [Orders -> ReservationRow]
      /\ account \in [balance : Int, reserved : Nat] /\ Price[o] \in Nat
  BY CreditAssumption DEF IInv, TypeOK, CreditTypeOK
<1>2. reservation' = [reservation EXCEPT ![o] = r] /\ reservation[o].status = "RESERVED"
  BY DEF Capture
<1>3. account'.balance = account.balance - Price[o] /\ account'.reserved = account.reserved - Price[o]
  BY DEF Capture
<1>4. /\ r \in ReservationRow /\ r.status = "CAPTURED" /\ r.alloc = alloc
      /\ r.refunded = reservation[o].refunded
  BY <1>1 DEF ReservationRow
<1>5. \A l \in Lots : alloc[l] \in Nat /\ Spendable(lot[l]) >= alloc[l]
  BY <1>1, LedgerNumbers DEF Capture, LotsCover
<1>6. \A l \in Lots : /\ lot'[l].original = lot[l].original /\ lot'[l].offset = lot[l].offset
                      /\ lot'[l].reversed = lot[l].reversed /\ lot'[l].consumed = lot[l].consumed + alloc[l]
  BY <1>1 DEF Capture, LotRow
<1>7. SumFunctionOnSet(alloc, Lots) = Price[o]
  BY <1>2 DEF LedgerInv, AllocationsAddUp
<1> HIDE DEF r
<1>8. /\ Holding' = H /\ Holding = H \cup {o} /\ Spending' = Spending \cup {o}
      /\ H \in Without(o) /\ Spending \in Without(o)
      /\ ChangesOnly(o) /\ reservation'[o].alloc = alloc
  BY <1>1, <1>2, <1>4 DEF Holding, Spending, Without, ChangesOnly
<1> HIDE DEF alloc, H
<1>9. \A l \in Lots : Held(l) = Held(l)' + alloc[l] /\ Held(l)' \in Nat
  <2> TAKE l \in Lots
  <2>1. Held(l)' = SumFunctionOnSet(TakenFrom(l)', H)
    BY <1>8 DEF Held, TakenFrom
  <2>2. Held(l) = SumFunctionOnSet(TakenFrom(l), H \cup {o})
    BY <1>1, <1>8, LedgerNumbers
  <2>3. /\ SumFunctionOnSet(TakenFrom(l)', H) = SumFunctionOnSet(TakenFrom(l), H)
        /\ SumFunctionOnSet(TakenFrom(l), H \cup {o})
             = SumFunctionOnSet(TakenFrom(l), H) + reservation[o].alloc[l]
        /\ SumFunctionOnSet(TakenFrom(l), H) \in Nat
    BY <1>8, TakenSums
  <2> QED
    BY <2>1, <2>2, <2>3 DEF alloc
<1>10. \A l \in Lots : NetOf'[l] \in Int /\ NetOf[l] = NetOf'[l] + alloc[l]
  <2> TAKE l \in Lots
  <2>1. /\ NetOf[l] = lot[l].original - lot[l].reversed - lot[l].consumed
        /\ NetOf'[l] = lot[l].original - lot[l].reversed - (lot[l].consumed + alloc[l])
    BY <1>6 DEF NetOf
  <2>2. lot[l] \in LotRow
    BY <1>1
  <2> QED
    BY <1>5, <2>1, <2>2, Columns
<1>11. \A l \in Lots : LeftOf'[l] \in Int /\ LeftOf[l] = LeftOf'[l] + alloc[l]
  <2> TAKE l \in Lots
  <2>1. /\ LeftOf[l] = AtLeastZero(lot[l].original - lot[l].offset - lot[l].reversed - lot[l].consumed)
        /\ LeftOf'[l] = AtLeastZero(lot[l].original - lot[l].offset - lot[l].reversed
                                    - (lot[l].consumed + alloc[l]))
    BY <1>6 DEF LeftOf
  <2>2. lot[l] \in LotRow /\ Sound(lot[l]) /\ Spendable(lot[l]) \in Nat
    BY <1>1, RowsSound, SpendableBound
  <2>3. alloc[l] = 0 \/ lot[l].offset + lot[l].consumed + lot[l].reversed + alloc[l] <= lot[l].original
    <3>1. CASE Spendable(lot[l]) = 0
      BY <1>5, <2>2, <3>1
    <3>2. CASE Spendable(lot[l]) > 0
      <4>1. lot[l].offset + lot[l].consumed + lot[l].reversed + lot[l].frozen + Spendable(lot[l])
              = lot[l].original
        BY <2>2, <3>2, SpendableBound
      <4> QED
        BY <1>5, <2>2, <4>1, Columns
    <3> QED
      BY <2>2, <3>1, <3>2
  <2> QED
    BY <1>5, <2>1, <2>2, <2>3, Columns DEF AtLeastZero
<1>12. SumFunctionOnSet(NetOf, Lots) = SumFunctionOnSet(NetOf', Lots) + Price[o]
  <2>1. \A l \in Lots : alloc[l] \in Int
    BY <1>5
  <2>2. SumFunctionOnSet(NetOf, Lots) = SumFunctionOnSet(NetOf', Lots) + SumFunctionOnSet(alloc, Lots)
    BY <1>10, <2>1, LotsFinite, SumPlus
  <2> QED
    BY <1>7, <2>2
<1>13. SumFunctionOnSet(LeftOf, Lots) = SumFunctionOnSet(LeftOf', Lots) + Price[o]
  <2>1. \A l \in Lots : alloc[l] \in Int
    BY <1>5
  <2>2. SumFunctionOnSet(LeftOf, Lots) = SumFunctionOnSet(LeftOf', Lots) + SumFunctionOnSet(alloc, Lots)
    BY <1>11, <2>1, LotsFinite, SumPlus
  <2> QED
    BY <1>7, <2>2
<1>14. SumFunctionOnSet(NetOf', Lots) \in Int /\ SumFunctionOnSet(LeftOf', Lots) \in Int
  BY <1>10, <1>11, LotsFinite, SumType
<1>15. Balanced' /\ BalanceIsThere'
  <2>1. account.balance \in Int
    BY <1>1
  <2>2. account.balance = SumFunctionOnSet(NetOf', Lots) + Price[o]
    BY <1>12 DEF LedgerInv, Balanced
  <2>3. account.balance <= SumFunctionOnSet(LeftOf', Lots) + Price[o]
    BY <1>13 DEF LedgerInv, BalanceIsThere
  <2>4. account'.balance = SumFunctionOnSet(NetOf', Lots)
    BY <1>1, <1>3, <1>14, <2>2
  <2>5. account'.balance <= SumFunctionOnSet(LeftOf', Lots)
    BY <1>1, <1>3, <1>14, <2>1, <2>3
  <2> QED
    BY <2>4, <2>5 DEF Balanced, BalanceIsThere
<1>16. ReservedIsHeld'
  <2>1. /\ SumFunctionOnSet(Price, H) \in Nat
        /\ SumFunctionOnSet(Price, H \cup {o}) = SumFunctionOnSet(Price, H) + Price[o]
    BY <1>8, PriceSums
  <2>2. account.reserved = SumFunctionOnSet(Price, H \cup {o})
    BY <1>8 DEF LedgerInv, ReservedIsHeld
  <2>3. account'.reserved = SumFunctionOnSet(Price, H)
    BY <1>1, <1>3, <2>1, <2>2
  <2> QED
    BY <1>8, <2>3 DEF ReservedIsHeld
<1>17. ConsumedIsSpent'
  <2> SUFFICES ASSUME NEW l \in Lots
               PROVE  lot'[l].consumed = SumFunctionOnSet(TakenFrom(l)', Spending')
    BY DEF ConsumedIsSpent
  <2>1. SumFunctionOnSet(TakenFrom(l)', Spending \cup {o})
          = SumFunctionOnSet(TakenFrom(l), Spending) + reservation'[o].alloc[l]
    BY <1>8, TakenSums
  <2>2. lot[l].consumed = SumFunctionOnSet(TakenFrom(l), Spending)
    BY DEF LedgerInv, ConsumedIsSpent
  <2> QED
    BY <1>6, <1>8, <2>1, <2>2
<1>18. HeldCreditsBacked'
  <2> SUFFICES ASSUME NEW l \in Lots, Held(l)' > 0
               PROVE  Held(l)' + lot'[l].offset + lot'[l].reversed + lot'[l].consumed <= lot'[l].original
    BY DEF HeldCreditsBacked
  <2>1. Held(l) = Held(l)' + alloc[l] /\ Held(l)' \in Nat /\ alloc[l] \in Nat /\ Held(l) > 0
    BY <1>5, <1>9
  <2>2. Held(l) + lot[l].offset + lot[l].reversed + lot[l].consumed <= lot[l].original
    BY <2>1 DEF LedgerInv, HeldCreditsBacked
  <2>3. lot[l] \in LotRow
    BY <1>1
  <2> QED
    BY <1>6, <2>1, <2>2, <2>3, Columns
<1>19. AllocationsAddUp'
  <2> SUFFICES ASSUME NEW q \in Orders, reservation'[q].status \in {"RESERVED", "CAPTURED"}
               PROVE  SumFunctionOnSet(reservation'[q].alloc, Lots) = Price[q]
    BY DEF AllocationsAddUp
  <2>1. CASE q = o
    BY <1>7, <1>8, <2>1
  <2>2. CASE q # o
    BY <1>8, <2>2 DEF ChangesOnly, LedgerInv, AllocationsAddUp
  <2> QED
    BY <2>1, <2>2
<1>20. GrantedOnce'
  BY <1>6 DEF LedgerInv, GrantedOnce, Granted, GrantsRemembered, Lots
<1> QED
  BY <1>15, <1>16, <1>17, <1>18, <1>19, <1>20 DEF LedgerInv

\* A step that touches neither the account, nor the lots, nor the reservations.
LEMMA LedgerAside ==
  ASSUME IInv, LedgerInv, UNCHANGED <<account, lot, reservation>>, GrantsRemembered
  PROVE  LedgerInv'
BY LotsAlike DEF HoldsKept

\* The steps of orders keep the sums.
LEMMA CreditStepLedger ==
  ASSUME IInv, LedgerInv, Untouched, CreditSteps
  PROVE  LedgerInv'
<1> USE CreditAssumption
<1>1. /\ lot \in [Lots -> LotRow] /\ reservation \in [Orders -> ReservationRow]
      /\ UNCHANGED purchase
  BY DEF IInv, TypeOK, CreditTypeOK, Untouched
<1>2. ASSUME UNCHANGED reservation PROVE GrantsRemembered /\ HoldsKept
  BY <1>1, <1>2 DEF GrantsRemembered, HoldsKept
<1>3. CASE GrantWelcome
  <2>1. GrantedOnce'
    <3>1. \A l \in Lots : l # Welcome => lot'[l] = lot[l]
      BY <1>1, <1>3 DEF GrantWelcome, Grant
    <3>2. UNCHANGED <<purchase, reservation>>
      BY <1>1, <1>3 DEF GrantWelcome
    <3> QED
      BY <3>1, <3>2 DEF LedgerInv, GrantedOnce, Granted, Lots
  <2> QED
    BY <1>2, <1>3, <2>1, GrantLedger DEF GrantWelcome, Lots
<1>4. CASE \E l \in Lots : Expire(l)
  BY <1>2, <1>4, LedgerAside DEF Expire
<1>5. ASSUME NEW o \in Orders, OrderSteps(o)
      PROVE  LedgerInv'
  <2>1. ASSUME NEW r \in ReservationRow, reservation' = [reservation EXCEPT ![o] = r],
               r.refunded = reservation[o].refunded
        PROVE  GrantsRemembered
    BY <1>1, <2>1 DEF GrantsRemembered
  <2>2. CASE Reserve(o)
    <3> DEFINE alloc == FefoAllocation(Price[o], Available(o))
               r == [reservation[o] EXCEPT !.status = "RESERVED", !.alloc = alloc]
    <3>1. alloc \in [Lots -> Nat]
      BY <2>2 DEF Reserve
    <3>2. reservation' = [reservation EXCEPT ![o] = r]
      BY <2>2 DEF Reserve
    <3> HIDE DEF alloc
    <3>3. r \in ReservationRow /\ r.refunded = reservation[o].refunded
      <4>1. reservation[o] \in ReservationRow
        BY <1>1
      <4> QED
        BY <3>1, <4>1 DEF ReservationRow
    <3> HIDE DEF r
    <3> QED
      BY <2>1, <2>2, <3>2, <3>3, ReserveLedger
  <2>3. CASE Release(o) \/ Capture(o)
    <3>1. PICK status \in {"RELEASED", "CAPTURED"} :
            reservation' = [reservation EXCEPT ![o].status = status]
      BY <2>3 DEF Release, Capture
    <3> DEFINE r == [reservation[o] EXCEPT !.status = status]
    <3>2. reservation' = [reservation EXCEPT ![o] = r]
      BY <3>1
    <3>3. r \in ReservationRow /\ r.refunded = reservation[o].refunded
      BY <1>1 DEF ReservationRow
    <3> HIDE DEF r
    <3> QED
      BY <2>1, <2>3, <3>2, <3>3, ReleaseLedger, CaptureLedger
  <2>4. CASE RefundGeneration(o)
    <3>1. /\ HoldsKept /\ reservation'[o].refunded
          /\ \A q \in Orders : q # o => reservation'[q] = reservation[q]
      BY <1>1, <2>4 DEF RefundGeneration, HoldsKept, ReservationRow
    <3>2. ~Granted(o)
      BY <2>4 DEF RefundGeneration, LedgerInv, GrantedOnce
    <3>3. \A l \in Lots : l # o => lot'[l] = lot[l]
      BY <1>1, <2>4 DEF RefundGeneration, Grant
    <3>4. GrantedOnce'
      BY <1>1, <3>1, <3>3 DEF LedgerInv, GrantedOnce, Granted, Lots
    <3> QED
      BY <2>4, <3>1, <3>2, <3>4, GrantLedger DEF RefundGeneration, Lots
  <2>5. CASE \/ Submit(o) \/ CheckFunding(o) \/ DeliveryLost(o) \/ Deliver(o)
             \/ \E l \in Purchases : UnlockTrial(o, l)
    <3>1. UNCHANGED <<account, lot, reservation>>
      BY <2>5 DEF Submit, CheckFunding, DeliveryLost, Deliver, UnlockTrial
    <3> QED
      BY <1>2, <3>1, LedgerAside
  <2> QED
    BY <1>5, <2>2, <2>3, <2>4, <2>5 DEF OrderSteps
<1> QED
  BY <1>3, <1>4, <1>5 DEF CreditSteps

\* What an event does to the credits.
LEMMA EventEffects ==
  ASSUME IInv, NEW e \in Events, Ingest(e) \/ Apply(e)
  PROVE  \/ UNCHANGED creditVars /\ UNCHANGED purchase
         \/ \E p \in Purchases :
              /\ UNCHANGED reservation
              /\ \/ /\ Grant(p, Credits[p]) /\ ~purchase[p].captured
                    /\ purchase' = [purchase EXCEPT ![p].captured = TRUE]
                 \/ /\ MayReverse(p) /\ Reverse(p)
                    /\ \A q \in Purchases : purchase'[q].captured = purchase[q].captured
                 \/ /\ Freeze(p) \/ Unfreeze(p)
                    /\ \A q \in Purchases : purchase'[q].captured = purchase[q].captured
<1> DEFINE p == Fact[e].purchase
           Same == \A q \in Purchases : purchase'[q].captured = purchase[q].captured
<1>1. p \in Purchases
  BY EventAssumption DEF FactRow
<1>2. purchase \in [Purchases -> PurchaseRow]
  BY DEF IInv, TypeOK
<1>3. ASSUME \/ purchase' = WithRefundFact(e, p)
             \/ \E state \in {"NONE", "OPEN", "WON", "LOST"} : purchase' = WithDisputeFact(e, p, state)
      PROVE  Same
  BY <1>2, <1>3 DEF WithRefundFact, WithDisputeFact, PurchaseRow
<1> HIDE DEF Same
<1> DEFINE Still == UNCHANGED creditVars /\ UNCHANGED purchase
           Taken == UNCHANGED reservation /\ MayReverse(p) /\ Reverse(p) /\ Same
           Moved == UNCHANGED reservation /\ (Freeze(p) \/ Unfreeze(p)) /\ Same
           First == /\ UNCHANGED reservation
                    /\ Grant(p, Credits[p]) /\ ~purchase[p].captured
                    /\ purchase' = [purchase EXCEPT ![p].captured = TRUE]
<1>4. Still \/ Taken \/ Moved \/ First
  <2>1. CASE Ingest(e)
    BY <2>1 DEF Ingest
  <2>2. CASE ApplyCapture(e, p)
    BY <2>2 DEF ApplyCapture, GrantsFirst, AlreadyRecorded
  <2>3. CASE RejectCapture(e, p) \/ CaptureNotFound(e, p)
    BY <2>3 DEF RejectCapture, CaptureNotFound
  <2>4. CASE ApplyRefund(e, p)
    <3>1. CASE AlreadyRecorded(e)
      BY <3>1 DEF AlreadyRecorded
    <3>2. CASE ApplyFullRefund(e, p)
      BY <1>3, <3>2 DEF ApplyFullRefund, Reverse
    <3>3. CASE ApplyOtherRefund(e, p)
      BY <1>3, <3>3 DEF ApplyOtherRefund, Freeze
    <3> QED
      BY <2>4, <3>1, <3>2, <3>3 DEF ApplyRefund
  <2>5. CASE ApplyDispute(e, p)
    <3>1. CASE AlreadyRecorded(e)
      BY <3>1 DEF AlreadyRecorded
    <3>2. purchase[p].dispute \in {"NONE", "OPEN", "WON", "LOST"}
      BY <1>1, <1>2 DEF PurchaseRow
    <3>3. ASSUME NEW tag, NEW dispute \in {"NONE", "OPEN", "WON", "LOST"}, NEW state,
                 HoldForDispute(e, p, tag, dispute, state)
          PROVE  Moved
      BY <1>3, <3>3 DEF HoldForDispute, Freeze
    <3>4. CASE ReviewDispute(e, p) \/ OpenDispute(e, p)
      BY <3>2, <3>3, <3>4 DEF ReviewDispute, OpenDispute
    <3>5. CASE WinDispute(e, p)
      BY <1>3, <3>5 DEF WinDispute, Unfreeze
    <3>6. CASE LoseDispute(e, p)
      BY <1>3, <3>2, <3>3, <3>6 DEF LoseDispute, Reverse
    <3> QED
      BY <2>5, <3>1, <3>4, <3>5, <3>6 DEF ApplyDispute
  <2> QED
    BY <2>1, <2>2, <2>3, <2>4, <2>5 DEF Apply
<1> QED
  BY <1>1, <1>4 DEF Same

\* A purchase is granted once, by its capture; what is taken back was granted.
LEMMA EventLedger ==
  ASSUME IInv, LedgerInv, NEW e \in Events, EventSteps(e)
  PROVE  LedgerInv'
<1>1. /\ lot \in [Lots -> LotRow] /\ purchase \in [Purchases -> PurchaseRow]
      /\ \A p \in Purchases : p \in Lots /\ Credits[p] \in Nat /\ Credits[p] > 0
  BY CreditAssumption DEF IInv, TypeOK, CreditTypeOK, Lots
<1>2. ASSUME UNCHANGED reservation PROVE HoldsKept
  BY <1>2 DEF HoldsKept
<1>3. ASSUME \A q \in Purchases : purchase'[q].captured = purchase[q].captured,
             UNCHANGED reservation
      PROVE  GrantsRemembered
  BY <1>3 DEF GrantsRemembered
<1>4. CASE UNCHANGED creditVars /\ UNCHANGED purchase
  <2>1. GrantsRemembered
    BY <1>3, <1>4 DEF creditVars
  <2> QED
    BY <1>4, <2>1, LedgerAside DEF creditVars
<1>5. ASSUME NEW p \in Purchases, UNCHANGED reservation,
             Grant(p, Credits[p]), ~purchase[p].captured,
             purchase' = [purchase EXCEPT ![p].captured = TRUE]
      PROVE  LedgerInv'
  <2>1. ~Granted(p)
    BY <1>5 DEF LedgerInv, GrantedOnce
  <2>2. /\ \A l \in Lots : l # p => lot'[l] = lot[l]
        /\ purchase'[p].captured
        /\ \A q \in Purchases : q # p => purchase'[q] = purchase[q]
    BY <1>1, <1>5 DEF Grant, PurchaseRow
  <2>3. GrantedOnce'
    <3>1. p \notin Orders
      BY <1>5, CreditAssumption
    <3> QED
      BY <1>5, <2>2, <3>1 DEF LedgerInv, GrantedOnce, Granted, Lots
  <2> QED
    BY <1>1, <1>2, <1>5, <2>1, <2>3, GrantLedger
<1>6. ASSUME NEW p \in Purchases, UNCHANGED reservation, MayReverse(p), Reverse(p),
             \A q \in Purchases : purchase'[q].captured = purchase[q].captured
      PROVE  LedgerInv'
  BY <1>1, <1>2, <1>3, <1>6, ReverseLedger
<1>7. ASSUME NEW p \in Purchases, UNCHANGED reservation, Freeze(p) \/ Unfreeze(p),
             \A q \in Purchases : purchase'[q].captured = purchase[q].captured
      PROVE  LedgerInv'
  <2>1. /\ account' = account
        /\ \A l \in Lots : /\ lot'[l].original = lot[l].original /\ lot'[l].offset = lot[l].offset
                           /\ lot'[l].reversed = lot[l].reversed
                           /\ lot'[l].consumed = lot[l].consumed
    BY <1>1, <1>7 DEF Freeze, Unfreeze, LotRow
  <2> QED
    BY <1>2, <1>3, <1>7, <2>1, LotsAlike
<1> QED
  BY <1>4, <1>5, <1>6, <1>7, EventEffects DEF EventSteps

\* And so does every step.
LEMMA NextLedger == IInv /\ LedgerInv /\ [Next]_vars => LedgerInv'
<1> SUFFICES ASSUME IInv, LedgerInv, [Next]_vars
             PROVE  LedgerInv'
  OBVIOUS
<1>1. CASE CreditSteps /\ Untouched
  BY <1>1, CreditStepLedger
<1>2. CASE \E e \in Events : EventSteps(e)
  BY <1>2, EventLedger
<1>3. CASE UNCHANGED vars
  BY <1>3, LedgerAside DEF vars, creditVars, GrantsRemembered
<1> QED
  BY <1>1, <1>2, <1>3 DEF Next

\* The ledger holds in every state that can be reached.
THEOREM LedgerInvariant == Spec => [](IInv /\ LedgerInv)
<1> QED
  BY Inductive, InitLedger, NextLedger, PTL DEF Spec

\* After any interleaving of orders and events, the balance of the account is what its
\* lots were granted and neither lost nor spent, its reserve is what its orders hold, and
\* a lot's consumption is what captured orders took from it.
THEOREM AccountIsItsLots == Spec => []LedgerAgrees
BY LedgerInvariant, LedgerShape, PTL

\* What orders hold is still on the lots they hold it of: reservations of the same lot,
\* grants that repay a debt, captures and reversals never promise a credit twice.
THEOREM HoldsAreBacked == Spec => []HeldCreditsBacked
BY LedgerInvariant, LedgerShape, PTL

\* A positive balance can be found on the lots: what a grant repays (debt_offset_amount)
\* is at most what taken-back credits had been spent.
THEOREM BalanceCanBeFound == Spec => []NothingStranded
BY LedgerInvariant, LedgerShape, PTL

-----------------------------------------------------------------------------
(* The prepaid account *)

\* What was used are the prices of the orders that have captured.
LEMMA UsedIsSpending ==
  Used = SumFunctionOnSet(Price, Spending) /\ Used' = SumFunctionOnSet(Price, Spending')
BY DEF Used, Spending

\* A step that moves neither the balance nor what orders hold and have spent.
LEMMA PrepaidAside ==
  ASSUME UNCHANGED account, HoldsKept
  PROVE  UNCHANGED Prepaid!account
<1>1. Used' = Used
  BY HoldsSame, UsedIsSpending
<1> QED
  BY <1>1 DEF Prepaid!account

\* A lot is granted, while orders hold what they held.
LEMMA PrepaidGrant ==
  ASSUME IInv, NEW l \in Lots, NEW amount \in Nat \ {0}, Grant(l, amount), HoldsKept
  PROVE  Prepaid!PayIn
<1>1. account \in [balance : Int, reserved : Nat] /\ reservation \in [Orders -> ReservationRow]
  BY DEF IInv, TypeOK, CreditTypeOK
<1>2. Used' = Used /\ Used \in Nat
  BY <1>1, HoldsSame, UsedIsSpending, LedgerNumbers DEF IInv, TypeOK, CreditTypeOK
<1>3. account'.balance = account.balance + amount /\ account'.reserved = account.reserved
  BY <1>1 DEF Grant
<1> QED
  BY <1>1, <1>2, <1>3 DEF Prepaid!PayIn

\* A reversal takes credits back from the account.
LEMMA PrepaidReverse ==
  ASSUME IInv, NEW p \in Purchases, Reverse(p)
  PROVE  Prepaid!TakeBack
<1>1. account \in [balance : Int, reserved : Nat] /\ Credits[p] \in Nat \ {0}
  BY CreditAssumption DEF IInv, TypeOK, CreditTypeOK
<1>2. Used' = Used /\ Used \in Nat
  <2>1. HoldsKept
    BY DEF Reverse, HoldsKept
  <2> QED
    BY <2>1, HoldsSame, UsedIsSpending, LedgerNumbers DEF IInv, TypeOK, CreditTypeOK
<1>3. account'.balance = account.balance - Credits[p] /\ account'.reserved = account.reserved
  BY <1>1 DEF Reverse
<1> QED
  BY <1>1, <1>2, <1>3 DEF Prepaid!TakeBack

\* An order's steps that move its reservation.
LEMMA PrepaidOrder ==
  ASSUME IInv, LedgerInv, NEW o \in Orders, Reserve(o) \/ Release(o) \/ Capture(o)
  PROVE  Prepaid!Hold \/ Prepaid!GiveBack \/ Prepaid!Use
<1>1. /\ account \in [balance : Int, reserved : Nat] /\ reservation \in [Orders -> ReservationRow]
      /\ lot \in [Lots -> LotRow] /\ Price[o] \in Nat /\ Price[o] > 0
  BY CreditAssumption DEF IInv, TypeOK, CreditTypeOK
<1>2. Used = SumFunctionOnSet(Price, Spending) /\ Used \in Nat
  BY <1>1, UsedIsSpending, LedgerNumbers
<1>3. Used' = SumFunctionOnSet(Price, Spending')
  BY UsedIsSpending
<1>4. CASE Reserve(o)
  <2>1. Spending' = Spending
    <3>1. \A q \in Orders : reservation'[q].status = "CAPTURED" <=> reservation[q].status = "CAPTURED"
      BY <1>1, <1>4 DEF Reserve, ReservationRow
    <3> QED
      BY <3>1 DEF Spending
  <2>2. account.balance - account.reserved >= Price[o]
    BY <1>1, <1>4 DEF Reserve, MayReserve, SpendableBalance, AtLeastZero
  <2>3. account'.balance = account.balance /\ account'.reserved = account.reserved + Price[o]
    BY <1>1, <1>4 DEF Reserve
  <2> QED
    BY <1>1, <1>2, <1>3, <2>1, <2>2, <2>3 DEF Prepaid!Hold
<1>5. CASE Release(o)
  <2>1. Spending' = Spending
    <3>1. \A q \in Orders : reservation'[q].status = "CAPTURED" <=> reservation[q].status = "CAPTURED"
      BY <1>1, <1>5 DEF Release, ReservationRow
    <3> QED
      BY <3>1 DEF Spending
  <2>2. /\ account'.balance = account.balance /\ account'.reserved = account.reserved - Price[o]
        /\ account.reserved >= Price[o]
    BY <1>1, <1>5 DEF Release
  <2> QED
    BY <1>1, <1>2, <1>3, <2>1, <2>2 DEF Prepaid!GiveBack
<1>6. CASE Capture(o)
  <2>1. Spending' = Spending \cup {o} /\ Spending \in Without(o)
    <3>1. \A q \in Orders : /\ q # o => reservation'[q].status = reservation[q].status
                            /\ q = o => /\ reservation'[q].status = "CAPTURED"
                                        /\ reservation[q].status = "RESERVED"
      BY <1>1, <1>6 DEF Capture, ReservationRow
    <3> QED
      BY <3>1 DEF Spending, Without
  <2>2. Used' = Used + Price[o]
    BY <1>2, <1>3, <2>1, PriceSums
  <2>3. /\ account'.balance = account.balance - Price[o]
        /\ account'.reserved = account.reserved - Price[o]
        /\ account.reserved >= Price[o]
    BY <1>6 DEF Capture, LotsCover
  <2> QED
    BY <1>1, <1>2, <2>2, <2>3 DEF Prepaid!Use
<1> QED
  BY <1>4, <1>5, <1>6

\* At first the account is empty.
LEMMA PrepaidInit == Init => Prepaid!Init
<1> SUFFICES ASSUME Init PROVE Prepaid!Init
  OBVIOUS
<1>1. Spending = {} /\ account.balance = 0 /\ account.reserved = 0
  BY DEF Init, CreditInit, Spending
<1>2. Used = 0
  BY <1>1, UsedIsSpending, SumEmpty
<1> QED
  BY <1>1, <1>2 DEF Prepaid!Init

\* Every step of the ledger is one of a prepaid account, or none.
LEMMA PrepaidStep == IInv /\ LedgerInv /\ [Next]_vars => [Prepaid!Next]_Prepaid!account
<1> SUFFICES ASSUME IInv, LedgerInv, [Next]_vars
             PROVE  [Prepaid!Next]_Prepaid!account
  OBVIOUS
<1>1. reservation \in [Orders -> ReservationRow]
  BY DEF IInv, TypeOK, CreditTypeOK
<1>2. ASSUME UNCHANGED reservation PROVE HoldsKept
  BY <1>2 DEF HoldsKept
<1>3. ASSUME UNCHANGED <<account, reservation>> PROVE UNCHANGED Prepaid!account
  BY <1>2, <1>3, PrepaidAside
<1>4. CASE GrantWelcome
  BY <1>2, <1>4, PrepaidGrant DEF GrantWelcome, Lots, Prepaid!Next
<1>5. CASE \E l \in Lots : Expire(l)
  BY <1>3, <1>5 DEF Expire
<1>6. ASSUME NEW o \in Orders, OrderSteps(o)
      PROVE  [Prepaid!Next]_Prepaid!account
  <2>1. CASE Reserve(o) \/ Release(o) \/ Capture(o)
    BY <2>1, PrepaidOrder DEF Prepaid!Next
  <2>2. CASE RefundGeneration(o)
    <3>1. HoldsKept
      BY <1>1, <2>2 DEF RefundGeneration, HoldsKept, ReservationRow
    <3>2. Price[o] \in Nat \ {0} /\ o \in Lots
      BY CreditAssumption DEF Lots
    <3> QED
      BY <2>2, <3>1, <3>2, PrepaidGrant DEF RefundGeneration, Prepaid!Next
  <2>3. CASE \/ Submit(o) \/ CheckFunding(o) \/ DeliveryLost(o) \/ Deliver(o)
             \/ \E l \in Purchases : UnlockTrial(o, l)
    BY <1>3, <2>3 DEF Submit, CheckFunding, DeliveryLost, Deliver, UnlockTrial
  <2> QED
    BY <1>6, <2>1, <2>2, <2>3 DEF OrderSteps
<1>7. ASSUME NEW e \in Events, EventSteps(e)
      PROVE  [Prepaid!Next]_Prepaid!account
  <2>1. CASE UNCHANGED creditVars
    BY <1>3, <2>1 DEF creditVars
  <2>2. ASSUME NEW p \in Purchases, UNCHANGED reservation, Grant(p, Credits[p])
        PROVE  [Prepaid!Next]_Prepaid!account
    <3>1. Credits[p] \in Nat \ {0} /\ p \in Lots
      BY CreditAssumption DEF Lots
    <3> QED
      BY <1>2, <2>2, <3>1, PrepaidGrant DEF Prepaid!Next
  <2>3. ASSUME NEW p \in Purchases, Reverse(p)
        PROVE  [Prepaid!Next]_Prepaid!account
    BY <2>3, PrepaidReverse DEF Prepaid!Next
  <2>4. ASSUME NEW p \in Purchases, Freeze(p) \/ Unfreeze(p)
        PROVE  [Prepaid!Next]_Prepaid!account
    BY <1>3, <2>4 DEF Freeze, Unfreeze
  <2> QED
    BY <1>7, <2>1, <2>2, <2>3, <2>4, EventEffects DEF EventSteps
<1>8. CASE UNCHANGED vars
  BY <1>3, <1>8 DEF vars, creditVars
<1> QED
  BY <1>4, <1>5, <1>6, <1>7, <1>8 DEF Next, CreditSteps

\* To its user the account is a prepaid one, whatever the lots, the orders and the
\* payment events do: only what is paid for, not used and not held is held for an
\* order, and only what was held is used (lock_credit_funding, capture_reservation).
THEOREM AccountIsPrepaid == Spec => ImplementsPrepaid
<1> QED
  BY LedgerInvariant, PrepaidInit, PrepaidStep, PTL DEF Spec, ImplementsPrepaid, Prepaid!Spec

=============================================================================
