------------------------ MODULE OrderAdmissionProofs ------------------------
(***************************************************************************)
(* Theorems about the admission of orders, for any number of requests,     *)
(* keys, prices and purchases.                                             *)
(***************************************************************************)
EXTENDS OrderAdmission, SumTheorems, TLAPS

\* The columns of the requests and the records have their types; the credits are
\* not needed.
RowsOK ==
  /\ request \in [Requests -> RequestRow]
  /\ record \in [Keys -> RecordRow]

\* What a handler answers, or is about to answer, is what the record of its key says.
AnswersFromRecord ==
  \A r \in Requests : request[r].at \in {"created", "answered"} =>
    /\ Recorded(Key[r])
    /\ record[Key[r]] = [payload |-> Payload[r], order |-> request[r].answer]

IInv == RowsOK /\ AnswersFromRecord /\ OrdersAreRecorded

\* Every request has a key of the set.
LEMMA KeyInKeys == \A r \in Requests : Key[r] \in Keys
  BY DEF Keys

\* NULL is not an order.
LEMMA NoOrderIsNoOrder == NoOrder \notin Orders
<1> SUFFICES ASSUME NoOrder \in Orders PROVE FALSE
  OBVIOUS
<1>1. Orders = Requests \X {"trial", "paid"}
  BY AdmissionAssumption
<1>2. \A x \in Requests \X {"trial", "paid"} : x # <<>>
  BY SMT
<1> QED
  BY <1>1, <1>2 DEF NoOrder

\* What a request would create is an order, as a trial and as a paid one.
LEMMA OrderOfIsOrder == \A r \in Requests, t \in BOOLEAN : OrderOf(r, t) \in Orders
<1>1. Orders = Requests \X {"trial", "paid"}
  BY AdmissionAssumption
<1> QED
  BY <1>1, SMT DEF OrderOf

\* At first nothing is recorded and nothing answered.
LEMMA InitRows == Init => IInv
<1> SUFFICES ASSUME Init PROVE IInv
  OBVIOUS
<1>1. request \in [Requests -> RequestRow] /\ \A r \in Requests : request[r].at = "none"
  BY DEF Init, RequestRow
<1>2. \A k \in Keys : \E r \in Requests : Key[r] = k
  BY DEF Keys
<1>3. record \in [Keys -> RecordRow] /\ \A k \in Keys : record[k].order = NoOrder
  BY <1>2 DEF Init, RecordRow
<1>4. Admitted = {}
  BY DEF Init, CreditInit, Admitted
<1>5. {record[k].order : k \in Keys} \ {NoOrder} = {}
  BY <1>3
<1>6. OrdersAreRecorded
  BY <1>3, <1>4, <1>5 DEF OrdersAreRecorded, Recorded
<1> QED
  BY <1>1, <1>3, <1>6 DEF IInv, RowsOK, AnswersFromRecord

\* A step of the orders that neither adds nor forgets one.
LEMMA OrdersKept ==
  ASSUME IInv, UNCHANGED <<request, record>>, Admitted' = Admitted
  PROVE  IInv'
  BY DEF IInv, RowsOK, AnswersFromRecord, OrdersAreRecorded, Recorded

\* A step of one handler that admits nothing and answers nothing of its own.
LEMMA HandlerMoves ==
  ASSUME IInv, NEW r \in Requests, NEW row \in RequestRow,
         request' = [request EXCEPT ![r] = row],
         UNCHANGED <<creditVars, record>>,
         row.at \in {"created", "answered"} =>
           /\ Recorded(Key[r])
           /\ record[Key[r]] = [payload |-> Payload[r], order |-> row.answer]
  PROVE  IInv'
<1>1. RowsOK'
  BY DEF IInv, RowsOK
<1>2. OrdersAreRecorded'
  BY DEF IInv, OrdersAreRecorded, Admitted, creditVars, Recorded
<1>3. ASSUME NEW q \in Requests, request'[q].at \in {"created", "answered"}
      PROVE  /\ Recorded(Key[q])'
             /\ record'[Key[q]] = [payload |-> Payload[q], order |-> request'[q].answer]
  <2>1. CASE q = r
    BY <1>3, <2>1 DEF IInv, RowsOK, Recorded
  <2>2. CASE q # r
    BY <1>3, <2>2 DEF IInv, RowsOK, AnswersFromRecord, Recorded
  <2> QED
    BY <2>1, <2>2
<1> QED
  BY <1>1, <1>2, <1>3 DEF IInv, AnswersFromRecord

\* A replay answers from the record of its key.
LEMMA ReplayStep ==
  ASSUME IInv, NEW r \in Requests, Replay(r)
  PROVE  IInv'
<1> DEFINE row == [request[r] EXCEPT !.at = "answered", !.answer = record[Key[r]].order]
<1>1. record[Key[r]] \in RecordRow
  BY KeyInKeys DEF IInv, RowsOK
<1>2. row \in RequestRow /\ row.at = "answered" /\ row.answer = record[Key[r]].order
  BY <1>1 DEF IInv, RowsOK, RequestRow, RecordRow
<1>3. record[Key[r]] = [payload |-> Payload[r], order |-> row.answer]
  BY <1>1, <1>2 DEF Replay, Replays, RecordRow
<1>4. request' = [request EXCEPT ![r] = row]
  BY DEF Replay, IInv, RowsOK
<1>5. Recorded(Key[r]) /\ UNCHANGED <<creditVars, record>>
  BY DEF Replay, Replays
<1> HIDE DEF row
<1> QED
  BY <1>2, <1>3, <1>4, <1>5, HandlerMoves

\* A handler that goes on, gives up or dies keeps what it has.
LEMMA GoStep ==
  ASSUME IInv, NEW r \in Requests, NEW at \in {"facts", "refused", "dead"},
         Go(r, at), UNCHANGED <<creditVars, record>>
  PROVE  IInv'
<1> DEFINE row == [request[r] EXCEPT !.at = at]
<1>1. row \in RequestRow /\ row.at = at
  BY DEF IInv, RowsOK, RequestRow
<1>2. request' = [request EXCEPT ![r] = row]
  BY DEF Go, IInv, RowsOK
<1> HIDE DEF row
<1> QED
  BY <1>1, <1>2, HandlerMoves

\* An answer is that of the order that was created.
LEMMA AnswerStep ==
  ASSUME IInv, NEW r \in Requests, Answer(r)
  PROVE  IInv'
<1> DEFINE row == [request[r] EXCEPT !.at = "answered"]
<1>1. row \in RequestRow /\ row.at = "answered" /\ row.answer = request[r].answer
  BY DEF IInv, RowsOK, RequestRow
<1>2. request' = [request EXCEPT ![r] = row]
  BY DEF Answer, Go, IInv, RowsOK
<1>3. /\ Recorded(Key[r])
      /\ record[Key[r]] = [payload |-> Payload[r], order |-> request[r].answer]
  BY DEF Answer, IInv, AnswersFromRecord
<1>4. UNCHANGED <<creditVars, record>>
  BY DEF Answer
<1> HIDE DEF row
<1> QED
  BY <1>1, <1>2, <1>3, <1>4, HandlerMoves

\* Reading the facts admits nothing.
LEMMA LoadStep ==
  ASSUME IInv, NEW r \in Requests, LoadFacts(r)
  PROVE  IInv'
<1> DEFINE row == [request[r] EXCEPT !.at = "images", !.trial = TrialEligible(r)]
<1>1. TrialEligible(r) \in BOOLEAN
  BY DEF TrialEligible
<1>2. row \in RequestRow /\ row.at = "images"
  BY <1>1 DEF IInv, RowsOK, RequestRow
<1>3. request' = [request EXCEPT ![r] = row] /\ UNCHANGED <<creditVars, record>>
  BY DEF LoadFacts, IInv, RowsOK
<1> HIDE DEF row
<1> QED
  BY <1>2, <1>3, HandlerMoves

-----------------------------------------------------------------------------
(* The transaction that admits an order *)

\* The transaction that admits an order writes its record in the same commit.
LEMMA CreateStep ==
  ASSUME IInv, reservation \in [Orders -> ReservationRow],
         NEW r \in Requests, CreateOrder(r)
  PROVE  IInv'
<1> DEFINE o == OrderOf(r, request[r].trial)
           row == [request[r] EXCEPT !.at = "created", !.answer = o]
           entry == [payload |-> Payload[r], order |-> o]
<1>1. o \in Orders /\ o # NoOrder
  BY OrderOfIsOrder, NoOrderIsNoOrder DEF IInv, RowsOK, RequestRow
<1>2. /\ row \in RequestRow /\ row.at = "created" /\ row.answer = o
      /\ request' = [request EXCEPT ![r] = row]
  BY <1>1 DEF CreateOrder, IInv, RowsOK, RequestRow
<1>3. entry \in RecordRow /\ record' = [record EXCEPT ![Key[r]] = entry]
  BY <1>1 DEF CreateOrder, RecordRow
<1>4. Key[r] \in Keys /\ record[Key[r]].order = NoOrder
  BY KeyInKeys DEF CreateOrder, KeyTaken, Recorded
<1>5. entry.order = o /\ entry.payload = Payload[r]
  OBVIOUS
<1>6. /\ reservation[o].status = "none"
      /\ \E alloc : reservation' = [reservation EXCEPT ![o].status = "RESERVED", ![o].alloc = alloc]
  BY DEF CreateOrder, Reserve
<1>7. Admitted' = Admitted \cup {o} /\ o \notin Admitted
  BY <1>1, <1>6 DEF Admitted, ReservationRow
<1> HIDE DEF o, row, entry
<1>8. /\ \A k \in Keys \ {Key[r]} : record'[k] = record[k]
      /\ record'[Key[r]] = entry
      /\ record' \in [Keys -> RecordRow]
  BY <1>3, <1>4 DEF IInv, RowsOK
<1>9. RowsOK'
  BY <1>2, <1>8 DEF IInv, RowsOK
<1>10. AnswersFromRecord'
  <2> SUFFICES ASSUME NEW q \in Requests, request'[q].at \in {"created", "answered"}
               PROVE  /\ Recorded(Key[q])'
                      /\ record'[Key[q]] =
                           [payload |-> Payload[q], order |-> request'[q].answer]
    BY DEF AnswersFromRecord
  <2>1. CASE q = r
    <3>1. request'[q] = row
      BY <1>2, <2>1 DEF IInv, RowsOK
    <3> QED
      BY <1>1, <1>2, <1>5, <1>8, <2>1, <3>1 DEF Recorded, entry
  <2>2. CASE q # r
    <3>1. request'[q] = request[q]
      BY <1>2, <2>2 DEF IInv, RowsOK
    <3>2. /\ Recorded(Key[q])
          /\ record[Key[q]] = [payload |-> Payload[q], order |-> request[q].answer]
      BY <3>1 DEF IInv, AnswersFromRecord
    <3>3. Key[q] \in Keys \ {Key[r]}
      BY <1>4, <3>2, KeyInKeys DEF Recorded
    <3> QED
      BY <1>8, <3>1, <3>2, <3>3 DEF Recorded
  <2> QED
    BY <2>1, <2>2
<1>11. {record'[k].order : k \in Keys} \ {NoOrder}
         = ({record[k].order : k \in Keys} \ {NoOrder}) \cup {o}
  BY <1>1, <1>4, <1>5, <1>8
<1>12. \A k \in Keys : record[k].order # o
  BY <1>1, <1>7 DEF IInv, OrdersAreRecorded
<1>13. ASSUME NEW j \in Keys, NEW k \in Keys, Recorded(j)', record'[j].order = record'[k].order
       PROVE  j = k
  BY <1>5, <1>8, <1>12, <1>13 DEF IInv, OrdersAreRecorded, Recorded
<1>14. OrdersAreRecorded'
  BY <1>7, <1>11, <1>13 DEF IInv, OrdersAreRecorded
<1> QED
  BY <1>9, <1>10, <1>14 DEF IInv

-----------------------------------------------------------------------------
(* The other steps of the account *)

\* Generating an order changes neither records nor answers.
LEMMA GenerateStep ==
  ASSUME IInv, reservation \in [Orders -> ReservationRow],
         NEW o \in Orders, Generate(o)
  PROVE  IInv'
<1>1. UNCHANGED <<request, record>>
  BY DEF Generate, admissionVars
<1>2. CASE Submit(o) \/ CheckFunding(o) \/ DeliveryLost(o) \/ Deliver(o)
  <2>1. Admitted' = Admitted
    BY <1>2 DEF Submit, CheckFunding, DeliveryLost, Deliver, Admitted
  <2> QED
    BY <1>1, <2>1, OrdersKept
<1>3. CASE Release(o) \/ Capture(o) \/ RefundGeneration(o)
  <2>1. Admitted' = Admitted
    BY <1>3 DEF Release, Capture, RefundGeneration, Admitted, ReservationRow
  <2> QED
    BY <1>1, <2>1, OrdersKept
<1> QED
  BY <1>2, <1>3 DEF Generate

\* Every step of a handler keeps records and answers together.
LEMMA HandleStep ==
  ASSUME IInv, reservation \in [Orders -> ReservationRow],
         NEW r \in Requests, Handle(r)
  PROVE  IInv'
<1>1. CASE LookUp(r)
  BY <1>1, ReplayStep, GoStep DEF LookUp, Conflict, Refuse
<1>2. CASE LoadFacts(r)
  BY <1>2, LoadStep
<1>3. CASE RejectBody(r) \/ RejectImages(r) \/ PictureGone(r) \/ CannotPay(r)
  BY <1>3, GoStep DEF RejectBody, RejectImages, PictureGone, CannotPay, Refuse
<1>4. CASE CreateOrder(r)
  BY <1>4, CreateStep
<1>5. CASE ReplayLocked(r)
  BY <1>5, ReplayStep, GoStep DEF ReplayLocked, Conflict, Refuse
<1>6. CASE Answer(r)
  BY <1>6, AnswerStep
<1>7. CASE Die(r)
  BY <1>7, GoStep DEF Die
<1> QED
  BY <1>1, <1>2, <1>3, <1>4, <1>5, <1>6, <1>7 DEF Handle

\* The rows of the reservations keep their type, which Admitted needs.
LEMMA ReservationRows ==
  ASSUME reservation \in [Orders -> ReservationRow], [Next]_vars
  PROVE  reservation' \in [Orders -> ReservationRow]
<1>1. CASE UNCHANGED vars
  BY <1>1 DEF vars, creditVars
<1>2. ASSUME NEW o \in Orders, Generate(o)
      PROVE  reservation' \in [Orders -> ReservationRow]
  <2>1. CASE Submit(o) \/ CheckFunding(o) \/ DeliveryLost(o) \/ Deliver(o)
    BY <2>1 DEF Submit, CheckFunding, DeliveryLost, Deliver
  <2>2. ASSUME NEW s \in {"RELEASED", "CAPTURED"},
               reservation' = [reservation EXCEPT ![o].status = s]
        PROVE  reservation' \in [Orders -> ReservationRow]
    BY <2>2 DEF ReservationRow
  <2>3. CASE Release(o) \/ Capture(o)
    BY <2>2, <2>3 DEF Release, Capture
  <2>4. CASE RefundGeneration(o)
    <3>1. reservation' = [reservation EXCEPT ![o].refunded = TRUE]
      BY <2>4 DEF RefundGeneration
    <3> QED
      BY <3>1 DEF ReservationRow
  <2> QED
    BY <1>2, <2>1, <2>3, <2>4 DEF Generate
<1>3. ASSUME NEW r \in Requests, CreateOrder(r)
      PROVE  reservation' \in [Orders -> ReservationRow]
  <2> DEFINE o == OrderOf(r, request[r].trial)
  <2>1. PICK alloc \in [Lots -> 0..Price[o]] :
          reservation' = [reservation EXCEPT ![o].status = "RESERVED", ![o].alloc = alloc]
    BY <1>3 DEF CreateOrder, Reserve
  <2>2. alloc \in [Lots -> Nat]
    BY <2>1
  <2> QED
    BY <2>1, <2>2 DEF ReservationRow
<1>4. ASSUME NEW r \in Requests, Handle(r), ~CreateOrder(r)
      PROVE  reservation' = reservation
  BY <1>4 DEF Handle, LookUp, Replay, Conflict, Refuse, LoadFacts, RejectBody,
              RejectImages, ReplayLocked, PictureGone, CannotPay, Answer, Die, creditVars
<1>5. CASE \/ \E p \in Purchases : Buy(p)
           \/ GrantWelcome \/ \E l \in Lots : Expire(l)
           \/ DayPasses
  BY <1>5 DEF Buy, GrantWelcome, Expire, DayPasses, creditVars
<1> QED
  BY <1>1, <1>2, <1>3, <1>4, <1>5 DEF Next

\* And so does every step.
LEMMA NextKeeps ==
  ASSUME IInv, reservation \in [Orders -> ReservationRow], [Next]_vars
  PROVE  IInv'
<1>1. CASE UNCHANGED vars
  <2>1. UNCHANGED <<request, record>> /\ Admitted' = Admitted
    BY <1>1 DEF vars, creditVars, admissionVars, Admitted
  <2> QED
    BY <2>1, OrdersKept
<1>2. ASSUME NEW r \in Requests, Handle(r) PROVE IInv'
  BY <1>2, HandleStep
<1>3. ASSUME NEW o \in Orders, Generate(o) PROVE IInv'
  BY <1>3, GenerateStep
<1>4. CASE \/ \E p \in Purchases : Buy(p)
           \/ (GrantWelcome \/ \E l \in Lots : Expire(l)) /\ UNCHANGED admissionVars
           \/ DayPasses
  <2>1. UNCHANGED <<request, record>> /\ Admitted' = Admitted
    BY <1>4 DEF Buy, GrantWelcome, Expire, DayPasses, creditVars, admissionVars, Admitted
  <2> QED
    BY <2>1, OrdersKept
<1> QED
  BY <1>1, <1>2, <1>3, <1>4 DEF Next

\* At first no order has reserved anything.
LEMMA InitReservations == Init => reservation \in [Orders -> ReservationRow]
  BY DEF Init, CreditInit, ReservationRow, NoCredits

\* The inductive invariant about admission: the records are those of the orders there
\* are, and every answer is that of the record of its key.
THEOREM Invariance == Spec => [](IInv /\ reservation \in [Orders -> ReservationRow])
<1>1. Init => IInv /\ reservation \in [Orders -> ReservationRow]
  BY InitRows, InitReservations
<1>2. /\ IInv /\ reservation \in [Orders -> ReservationRow]
      /\ [Next]_vars
      => (IInv /\ reservation \in [Orders -> ReservationRow])'
  BY NextKeeps, ReservationRows
<1> QED
  BY <1>1, <1>2, PTL DEF Spec

\* However a request is repeated, delayed or overtaken by another with its key, all
\* that are answered are answered with one order, and only for one body.
THEOREM OneOrder == Spec => []OneOrderPerKey
<1>1. IInv => OneOrderPerKey
  <2> SUFFICES ASSUME IInv, NEW q \in Requests, NEW r \in Requests,
                      request[q].at = "answered", request[r].at = "answered",
                      Key[q] = Key[r]
               PROVE  request[q].answer = request[r].answer /\ Payload[q] = Payload[r]
    BY DEF OneOrderPerKey
  <2>1. [payload |-> Payload[q], order |-> request[q].answer]
          = [payload |-> Payload[r], order |-> request[r].answer]
    BY DEF IInv, AnswersFromRecord
  <2> QED
    BY <2>1
<1> QED
  BY <1>1, Invariance, PTL

\* Orders and completed records are the same set at any moment, one key for each.
THEOREM OrdersRecorded == Spec => []OrdersAreRecorded
<1>1. IInv => OrdersAreRecorded
  BY DEF IInv
<1> QED
  BY <1>1, Invariance, PTL

-----------------------------------------------------------------------------
(* The trial that the welcome grant pays for *)

Carried(o) == reservation[o].status \in {"RESERVED", "CAPTURED"}

\* A trial takes the whole welcome lot: as long as it is held or spent, there is
\* nothing left of the lot to hold for another one.
WelcomeCarriesOne ==
  /\ lot[Welcome].original <= 2
  /\ \A o \in TrialOrders : Carried(o) =>
       /\ Granted(Welcome) /\ reservation[o].alloc[Welcome] = 2
       /\ reservation[o].status = "CAPTURED" => lot[Welcome].consumed >= 2
       /\ \A q \in TrialOrders : Carried(q) => q = o

TrialInv == TypeOK /\ WelcomeCarriesOne

\* The welcome lot is neither an order nor a purchase, and a trial costs two credits.
LEMMA CreditConstants ==
  /\ Welcome \in Lots /\ Welcome \notin Orders /\ Welcome \notin Purchases
  /\ TrialOrders \subseteq Orders /\ Orders \subseteq Lots /\ Purchases \subseteq Lots
  /\ \A p \in Purchases : Credits[p] \in Nat
  /\ \A o \in Orders : Price[o] \in Nat
  /\ \A o \in TrialOrders : Price[o] = 2
<1>1. \A o \in TrialOrders : Price[o] = 2
  BY AdmissionAssumption DEF OrderOf
<1> QED
  BY <1>1, CreditAssumption DEF Lots

\* The columns of a lot are numbers; a lot that is used up has nothing to spend.
LEMMA LotColumns ==
  ASSUME NEW row \in LotRow
  PROVE  /\ row.original \in Nat /\ row.offset \in Nat /\ row.reversed \in Nat
         /\ row.frozen \in Nat /\ row.consumed \in Nat /\ Spendable(row) \in Nat
         /\ row.consumed >= row.original => Spendable(row) = 0
         /\ Spendable(row) <= row.original
<1>1. /\ row.original \in Nat /\ row.offset \in Nat /\ row.reversed \in Nat
      /\ row.frozen \in Nat /\ row.consumed \in Nat
  BY DEF LotRow
<1> QED
  BY <1>1 DEF Spendable, AtLeastZero

\* What a grant does to the columns.
LEMMA GrantColumns ==
  ASSUME CreditTypeOK, NEW l \in Lots, NEW amount \in Nat, Grant(l, amount)
  PROVE  /\ lot' \in [Lots -> LotRow] /\ account' \in [balance : Int, reserved : Nat]
         /\ lot'[l].original = amount /\ lot'[l].consumed = 0
         /\ \A m \in Lots : m # l => lot'[m] = lot[m]
<1> DEFINE repaid == Least(amount, AtLeastZero(-account.balance))
<1>1. account.balance \in Int /\ account.reserved \in Nat
  BY DEF CreditTypeOK
<1>2. repaid \in Nat
  BY <1>1 DEF Least, AtLeastZero
<1>3. lot' = [lot EXCEPT ![l] = LotOf(amount, repaid)]
  BY DEF Grant, NewLot
<1> HIDE DEF repaid
<1>4. LotOf(amount, repaid) \in LotRow
  BY <1>2 DEF LotOf, LotRow
<1>5. account' = [account EXCEPT !.balance = account.balance + amount]
  BY DEF Grant
<1>6. account' \in [balance : Int, reserved : Nat]
  BY <1>1, <1>5 DEF CreditTypeOK
<1> QED
  BY <1>3, <1>4, <1>6 DEF CreditTypeOK, LotOf

\* What a row of an order keeps when one column changes.
LEMMA OrderColumns ==
  ASSUME CreditTypeOK, NEW o \in Orders
  PROVE  /\ \A s \in {"RELEASED", "CAPTURED"} :
              [reservation EXCEPT ![o].status = s] \in [Orders -> ReservationRow]
         /\ [reservation EXCEPT ![o].refunded = TRUE] \in [Orders -> ReservationRow]
         /\ \A s \in {"submitting", "checked", "ready", "failed"} :
              [delivery EXCEPT ![o].step = s] \in [Orders -> DeliveryRow]
         /\ \A s \in {"none", "ACTIVE"} :
              [delivery EXCEPT ![o].step = "ready", ![o].entitlement = s] \in [Orders -> DeliveryRow]
<1>1. reservation \in [Orders -> ReservationRow] /\ delivery \in [Orders -> DeliveryRow]
  BY DEF CreditTypeOK
<1>2. /\ \A s \in {"RELEASED", "CAPTURED"} :
           [reservation EXCEPT ![o].status = s] \in [Orders -> ReservationRow]
      /\ [reservation EXCEPT ![o].refunded = TRUE] \in [Orders -> ReservationRow]
  BY <1>1 DEF ReservationRow
<1>3. \A s \in {"submitting", "checked", "ready", "failed"} :
        [delivery EXCEPT ![o].step = s] \in [Orders -> DeliveryRow]
  BY <1>1 DEF DeliveryRow
<1>4. \A s \in {"none", "ACTIVE"} :
        [delivery EXCEPT ![o].step = "ready", ![o].entitlement = s] \in [Orders -> DeliveryRow]
  BY <1>1 DEF DeliveryRow
<1> QED
  BY <1>2, <1>3, <1>4

\* A step after which no trial is carried that was not carried before.
LEMMA NoTrialAdded ==
  ASSUME TrialInv, CreditTypeOK',
         lot'[Welcome].original = lot[Welcome].original,
         lot'[Welcome].consumed >= lot[Welcome].consumed,
         \A o \in TrialOrders : Carried(o)' =>
           /\ Carried(o) /\ reservation'[o].alloc = reservation[o].alloc
           /\ \/ reservation'[o].status = reservation[o].status
              \/ lot'[Welcome].consumed >= 2
  PROVE  WelcomeCarriesOne'
<1>1. lot[Welcome].consumed \in Nat /\ lot'[Welcome].consumed \in Nat
  BY CreditConstants, LotColumns DEF TrialInv, TypeOK, CreditTypeOK
<1>2. lot'[Welcome].original <= 2
  BY DEF TrialInv, WelcomeCarriesOne
<1>3. ASSUME NEW o \in TrialOrders, Carried(o)'
      PROVE  /\ Granted(Welcome)' /\ reservation'[o].alloc[Welcome] = 2
             /\ reservation'[o].status = "CAPTURED" => lot'[Welcome].consumed >= 2
             /\ \A q \in TrialOrders : Carried(q)' => q = o
  <2>1. /\ Granted(Welcome) /\ reservation[o].alloc[Welcome] = 2
        /\ reservation[o].status = "CAPTURED" => lot[Welcome].consumed >= 2
        /\ \A q \in TrialOrders : Carried(q) => q = o
    BY <1>3 DEF TrialInv, WelcomeCarriesOne
  <2> QED
    BY <1>1, <1>3, <2>1 DEF Granted
<1> QED
  BY <1>2, <1>3 DEF WelcomeCarriesOne

\* A trial is reserved only when no other one is carried, and takes both credits.
LEMMA ReserveTrial ==
  ASSUME TrialInv, NEW o \in TrialOrders, Reserve(o)
  PROVE  /\ reservation'[o].alloc[Welcome] = 2 /\ Granted(Welcome)
         /\ \A q \in TrialOrders : ~Carried(q)
<1> DEFINE avail == Available(o)
           sooner == {m \in Lots : ExpiryRank[m] < ExpiryRank[Welcome]}
           taken == [q \in Orders |-> reservation[q].alloc[Welcome]]
<1>1. /\ lot \in [Lots -> LotRow] /\ reservation \in [Orders -> ReservationRow]
      /\ Welcome \in Lots /\ o \in Orders /\ Price[o] = 2
  BY CreditConstants DEF TrialInv, TypeOK, CreditTypeOK
<1>2. IsFiniteSet(Lots) /\ IsFiniteSet(Orders)
  BY CreditAssumption, FS_Singleton, FS_Union DEF Lots
<1>3. /\ \A q \in Orders : taken[q] \in Nat
      /\ Held(Welcome) = SumFunctionOnSet(taken, Holding)
      /\ Holding \subseteq Orders /\ IsFiniteSet(Holding)
  BY <1>1, <1>2, FS_Subset DEF ReservationRow, Held, Holding
<1>4. Held(Welcome) \in Nat /\ \A q \in Holding : taken[q] <= Held(Welcome)
  <2>1. /\ \A q \in Holding : taken[q] \in Int /\ taken[q] >= 0
        /\ \A q \in Holding : taken[q] \in Nat
    BY <1>3
  <2> HIDE DEF taken
  <2>2. SumFunctionOnSet(taken, Holding) \in Nat
    BY <1>3, <2>1, SumType
  <2>3. \A q \in Holding : taken[q] <= SumFunctionOnSet(taken, Holding)
    BY <1>3, <2>1, SumMember
  <2> QED
    BY <1>3, <2>2, <2>3
<1>5. Spendable(lot[Welcome]) \in Nat /\ Spendable(lot[Welcome]) <= lot[Welcome].original
      /\ lot[Welcome].original \in Nat /\ lot[Welcome].consumed \in Nat
      /\ (lot[Welcome].consumed >= lot[Welcome].original => Spendable(lot[Welcome]) = 0)
  BY <1>1, LotColumns
<1>6. Allowed(o) = {Welcome}
  BY DEF Allowed
<1>7. /\ avail[Welcome] \in Nat /\ \A l \in Lots : l # Welcome => avail[l] = 0
      /\ avail[Welcome] > 0 => avail[Welcome] = Spendable(lot[Welcome]) - Held(Welcome)
  BY <1>1, <1>4, <1>5, <1>6 DEF Available, AtLeastZero
<1>8. SumFunction(avail) = SumFunctionOnSet(avail, Lots) /\ SumFunction(avail) >= 2
  BY <1>1 DEF Reserve, MayReserve, Available, SumFunction
<1>9. reservation'[o].alloc = FefoAllocation(2, avail)
  BY <1>1 DEF Reserve, ReservationRow
<1> HIDE DEF avail
<1>10. \A l \in Lots : avail[l] \in Nat
  BY <1>7
<1>11. SumFunctionOnSet(avail, Lots) = avail[Welcome]
  <2>1. SumFunctionOnSet(avail, {Welcome}) = SumFunctionOnSet(avail, Lots)
    <3>1. {Welcome} \in SUBSET Lots /\ \A l \in Lots \ {Welcome} : avail[l] = 0
      BY <1>1, <1>7
    <3> QED
      BY <1>2, <1>10, <3>1, SumSubset
  <2>2. SumFunctionOnSet(avail, {} \cup {Welcome}) = SumFunctionOnSet(avail, {}) + avail[Welcome]
    BY <1>7, SumInsert, FS_EmptySet
  <2>3. SumFunctionOnSet(avail, {}) = 0 /\ {} \cup {Welcome} = {Welcome}
    BY SumEmpty
  <2> QED
    BY <1>7, <2>1, <2>2, <2>3
<1>12. SumFunctionOnSet(avail, sooner) = 0
  <2>1. /\ IsFiniteSet(sooner) /\ {} \in SUBSET sooner
        /\ \A l \in sooner : avail[l] \in Nat /\ avail[l] = 0
    <3>1. sooner \subseteq Lots /\ Welcome \notin sooner
      BY <1>1, CreditAssumption
    <3> QED
      BY <1>2, <1>7, <3>1, FS_Subset
  <2> HIDE DEF sooner
  <2> QED
    BY <2>1, SumSubset, SumEmpty
<1>13. FefoAllocation(2, avail)[Welcome] = Least(avail[Welcome], AtLeastZero(2 - SumFunctionOnSet(avail, sooner)))
  BY <1>1 DEF FefoAllocation
<1>14. avail[Welcome] >= 2 /\ FefoAllocation(2, avail)[Welcome] = 2
  BY <1>7, <1>8, <1>11, <1>12, <1>13 DEF Least, AtLeastZero
<1>15. Spendable(lot[Welcome]) >= 2 + Held(Welcome)
  BY <1>4, <1>5, <1>7, <1>14
<1>16. lot[Welcome].original <= 2
  BY DEF TrialInv, WelcomeCarriesOne
<1>17. ASSUME NEW q \in TrialOrders, Carried(q) PROVE FALSE
  <2>1. /\ reservation[q].alloc[Welcome] = 2 /\ q \in Orders
        /\ reservation[q].status = "CAPTURED" => lot[Welcome].consumed >= 2
    BY <1>17, CreditConstants DEF TrialInv, WelcomeCarriesOne
  <2>2. CASE reservation[q].status = "CAPTURED"
    BY <1>4, <1>5, <1>15, <1>16, <2>1, <2>2
  <2>3. CASE reservation[q].status = "RESERVED"
    <3>1. q \in Holding /\ taken[q] = 2
      BY <2>1, <2>3 DEF Holding
    <3> HIDE DEF taken
    <3>2. 2 <= Held(Welcome)
      BY <1>4, <3>1
    <3> QED
      BY <1>4, <1>5, <1>15, <1>16, <3>2
  <2> QED
    BY <1>17, <2>2, <2>3 DEF Carried
<1> QED
  BY <1>4, <1>5, <1>9, <1>14, <1>15, <1>17 DEF Granted

\* A reservation leaves at most one trial on the welcome lot.
LEMMA ReserveCarries ==
  ASSUME TrialInv, NEW o \in Orders, Reserve(o)
  PROVE  CreditTypeOK' /\ WelcomeCarriesOne'
<1>1. /\ reservation \in [Orders -> ReservationRow] /\ Price[o] \in Nat /\ lot' = lot
      /\ account \in [balance : Int, reserved : Nat]
  BY CreditConstants DEF TrialInv, TypeOK, CreditTypeOK, Reserve
<1>2. PICK alloc \in [Lots -> 0..Price[o]] :
        reservation' = [reservation EXCEPT ![o].status = "RESERVED", ![o].alloc = alloc]
  BY DEF Reserve
<1>3. alloc \in [Lots -> Nat]
  BY <1>1, <1>2
<1>4. reservation' \in [Orders -> ReservationRow]
  BY <1>1, <1>2, <1>3 DEF ReservationRow
<1>5. account' \in [balance : Int, reserved : Nat]
  BY <1>1 DEF Reserve
<1>6. CreditTypeOK'
  BY <1>4, <1>5 DEF Reserve, TrialInv, TypeOK, CreditTypeOK
<1>7. \A q \in Orders : q # o => reservation'[q] = reservation[q]
  BY <1>1, <1>2
<1>8. reservation'[o].status = "RESERVED"
  BY <1>1, <1>2 DEF ReservationRow
<1>9. CASE o \notin TrialOrders
  <2>1. \A q \in TrialOrders : q \in Orders /\ q # o
    BY <1>9, CreditConstants
  <2>2. lot[Welcome].consumed \in Nat
    BY CreditConstants, LotColumns DEF TrialInv, TypeOK, CreditTypeOK
  <2> QED
    BY <1>1, <1>6, <1>7, <2>1, <2>2, NoTrialAdded DEF Carried
<1>10. CASE o \in TrialOrders
  <2>1. /\ reservation'[o].alloc[Welcome] = 2 /\ Granted(Welcome)
        /\ \A q \in TrialOrders : ~Carried(q)
    BY <1>10, ReserveTrial
  <2>2. \A q \in TrialOrders : Carried(q)' => q = o
    BY <1>7, <2>1, CreditConstants DEF Carried
  <2>3. lot'[Welcome].original <= 2 /\ Granted(Welcome)'
    BY <1>1, <2>1 DEF TrialInv, WelcomeCarriesOne, Granted
  <2> QED
    BY <1>6, <1>8, <2>1, <2>2, <2>3 DEF WelcomeCarriesOne
<1> QED
  BY <1>6, <1>9, <1>10

\* Grants: the welcome grant is given once, before any trial; others have a lot of
\* their own.
LEMMA GrantCarries ==
  ASSUME TrialInv, NEW l \in Lots, NEW amount \in Nat, Grant(l, amount),
         l = Welcome => ~Granted(Welcome) /\ amount <= 2,
         CreditTypeOK',
         \A o \in Orders : /\ reservation'[o].status = reservation[o].status
                           /\ reservation'[o].alloc = reservation[o].alloc
  PROVE  WelcomeCarriesOne'
<1>1. /\ lot'[l].original = amount /\ lot'[l].consumed = 0
      /\ \A m \in Lots : m # l => lot'[m] = lot[m]
  BY GrantColumns DEF TrialInv, TypeOK
<1>2. CASE l = Welcome
  <2>1. \A o \in TrialOrders : ~Carried(o)
    BY <1>2 DEF TrialInv, WelcomeCarriesOne
  <2>2. \A o \in TrialOrders : ~Carried(o)'
    BY <2>1, CreditConstants DEF Carried
  <2> QED
    BY <1>1, <1>2, <2>2 DEF WelcomeCarriesOne
<1>3. CASE l # Welcome
  <2>1. lot'[Welcome] = lot[Welcome] /\ lot[Welcome].consumed \in Nat
    BY <1>1, <1>3, CreditConstants, LotColumns DEF TrialInv, TypeOK, CreditTypeOK
  <2>2. \A o \in TrialOrders : o \in Orders
    BY CreditConstants
  <2> QED
    BY <2>1, <2>2, NoTrialAdded DEF Carried
<1> QED
  BY <1>2, <1>3

\* Generating an order keeps the welcome lot with one trial: a capture consumes the lot,
\* a release gives it up.
LEMMA GenerateCarries ==
  ASSUME TrialInv, NEW o \in Orders, Generate(o)
  PROVE  CreditTypeOK' /\ WelcomeCarriesOne'
<1>1. /\ lot \in [Lots -> LotRow] /\ reservation \in [Orders -> ReservationRow]
      /\ account \in [balance : Int, reserved : Nat] /\ expired \subseteq Lots
      /\ delivery \in [Orders -> DeliveryRow] /\ CreditTypeOK
      /\ Price[o] \in Nat /\ Welcome \in Lots /\ \A q \in TrialOrders : q \in Orders
  BY CreditConstants DEF TrialInv, TypeOK, CreditTypeOK
<1>2. lot[Welcome].consumed \in Nat /\ lot[Welcome].original \in Nat
  BY <1>1, LotColumns
<1>3. CASE Submit(o) \/ CheckFunding(o) \/ DeliveryLost(o) \/ Deliver(o)
  <2>1. delivery' \in [Orders -> DeliveryRow]
    <3>1. CASE Deliver(o)
      <4>1. (IF o \in TrialOrders THEN "none" ELSE "ACTIVE") \in {"none", "ACTIVE"}
        OBVIOUS
      <4> QED
        BY <1>1, <3>1, <4>1, OrderColumns DEF Deliver
    <3>2. ASSUME NEW at \in {"submitting", "checked", "ready", "failed"},
                 delivery' = [delivery EXCEPT ![o].step = at]
          PROVE  delivery' \in [Orders -> DeliveryRow]
      BY <1>1, <3>2, OrderColumns
    <3> QED
      BY <1>3, <3>1, <3>2 DEF Submit, CheckFunding, DeliveryLost
  <2>2. UNCHANGED <<account, lot, expired, reservation>>
    BY <1>3 DEF Submit, CheckFunding, DeliveryLost, Deliver
  <2>3. CreditTypeOK'
    BY <1>1, <2>1, <2>2 DEF CreditTypeOK
  <2> QED
    BY <1>1, <1>2, <2>2, <2>3, NoTrialAdded DEF Carried
<1>4. CASE Release(o)
  <2>1. reservation' = [reservation EXCEPT ![o].status = "RELEASED"]
    BY <1>4 DEF Release
  <2>2. reservation' \in [Orders -> ReservationRow] /\ delivery' \in [Orders -> DeliveryRow]
    <3>1. delivery' = [delivery EXCEPT ![o].step = "failed"]
      BY <1>4 DEF Release
    <3> QED
      BY <1>1, <2>1, <3>1, OrderColumns
  <2>3. account' \in [balance : Int, reserved : Nat] /\ UNCHANGED <<lot, expired>>
    BY <1>1, <1>4 DEF Release
  <2>4. CreditTypeOK'
    BY <1>1, <2>2, <2>3 DEF CreditTypeOK
  <2>5. /\ ~Carried(o)'
        /\ \A q \in Orders : q # o => reservation'[q] = reservation[q]
    BY <1>1, <2>1 DEF Carried, ReservationRow
  <2>6. \A q \in TrialOrders : Carried(q)' =>
          Carried(q) /\ reservation'[q].alloc = reservation[q].alloc
          /\ reservation'[q].status = reservation[q].status
    BY <1>1, <2>5 DEF Carried
  <2> QED
    BY <1>2, <2>3, <2>4, <2>6, NoTrialAdded
<1>5. CASE Capture(o)
  <2>1. reservation' = [reservation EXCEPT ![o].status = "CAPTURED"]
    BY <1>5 DEF Capture
  <2>2. reservation' \in [Orders -> ReservationRow]
    BY <1>1, <2>1, OrderColumns
  <2>3. reservation[o].alloc \in [Lots -> Nat]
    BY <1>1 DEF ReservationRow
  <2>4. lot' \in [Lots -> LotRow]
    <3>1. \A l \in Lots : [lot[l] EXCEPT !.consumed = @ + reservation[o].alloc[l]] \in LotRow
      <4> TAKE l \in Lots
      <4>1. lot[l] \in LotRow /\ lot[l].consumed + reservation[o].alloc[l] \in Nat
        BY <1>1, <2>3, LotColumns
      <4> QED
        BY <4>1 DEF LotRow
    <3> QED
      BY <1>5, <3>1 DEF Capture
  <2>5. account' \in [balance : Int, reserved : Nat] /\ UNCHANGED <<expired, delivery>>
    <3>1. account.balance - Price[o] \in Int /\ account.reserved - Price[o] \in Nat
      BY <1>1, <1>5 DEF Capture, LotsCover
    <3> QED
      BY <1>5, <3>1 DEF Capture
  <2>6. CreditTypeOK'
    BY <1>1, <2>2, <2>4, <2>5 DEF CreditTypeOK
  <2>7. /\ lot'[Welcome].original = lot[Welcome].original
        /\ lot'[Welcome].consumed = lot[Welcome].consumed + reservation[o].alloc[Welcome]
    BY <1>1, <1>5 DEF Capture, LotRow
  <2>8. lot'[Welcome].consumed >= lot[Welcome].consumed
    BY <1>1, <1>2, <2>3, <2>7
  <2>9. \A q \in TrialOrders : Carried(q)' =>
          /\ Carried(q) /\ reservation'[q].alloc = reservation[q].alloc
          /\ reservation'[q].status = reservation[q].status \/ lot'[Welcome].consumed >= 2
    <3> SUFFICES ASSUME NEW q \in TrialOrders, Carried(q)'
                 PROVE  /\ Carried(q) /\ reservation'[q].alloc = reservation[q].alloc
                        /\ reservation'[q].status = reservation[q].status \/ lot'[Welcome].consumed >= 2
      OBVIOUS
    <3>1. CASE q # o
      BY <1>1, <2>1, <3>1 DEF Carried
    <3>2. CASE q = o
      <4>1. Carried(q) /\ reservation'[q].alloc = reservation[q].alloc
        BY <1>1, <1>5, <2>1, <3>2 DEF Capture, Carried, ReservationRow
      <4>2. reservation[o].alloc[Welcome] = 2
        BY <3>2, <4>1 DEF TrialInv, WelcomeCarriesOne
      <4> QED
        BY <1>2, <2>7, <4>1, <4>2
    <3> QED
      BY <3>1, <3>2
  <2> QED
    BY <2>6, <2>7, <2>8, <2>9, NoTrialAdded
<1>6. CASE RefundGeneration(o)
  <2>1. reservation' = [reservation EXCEPT ![o].refunded = TRUE]
    BY <1>6 DEF RefundGeneration
  <2>2. reservation' \in [Orders -> ReservationRow] /\ delivery' \in [Orders -> DeliveryRow]
    <3>1. delivery' = [delivery EXCEPT ![o].step = "failed"]
      BY <1>6 DEF RefundGeneration
    <3> QED
      BY <1>1, <2>1, <3>1, OrderColumns
  <2>3. Grant(o, Price[o]) /\ UNCHANGED expired /\ o \in Lots /\ o # Welcome
    BY <1>6, CreditConstants DEF RefundGeneration
  <2>4. lot' \in [Lots -> LotRow] /\ account' \in [balance : Int, reserved : Nat]
    BY <1>1, <2>3, GrantColumns
  <2>5. CreditTypeOK'
    BY <1>1, <2>2, <2>3, <2>4 DEF CreditTypeOK
  <2>6. \A q \in Orders : /\ reservation'[q].status = reservation[q].status
                          /\ reservation'[q].alloc = reservation[q].alloc
    BY <1>1, <2>1 DEF ReservationRow
  <2> QED
    BY <1>1, <2>3, <2>5, <2>6, GrantCarries
<1> QED
  BY <1>3, <1>4, <1>5, <1>6 DEF Generate

\* A handler touches the credits only when it admits an order.
LEMMA HandleCarries ==
  ASSUME TrialInv, NEW r \in Requests, Handle(r), RowsOK
  PROVE  CreditTypeOK' /\ WelcomeCarriesOne'
<1>1. CASE CreateOrder(r)
  <2>1. OrderOf(r, request[r].trial) \in Orders
    BY OrderOfIsOrder DEF RowsOK, RequestRow
  <2> QED
    BY <1>1, <2>1, ReserveCarries DEF CreateOrder
<1>2. CASE ~CreateOrder(r)
  <2>1. UNCHANGED creditVars
    BY <1>2 DEF Handle, LookUp, Replay, Conflict, Refuse, LoadFacts, RejectBody,
                RejectImages, ReplayLocked, PictureGone, CannotPay, Answer, Die
  <2> QED
    BY <2>1 DEF creditVars, TrialInv, TypeOK, CreditTypeOK, WelcomeCarriesOne, Carried, Granted
<1> QED
  BY <1>1, <1>2

\* No step puts a second trial on the welcome lot.
LEMMA CreditsCarry ==
  ASSUME TrialInv, RowsOK, [Next]_vars
  PROVE  CreditTypeOK' /\ WelcomeCarriesOne'
<1>1. CreditTypeOK /\ Welcome \in Lots
  BY CreditConstants DEF TrialInv, TypeOK
<1>2. ASSUME NEW r \in Requests, Handle(r) PROVE CreditTypeOK' /\ WelcomeCarriesOne'
  BY <1>2, HandleCarries
<1>3. ASSUME NEW o \in Orders, Generate(o) PROVE CreditTypeOK' /\ WelcomeCarriesOne'
  BY <1>3, GenerateCarries
<1>4. ASSUME NEW l \in Lots, NEW amount \in Nat, Grant(l, amount),
             l = Welcome => ~Granted(Welcome) /\ amount <= 2,
             UNCHANGED <<expired, reservation, delivery>>
      PROVE  CreditTypeOK' /\ WelcomeCarriesOne'
  <2>1. lot' \in [Lots -> LotRow] /\ account' \in [balance : Int, reserved : Nat]
    BY <1>1, <1>4, GrantColumns
  <2>2. CreditTypeOK'
    BY <1>1, <1>4, <2>1 DEF CreditTypeOK
  <2> QED
    BY <1>4, <2>2, GrantCarries
<1>5. ASSUME NEW p \in Purchases, Buy(p) PROVE CreditTypeOK' /\ WelcomeCarriesOne'
  <2>1. p \in Lots /\ p # Welcome /\ Credits[p] \in Nat
    BY CreditConstants
  <2> QED
    BY <1>4, <1>5, <2>1 DEF Buy
<1>6. CASE GrantWelcome
  BY <1>1, <1>4, <1>6 DEF GrantWelcome
<1>7. CASE (\E l \in Lots : Expire(l)) \/ DayPasses \/ UNCHANGED vars
  <2>1. UNCHANGED <<account, lot, reservation, delivery>> /\ expired' \subseteq Lots
    BY <1>1, <1>7 DEF Expire, DayPasses, vars, creditVars, CreditTypeOK
  <2> QED
    BY <1>1, <2>1 DEF CreditTypeOK, TrialInv, WelcomeCarriesOne, Carried, Granted
<1> QED
  BY <1>2, <1>3, <1>5, <1>6, <1>7 DEF Next

\* The list of recent trials grows by a trial and loses its oldest.
LEMMA RecentRows ==
  ASSUME recent \in Seq(TrialOrders), RowsOK, [Next]_vars
  PROVE  recent' \in Seq(TrialOrders)
<1>1. ASSUME NEW r \in Requests, CreateOrder(r)
      PROVE  recent' \in Seq(TrialOrders)
  <2> DEFINE o == OrderOf(r, request[r].trial)
  <2>1. CASE o \in TrialOrders
    <3>1. recent' = Append(recent, o)
      BY <1>1, <2>1 DEF CreateOrder, Counted
    <3> HIDE DEF o
    <3> QED
      BY <2>1, <3>1
  <2>2. CASE o \notin TrialOrders
    BY <1>1, <2>2 DEF CreateOrder, Counted
  <2> QED
    BY <2>1, <2>2
<1>2. CASE DayPasses
  BY <1>2 DEF DayPasses
<1>3. CASE /\ ~DayPasses
           /\ \A r \in Requests : ~CreateOrder(r)
  <2>1. UNCHANGED recent
    BY <1>3 DEF Next, Handle, LookUp, Replay, Conflict, Refuse, LoadFacts, RejectBody,
                RejectImages, ReplayLocked, PictureGone, CannotPay, Answer, Die, Generate,
                Buy, admissionVars, vars
  <2> QED
    BY <2>1
<1> QED
  BY <1>1, <1>2, <1>3

\* At first the welcome lot carries nothing.
LEMMA InitTrial == Init => TrialInv
<1> SUFFICES ASSUME Init PROVE TrialInv
  OBVIOUS
<1>1. LotOf(0, 0) \in LotRow /\ LotOf(0, 0).original = 0
  BY DEF LotOf, LotRow
<1>2. /\ lot \in [Lots -> LotRow] /\ lot[Welcome].original = 0
      /\ reservation \in [Orders -> ReservationRow]
      /\ \A o \in Orders : reservation[o].status = "none"
  BY <1>1, CreditConstants, InitReservations DEF Init, CreditInit
<1>3. delivery \in [Orders -> DeliveryRow]
  <2>1. \A o \in Orders : [step |-> "none", entitlement |-> "none", unlock |-> o] \in DeliveryRow
    BY CreditConstants DEF DeliveryRow
  <2> QED
    BY <2>1 DEF Init, CreditInit
<1>4. CreditTypeOK
  <2>1. account \in [balance : Int, reserved : Nat] /\ expired \subseteq Lots
    BY DEF Init, CreditInit
  <2> QED
    BY <1>2, <1>3, <2>1 DEF CreditTypeOK
<1>5. WelcomeCarriesOne
  <2>1. \A o \in TrialOrders : ~Carried(o)
    BY <1>2, CreditConstants DEF Carried
  <2>2. lot[Welcome].original <= 2
    BY <1>2
  <2> QED
    BY <2>1, <2>2 DEF WelcomeCarriesOne
<1>6. TypeOK
  <2>1. RowsOK
    BY InitRows DEF IInv
  <2>2. recent \in Seq(TrialOrders)
    <3>1. recent = <<>>
      BY DEF Init
    <3> QED
      BY <3>1
  <2> QED
    BY <1>4, <2>1, <2>2 DEF TypeOK, RowsOK
<1> QED
  BY <1>5, <1>6 DEF TrialInv

\* The welcome lot pays for one trial and not for a second.
THEOREM TrialInvariant == Spec => []TrialInv
<1>1. IInv => RowsOK
  BY DEF IInv
<1>2. TrialInv /\ RowsOK /\ RowsOK' /\ [Next]_vars => TrialInv'
  BY CreditsCarry, RecentRows DEF TrialInv, TypeOK, RowsOK
<1> QED
  BY <1>1, <1>2, InitTrial, Invariance, PTL DEF Spec

\* However many admissions were decided on facts that are no longer true, the welcome
\* grant carries one trial at a time, and one that is paid for good.
THEOREM OneTrial == Spec => []OneTrialAtATime
<1>1. TrialInv => OneTrialAtATime
  <2> SUFFICES ASSUME TrialInv PROVE OneTrialAtATime
    OBVIOUS
  <2> DEFINE Live == {o \in TrialOrders :
                        \/ reservation[o].status = "RESERVED"
                        \/ reservation[o].status = "CAPTURED" /\ ~reservation[o].refunded}
  <2>1. \A o, q \in Live : o = q
    BY DEF TrialInv, WelcomeCarriesOne, Carried
  <2>2. Cardinality(Live) <= 1
    <3> HIDE DEF Live
    <3>1. CASE Live = {}
      BY <3>1, FS_EmptySet
    <3>2. ASSUME NEW o \in Live PROVE Cardinality(Live) <= 1
      <4>1. Live = {o}
        BY <2>1
      <4> QED
        BY <4>1, FS_Singleton
    <3> QED
      BY <3>1, <3>2
  <2> QED
    BY <2>2 DEF TrialInv, OneTrialAtATime
<1> QED
  BY <1>1, TrialInvariant, PTL

=============================================================================
