--------------------------- MODULE PictureProofs ---------------------------
(***************************************************************************)
(* Theorems about pictures: the uploads of a user (Uploads), for any       *)
(* number of requests and of files and for any limits, and the deletion of *)
(* what an order is made from and makes (MediaDeletion), for any numbers   *)
(* of sources and of concurrent clean-ups.                                 *)
(***************************************************************************)
EXTENDS Uploads, MediaDeletion, SumTheorems, TLAPS

-----------------------------------------------------------------------------
(* The parts of the requests *)

\* A part is named by its request and its number.
LEMMA PartNames ==
  /\ \A b \in Batches : \A n \in 1..Files[b] : <<b, n>> \in PartIds
  /\ \A p \in PartIds : p[1] \in Batches /\ p[2] \in 1..Files[p[1]] /\ p = <<p[1], p[2]>>
  /\ \A b \in Batches : Files[b] \in Nat /\ Files[b] > 0
<1>1. \A b \in Batches : Files[b] \in Nat /\ Files[b] > 0
  BY UploadAssumption
<1>2. \A b \in Batches : \A n \in 1..Files[b] : <<b, n>> \in PartIds
  BY DEF PartIds
<1>3. ASSUME NEW p \in PartIds
      PROVE  p[1] \in Batches /\ p[2] \in 1..Files[p[1]] /\ p = <<p[1], p[2]>>
  <2>1. PICK b \in Batches : p \in {b} \X (1..Files[b])
    BY DEF PartIds
  <2> QED
    BY <2>1
<1> QED
  BY <1>1, <1>2, <1>3

\* There are finitely many, so that sets of them can be counted and added up.
LEMMA PartsFinite ==
  /\ IsFiniteSet(PartIds) /\ IsFiniteSet(Batches)
  /\ \A T \in SUBSET PartIds : IsFiniteSet(T) /\ Cardinality(T) \in Nat
  /\ \A T \in SUBSET Batches : IsFiniteSet(T) /\ Cardinality(T) \in Nat
<1> DEFINE Of(T) == {p \in PartIds : p[1] \in T}
           Good == {T \in SUBSET Batches : IsFiniteSet(Of(T))}
<1>1. IsFiniteSet(Batches)
  BY UploadAssumption
<1>2. {} \in Good
  <2>1. Of({}) = {}
    OBVIOUS
  <2> QED
    BY <2>1, FS_EmptySet
<1>3. ASSUME NEW T \in SUBSET Batches, NEW b \in Batches \ T, T \in Good
      PROVE  T \cup {b} \in Good
  <2>1. IsFiniteSet({b}) /\ IsFiniteSet(1..Files[b])
    <3>1. Files[b] \in Int
      BY PartNames
    <3> DEFINE n == Files[b]
    <3>2. n \in Int /\ 1 \in Int
      BY <3>1
    <3> HIDE DEF n
    <3>3. IsFiniteSet(1..n)
      BY <3>2, FS_Interval
    <3>4. IsFiniteSet({b})
      BY FS_Singleton
    <3> QED
      BY <3>3, <3>4 DEF n
  <2>2. IsFiniteSet({b} \X (1..Files[b]))
    BY <2>1, FS_Product
  <2>3. Of(T \cup {b}) \subseteq Of(T) \cup ({b} \X (1..Files[b]))
    <3> SUFFICES ASSUME NEW p \in PartIds, p[1] = b PROVE p \in {b} \X (1..Files[b])
      OBVIOUS
    <3> QED
      BY PartNames
  <2>4. IsFiniteSet(Of(T) \cup ({b} \X (1..Files[b])))
    BY <1>3, <2>2, FS_Union
  <2> HIDE DEF Of
  <2>5. IsFiniteSet(Of(T \cup {b}))
    BY <2>3, <2>4, FS_Subset
  <2> QED
    BY <2>5
<1>4. \A T \in SUBSET Batches : T \in Good
  <2> HIDE DEF Good
  <2> QED
    BY <1>1, <1>2, <1>3, SetInduction
<1>5. Of(Batches) = PartIds
  BY PartNames
<1>6. IsFiniteSet(PartIds)
  BY <1>4, <1>5
<1> QED
  BY <1>1, <1>6, FS_Subset, FS_CardinalityType

-----------------------------------------------------------------------------
(* The invariant *)

\* The handler reads its parts one after the other; unless its lease was recovered,
\* the part it reads is RESERVED and its batch has its slot.
HandlerOK(b) ==
  /\ request[b].at = "none" => batch[b].status = "none" /\ ~batch[b].released
  /\ request[b].at # "none" => batch[b].status # "none"
  /\ request[b].part <= Files[b]
  /\ \A n \in 1..Files[b] : part[<<b, n>>].status = "none" <=> n > request[b].part
  /\ request[b].at = "reading" => request[b].part >= 1
  /\ request[b].at = "reading" /\ b \notin overtaken => part[Current(b)].status = "RESERVED"
  /\ Alive(b) /\ b \notin overtaken => ~batch[b].released

HandlerInv == \A b \in Batches : HandlerOK(b)

TypesInv == TypeOK /\ HandlerInv

\* What the type invariant says of single columns.
LEMMA Columns ==
  ASSUME TypeOK
  PROVE  /\ clock.day \in Days /\ clock.requests \in 0..HourlyRequests /\ clock.day \in Nat
         /\ slots \in Nat /\ slots <= MaxConcurrent
         /\ \A d \in Days : window[d].attempted \in Nat /\ window[d].reserved \in Nat
         /\ \A b \in Batches : /\ batch[b] \in BatchRow /\ request[b] \in RequestRow
                               /\ request[b].part \in Nat /\ request[b].read \in 0..PartMax + 1
                               /\ request[b].at \in Steps /\ batch[b].released \in BOOLEAN
         /\ \A p \in PartIds : /\ part[p] \in PartRow /\ part[p].actual \in 0..PartMax + 1
                               /\ part[p].day \in Days /\ part[p].actual \in Nat
                               /\ part[p].status \in {"none", "RESERVED", "SETTLED", "RELEASED"}
         /\ PartMax \in Nat /\ PartMax > 0 /\ Days \subseteq Nat
         /\ MaxConcurrent \in Nat /\ HourlyRequests \in Nat /\ DailyBytes \in Nat
<1> USE UploadAssumption DEF TypeOK
<1>1. clock.day \in Days /\ clock.requests \in 0..HourlyRequests /\ clock.day \in Nat
  OBVIOUS
<1>2. slots \in Nat /\ slots <= MaxConcurrent
  OBVIOUS
<1>3. \A d \in Days : window[d].attempted \in Nat /\ window[d].reserved \in Nat
  OBVIOUS
<1>4. \A b \in Batches : /\ batch[b] \in BatchRow /\ request[b] \in RequestRow
                         /\ request[b].part \in Nat /\ request[b].read \in 0..PartMax + 1
                         /\ request[b].at \in Steps /\ batch[b].released \in BOOLEAN
  BY DEF BatchRow, RequestRow
<1>5. \A p \in PartIds : /\ part[p] \in PartRow /\ part[p].actual \in 0..PartMax + 1
                         /\ part[p].day \in Days /\ part[p].actual \in Nat
                         /\ part[p].status \in {"none", "RESERVED", "SETTLED", "RELEASED"}
  BY DEF PartRow
<1> QED
  BY <1>1, <1>2, <1>3, <1>4, <1>5

\* The part that is read is one of the request's.
LEMMA CurrentIsPart ==
  ASSUME TypesInv, NEW b \in Batches, request[b].at = "reading"
  PROVE  Current(b) \in PartIds /\ request[b].part \in 1..Files[b]
<1>1. request[b].part \in 1..Files[b]
  BY Columns, PartNames DEF TypesInv, HandlerInv, HandlerOK
<1> QED
  BY <1>1, PartNames DEF Current

\* What a set of parts has read adds up to a number.
LEMMA ChargedType ==
  ASSUME TypeOK, NEW T \in SUBSET PartIds
  PROVE  Charged(T) \in Nat
<1> DEFINE f == [p \in PartIds |-> part[p].actual]
<1>1. \A p \in T : f[p] \in Int /\ f[p] >= 0
  BY Columns
<1> HIDE DEF f
<1>2. SumFunctionOnSet(f, T) \in Nat
  BY <1>1, PartsFinite, SumType
<1> QED
  BY <1>2 DEF Charged, f

\* The rows that a step of the handler leaves behind.
LEMMA GoType ==
  ASSUME TypeOK, NEW b \in Batches, NEW at \in Steps, Go(b, at)
  PROVE  request' \in [Batches -> RequestRow]
  BY DEF TypeOK, Go, RequestRow

\* A batch may take any status.
LEMMA StatusType ==
  ASSUME TypeOK, NEW b \in Batches, NEW s \in {"PENDING_UPLOAD", "ACTIVE", "UPLOAD_FAILED"},
         batch' = [batch EXCEPT ![b].status = s]
  PROVE  batch' \in [Batches -> BatchRow]
  BY DEF TypeOK, BatchRow

\* A handler that is refused for its daily bytes closes nothing, as if it had died.
LEMMA RefusedAsCrashed == \A b \in Batches : RefuseOverLimit(b) => Crash(b)
  BY DEF RefuseOverLimit, Crash, Alive

\* Steps that move a handler and its media, and perhaps the status of its batch.
Moves(b) ==
  \/ RejectHeaders(b) \/ PersistIntents(b) \/ (\E p \in PartIds : PutObject(b, p))
  \/ Activate(b) \/ StoreFails(b) \/ MarkForDeletion(b) \/ DeleteObjects(b)
  \/ RecordDeleted(b) \/ CloseBatch(b) \/ Crash(b)

\* Where a handler that is alive goes, and that it leaves everything else as it is.
LEMMA MoveShape ==
  ASSUME TypeOK, NEW b \in Batches, Moves(b)
  PROVE  /\ \E at \in Steps \ {"none", "reading", "headers"} : Go(b, at) \/ UNCHANGED request
         /\ \/ UNCHANGED batch
            \/ \E s \in {"ACTIVE", "UPLOAD_FAILED"} : batch' = [batch EXCEPT ![b].status = s]
         /\ Alive(b)
         /\ UNCHANGED <<clock, slots, window, part, overtaken>>
<1> USE DEF Steps, Alive
<1>1. CASE RejectHeaders(b)
  BY <1>1 DEF RejectHeaders, Media
<1>2. CASE PersistIntents(b)
  BY <1>2 DEF PersistIntents
<1>3. CASE \E p \in PartIds : PutObject(b, p)
  BY <1>3 DEF PutObject
<1>4. CASE Activate(b)
  BY <1>4 DEF Activate
<1>5. CASE StoreFails(b)
  BY <1>5 DEF StoreFails
<1>6. CASE MarkForDeletion(b) \/ DeleteObjects(b) \/ RecordDeleted(b)
  BY <1>6 DEF MarkForDeletion, DeleteObjects, RecordDeleted
<1>7. CASE CloseBatch(b)
  BY <1>7 DEF CloseBatch
<1>8. CASE Crash(b)
  BY <1>8 DEF Crash
<1> QED
  BY <1>1, <1>2, <1>3, <1>4, <1>5, <1>6, <1>7, <1>8 DEF Moves

\* Those steps leave images in states that exist, and objects of parts that exist.
LEMMA MoveMedia ==
  ASSUME TypeOK, NEW b \in Batches, Moves(b)
  PROVE  asset' \in [PartIds -> AssetState] /\ stored' \subseteq PartIds
<1>1. asset \in [PartIds -> AssetState] /\ stored \subseteq PartIds
  BY DEF TypeOK
<1>2. CASE RejectHeaders(b) \/ CloseBatch(b) \/ Crash(b)
  BY <1>1, <1>2 DEF RejectHeaders, CloseBatch, Crash, Media
<1>3. CASE PersistIntents(b)
  BY <1>1, <1>3 DEF PersistIntents, AssetState
<1>4. CASE \E p \in PartIds : PutObject(b, p)
  BY <1>1, <1>4 DEF PutObject
<1>5. CASE Activate(b)
  BY <1>1, <1>5 DEF Activate, SetAssets, AssetState
<1>6. CASE StoreFails(b)
  BY <1>1, <1>6 DEF StoreFails, SetAssets, AssetState
<1>7. CASE MarkForDeletion(b)
  BY <1>1, <1>7 DEF MarkForDeletion, SetAssets, AssetState
<1>8. CASE DeleteObjects(b)
  BY <1>1, <1>8 DEF DeleteObjects
<1>9. CASE RecordDeleted(b)
  BY <1>1, <1>9 DEF RecordDeleted, AssetState
<1> QED
  BY <1>2, <1>3, <1>4, <1>5, <1>6, <1>7, <1>8, <1>9 DEF Moves

\* And so they keep the types.
LEMMA MoveTypes ==
  ASSUME TypeOK, NEW b \in Batches, Moves(b)
  PROVE  TypeOK'
<1>1. request' \in [Batches -> RequestRow]
  <2>1. PICK at \in Steps : Go(b, at) \/ UNCHANGED request
    BY MoveShape
  <2> QED
    BY <2>1, GoType DEF TypeOK
<1>2. batch' \in [Batches -> BatchRow]
  <2>1. \/ UNCHANGED batch
        \/ \E s \in {"ACTIVE", "UPLOAD_FAILED"} : batch' = [batch EXCEPT ![b].status = s]
    BY MoveShape
  <2>2. CASE UNCHANGED batch
    BY <2>2 DEF TypeOK
  <2>3. ASSUME NEW s \in {"ACTIVE", "UPLOAD_FAILED"}, batch' = [batch EXCEPT ![b].status = s]
        PROVE  batch' \in [Batches -> BatchRow]
    BY <2>3, StatusType
  <2> QED
    BY <2>1, <2>2, <2>3
<1>3. UNCHANGED <<clock, slots, window, part, overtaken>>
  BY MoveShape
<1>4. asset' \in [PartIds -> AssetState] /\ stored' \subseteq PartIds
  BY MoveMedia
<1> QED
  BY <1>1, <1>2, <1>3, <1>4 DEF TypeOK

\* A new batch counts in the hour and takes a slot, both below their limits.
LEMMA CreateTypes ==
  ASSUME TypeOK, NEW b \in Batches, CreateBatch(b)
  PROVE  TypeOK'
<1>1. clock' \in [day : Days, requests : 0..HourlyRequests]
  BY UploadAssumption DEF CreateBatch, TypeOK
<1>2. slots' \in 0..MaxConcurrent
  BY UploadAssumption DEF CreateBatch, TypeOK
<1>3. request' \in [Batches -> RequestRow] /\ batch' \in [Batches -> BatchRow]
  <2>1. "headers" \in Steps
    BY DEF Steps
  <2> QED
    BY <2>1, GoType, StatusType DEF CreateBatch
<1> QED
  BY <1>1, <1>2, <1>3 DEF CreateBatch, Media, TypeOK

\* A reservation keeps the types.
LEMMA ReserveTypes ==
  ASSUME TypesInv, NEW b \in Batches, ReservePart(b)
  PROVE  TypeOK'
<1> DEFINE n == request[b].part + 1
           new == [status |-> "RESERVED", actual |-> 0, day |-> clock.day]
           row == [at |-> "reading", part |-> n, read |-> 0]
<1>1. TypeOK /\ clock.day \in Days /\ PartMax \in Nat /\ request[b].part \in Nat
  BY Columns DEF TypesInv
<1>2. new \in PartRow /\ row \in RequestRow
  BY <1>1 DEF PartRow, RequestRow, Steps
<1>3. part' = [part EXCEPT ![<<b, n>>] = new] /\ request' = [request EXCEPT ![b] = row]
  BY DEF ReservePart
<1> HIDE DEF new, row
<1>4. part' \in [PartIds -> PartRow] /\ request' \in [Batches -> RequestRow]
  BY <1>1, <1>2, <1>3 DEF TypeOK
<1>5. window' \in [Days -> [attempted : Nat, reserved : Nat]]
  BY <1>1 DEF ReservePart, TypeOK
<1> QED
  BY <1>1, <1>4, <1>5 DEF ReservePart, Media, TypeOK

\* Reading one unit keeps the types: it stops a unit after the largest size.
LEMMA ReadTypes ==
  ASSUME TypeOK, NEW b \in Batches, ReadBody(b)
  PROVE  TypeOK'
<1>1. request[b].read + 1 \in 0..PartMax + 1
  BY Columns DEF ReadBody
<1>2. part' \in [PartIds -> PartRow]
  <2>1. part \in [PartIds -> PartRow]
    BY DEF TypeOK
  <2>2. CASE part' = [part EXCEPT ![Current(b)].actual = request[b].read + 1]
    BY <1>1, <2>1, <2>2 DEF PartRow
  <2> QED
    BY <2>1, <2>2 DEF ReadBody
<1>3. request' \in [Batches -> RequestRow]
  BY <1>1 DEF ReadBody, TypeOK, RequestRow
<1> QED
  BY <1>2, <1>3 DEF ReadBody, Media, TypeOK

\* Settling keeps the types; the reserved bytes never go below zero.
LEMMA SettleTypes ==
  ASSUME TypesInv, NEW b \in Batches, SettlePart(b)
  PROVE  TypeOK'
<1>1. TypeOK /\ request[b].read \in 0..PartMax + 1 /\ PartMax \in Nat
  BY Columns DEF TypesInv
<1>2. part' \in [PartIds -> PartRow]
  BY <1>1 DEF SettlePart, TypeOK, PartRow
<1>3. request' \in [Batches -> RequestRow]
  <2>1. "headers" \in Steps /\ "failed" \in Steps
    BY DEF Steps
  <2> QED
    BY <1>1, <2>1, GoType DEF SettlePart
<1>4. window' \in [Days -> [attempted : Nat, reserved : Nat]]
  <2> DEFINE d == part[Current(b)].day
             w == [attempted |-> window[d].attempted + request[b].read,
                   reserved |-> Larger(0, window[d].reserved - PartMax)]
  <2>1. d \in Days
    BY <1>1, CurrentIsPart, Columns DEF SettlePart
  <2>2. window[d].attempted \in Nat /\ window[d].reserved \in Nat
    BY <1>1, <2>1, Columns
  <2>3. w \in [attempted : Nat, reserved : Nat]
    BY <1>1, <2>2 DEF Larger
  <2>4. window' = [window EXCEPT ![d] = w]
    BY DEF SettlePart
  <2> HIDE DEF d, w
  <2> QED
    BY <1>1, <2>1, <2>3, <2>4 DEF TypeOK
<1> QED
  BY <1>1, <1>2, <1>3, <1>4 DEF SettlePart, Media, TypeOK

\* Giving a slot back keeps the types.
LEMMA ReleaseTypes ==
  ASSUME TypeOK, NEW b \in Batches, ReleaseSlot(b)
  PROVE  TypeOK'
<1>1. request' \in [Batches -> RequestRow]
  <2>1. "done" \in Steps
    BY DEF Steps
  <2> QED
    BY <2>1, GoType DEF ReleaseSlot
<1>2. slots' \in 0..MaxConcurrent
  BY UploadAssumption DEF ReleaseSlot, SlotHeld, TypeOK
<1>3. batch' \in [Batches -> BatchRow]
  <2>1. batch \in [Batches -> BatchRow]
    BY DEF TypeOK
  <2>2. CASE batch' = [batch EXCEPT ![b].released = TRUE]
    BY <2>1, <2>2 DEF BatchRow
  <2> QED
    BY <2>1, <2>2 DEF ReleaseSlot
<1>4. part' \in [PartIds -> PartRow]
  <2>1. \A p \in PartIds : part[p] \in PartRow /\ [part[p] EXCEPT !.status = "RELEASED"] \in PartRow
    BY DEF TypeOK, PartRow
  <2>2. CASE ReleaseParts(Ids(b))
    BY <2>1, <2>2 DEF ReleaseParts
  <2>3. CASE UNCHANGED part
    BY <2>3 DEF TypeOK
  <2> QED
    BY <2>2, <2>3 DEF ReleaseSlot
<1> QED
  BY <1>1, <1>2, <1>3, <1>4 DEF ReleaseSlot, Media, TypeOK

\* What is recovered: the rows of its batches and of their parts.
LEMMA RecoverTypes ==
  ASSUME TypeOK, NEW stale \in SUBSET Batches, Recover(stale)
  PROVE  TypeOK'
<1>1. /\ slots \in Nat /\ slots <= MaxConcurrent /\ PartMax \in Nat /\ MaxConcurrent \in Nat
      /\ batch \in [Batches -> BatchRow] /\ part \in [PartIds -> PartRow] /\ overtaken \subseteq Batches
  BY Columns DEF TypeOK
<1>2. slots' \in 0..MaxConcurrent
  <2>1. Cardinality(stale) \in Nat
    BY PartsFinite
  <2>2. slots >= Cardinality(stale) /\ slots' = slots - Cardinality(stale)
    BY DEF Recover
  <2> QED
    BY <1>1, <2>1, <2>2
<1>3. window' \in [Days -> [attempted : Nat, reserved : Nat]]
  <2>1. ASSUME NEW d \in Days
        PROVE  [attempted |-> window[d].attempted + Charged(Unsettled(stale, d)),
                reserved |-> window[d].reserved - PartMax * Cardinality(Unsettled(stale, d))]
                 \in [attempted : Nat, reserved : Nat]
    <3> DEFINE T == Unsettled(stale, d)
    <3>1. T \in SUBSET PartIds
      BY DEF Unsettled
    <3>2. window[d].reserved >= PartMax * Cardinality(T)
      BY DEF Recover
    <3> HIDE DEF T
    <3>3. Charged(T) \in Nat /\ Cardinality(T) \in Nat
      BY <3>1, ChargedType, PartsFinite
    <3>4. window[d].attempted \in Nat /\ window[d].reserved \in Nat
      BY Columns
    <3>5. PartMax * Cardinality(T) \in Nat
      BY <1>1, <3>3
    <3>6. window[d].reserved - PartMax * Cardinality(T) \in Nat
      BY <3>2, <3>4, <3>5
    <3>7. window[d].attempted + Charged(T) \in Nat
      BY <3>3, <3>4
    <3> QED
      BY <3>6, <3>7 DEF T
  <2> QED
    BY <2>1 DEF Recover
<1>4. part' \in [PartIds -> PartRow]
  <2>1. \A p \in PartIds : part[p] \in PartRow /\ [part[p] EXCEPT !.status = "RELEASED"] \in PartRow
    BY <1>1 DEF PartRow
  <2> QED
    BY <2>1 DEF Recover
<1>5. batch' \in [Batches -> BatchRow]
  <2>1. [status |-> "UPLOAD_FAILED", released |-> TRUE] \in BatchRow
    BY DEF BatchRow
  <2> QED
    BY <1>1, <2>1 DEF Recover
<1>6. overtaken' \subseteq Batches
  BY <1>1 DEF Recover
<1> QED
  BY <1>2, <1>3, <1>4, <1>5, <1>6 DEF Recover, Media, TypeOK

\* A new hour or day keeps the types.
LEMMA ClockTypes ==
  ASSUME TypeOK, NewHour \/ Midnight
  PROVE  TypeOK'
<1>1. clock' \in [day : Days, requests : 0..HourlyRequests]
  BY UploadAssumption DEF NewHour, Midnight, TypeOK
<1> QED
  BY <1>1 DEF NewHour, Midnight, Media, TypeOK

\* The steps of a handler.
LEMMA HandlerCases ==
  ASSUME NEW b \in Batches, CreateBatch(b) \/ HandlerSteps(b) \/ Crash(b)
  PROVE  \/ CreateBatch(b) \/ ReservePart(b) \/ ReadBody(b) \/ SettlePart(b)
         \/ Moves(b) \/ ReleaseSlot(b)
  BY RefusedAsCrashed DEF HandlerSteps, Moves

\* Every step keeps the types.
LEMMA TypeStep ==
  ASSUME TypesInv, [Next]_vars
  PROVE  TypeOK'
<1>1. TypeOK
  BY DEF TypesInv
<1>2. ASSUME NEW b \in Batches, CreateBatch(b) \/ HandlerSteps(b) \/ Crash(b)
      PROVE  TypeOK'
  BY <1>1, <1>2, HandlerCases, CreateTypes, ReserveTypes, ReadTypes, SettleTypes, MoveTypes, ReleaseTypes
<1>3. ASSUME NEW stale \in SUBSET Batches, Recover(stale)
      PROVE  TypeOK'
  BY <1>1, <1>3, RecoverTypes
<1>4. CASE UNCHANGED vars
  BY <1>1, <1>4 DEF vars, Media, TypeOK
<1> QED
  BY <1>1, <1>2, <1>3, <1>4, ClockTypes DEF Next

-----------------------------------------------------------------------------
(* The handlers *)

\* Nothing happens to another request than b.
OthersKept(b) ==
  \A c \in Batches \ {b} :
    /\ request'[c] = request[c] /\ batch'[c] = batch[c]
    /\ c \in overtaken' <=> c \in overtaken
    /\ \A n \in 1..Files[c] : part'[<<c, n>>] = part[<<c, n>>]

\* A handler that another request leaves alone stays where it is.
LEMMA HandlerFrame ==
  ASSUME TypesInv, NEW b \in Batches, OthersKept(b), HandlerOK(b)'
  PROVE  HandlerInv'
<1> SUFFICES ASSUME NEW c \in Batches, c # b PROVE HandlerOK(c)'
  BY DEF HandlerInv
<1>1. HandlerOK(c)
  BY DEF TypesInv, HandlerInv
<1>2. /\ request'[c] = request[c] /\ batch'[c] = batch[c]
      /\ c \in overtaken' <=> c \in overtaken
      /\ \A n \in 1..Files[c] : part'[<<c, n>>] = part[<<c, n>>]
  BY DEF OthersKept
<1>3. request[c].at = "reading" =>
        request[c].part \in 1..Files[c] /\ part'[Current(c)] = part[Current(c)] /\ Current(c)' = Current(c)
  BY <1>2, CurrentIsPart DEF Current
<1> QED
  BY <1>1, <1>2, <1>3 DEF HandlerOK, Alive

\* A step of b writes the row of b, and parts of b alone.
LEMMA OneHandler ==
  ASSUME TypeOK, NEW b \in Batches, CreateBatch(b) \/ HandlerSteps(b) \/ Crash(b)
  PROVE  OthersKept(b) /\ UNCHANGED overtaken
<1>1. /\ request \in [Batches -> RequestRow] /\ batch \in [Batches -> BatchRow]
      /\ part \in [PartIds -> PartRow]
  BY DEF TypeOK
<1>2. \A c \in Batches \ {b} : \A n \in 1..Files[c] :
        <<c, n>> \in PartIds /\ <<c, n>> # Current(b) /\ <<c, n>>[1] = c
        /\ \A m : <<c, n>> # <<b, m>>
  BY PartNames DEF Current
<1>3. CASE CreateBatch(b)
  BY <1>1, <1>3 DEF CreateBatch, Go, OthersKept
<1>4. CASE ReservePart(b)
  <2>1. \A c \in Batches \ {b} : \A n \in 1..Files[c] : part'[<<c, n>>] = part[<<c, n>>]
    BY <1>1, <1>2, <1>4 DEF ReservePart
  <2> QED
    BY <1>1, <1>4, <2>1 DEF ReservePart, OthersKept
<1>5. CASE ReadBody(b)
  <2>1. \A c \in Batches \ {b} : \A n \in 1..Files[c] : part'[<<c, n>>] = part[<<c, n>>]
    BY <1>1, <1>2, <1>5 DEF ReadBody
  <2> QED
    BY <1>1, <1>5, <2>1 DEF ReadBody, OthersKept
<1>6. CASE SettlePart(b)
  <2>1. \A c \in Batches \ {b} : \A n \in 1..Files[c] : part'[<<c, n>>] = part[<<c, n>>]
    BY <1>1, <1>2, <1>6 DEF SettlePart
  <2>2. \A c \in Batches \ {b} : request'[c] = request[c]
    BY <1>1, <1>6 DEF SettlePart, Go
  <2> QED
    BY <1>6, <2>1, <2>2 DEF SettlePart, OthersKept
<1>7. CASE Moves(b)
  <2>1. UNCHANGED <<part, overtaken>>
    BY <1>7, MoveShape
  <2>2. \A c \in Batches \ {b} : request'[c] = request[c]
    <3>1. PICK at \in Steps : Go(b, at) \/ UNCHANGED request
      BY <1>7, MoveShape
    <3> QED
      BY <1>1, <3>1 DEF Go
  <2>3. \A c \in Batches \ {b} : batch'[c] = batch[c]
    <3>1. \/ UNCHANGED batch
          \/ \E s \in {"ACTIVE", "UPLOAD_FAILED"} : batch' = [batch EXCEPT ![b].status = s]
      BY <1>7, MoveShape
    <3> QED
      BY <1>1, <3>1
  <2> QED
    BY <2>1, <2>2, <2>3 DEF OthersKept
<1>8. CASE ReleaseSlot(b)
  <2>1. \A c \in Batches \ {b} : \A n \in 1..Files[c] : part'[<<c, n>>] = part[<<c, n>>]
    <3>1. CASE UNCHANGED part
      BY <3>1
    <3>2. CASE ReleaseParts(Ids(b))
      BY <1>2, <3>2 DEF ReleaseParts, Ids
    <3> QED
      BY <1>8, <3>1, <3>2 DEF ReleaseSlot
  <2>2. \A c \in Batches \ {b} : request'[c] = request[c] /\ batch'[c] = batch[c]
    BY <1>1, <1>8 DEF ReleaseSlot, Go
  <2> QED
    BY <1>8, <2>1, <2>2 DEF ReleaseSlot, OthersKept
<1> QED
  BY <1>3, <1>4, <1>5, <1>6, <1>7, <1>8, HandlerCases

\* After a step of its own, a handler is where its rows say it is.
LEMMA HandlerItself ==
  ASSUME TypesInv, NEW b \in Batches, CreateBatch(b) \/ HandlerSteps(b) \/ Crash(b)
  PROVE  HandlerOK(b)'
<1>1. /\ request \in [Batches -> RequestRow] /\ batch \in [Batches -> BatchRow]
      /\ part \in [PartIds -> PartRow] /\ HandlerOK(b) /\ UNCHANGED overtaken /\ TypeOK
  BY OneHandler DEF TypesInv, TypeOK, HandlerInv
<1>2. /\ request[b].part \in Nat /\ Files[b] \in Nat /\ batch[b].released \in BOOLEAN
      /\ \A n \in 1..Files[b] : <<b, n>> \in PartIds
  BY <1>1, Columns, PartNames
<1>3. CASE CreateBatch(b)
  <2>1. /\ request'[b].at = "headers" /\ request'[b].part = request[b].part
        /\ batch'[b].status = "PENDING_UPLOAD" /\ batch'[b].released = batch[b].released
        /\ UNCHANGED part /\ request[b].at = "none"
    BY <1>1, <1>3 DEF CreateBatch, Go, RequestRow, BatchRow
  <2> QED
    BY <1>1, <1>2, <2>1 DEF HandlerOK
<1>4. CASE ReservePart(b)
  <2> DEFINE n == request[b].part + 1
  <2>1. /\ n \in 1..Files[b] /\ request'[b].at = "reading" /\ request'[b].part = n
        /\ request[b].at = "headers" /\ UNCHANGED batch
    BY <1>1, <1>2, <1>4 DEF ReservePart
  <2>2. /\ part'[<<b, n>>].status = "RESERVED"
        /\ \A m \in 1..Files[b] : m # n => part'[<<b, m>>] = part[<<b, m>>]
    BY <1>1, <1>2, <1>4, <2>1 DEF ReservePart
  <2>3. \A m \in 1..Files[b] : part'[<<b, m>>].status = "none" <=> m > n
    <3> SUFFICES ASSUME NEW m \in 1..Files[b]
                 PROVE  part'[<<b, m>>].status = "none" <=> m > n
      OBVIOUS
    <3>1. part[<<b, m>>].status = "none" <=> m > request[b].part
      BY <1>1 DEF HandlerOK
    <3>2. CASE m = n
      BY <1>2, <2>2, <3>2
    <3>3. CASE m # n
      BY <1>2, <2>2, <3>1, <3>3
    <3> QED
      BY <3>2, <3>3
  <2>4. part'[Current(b)'].status = "RESERVED"
    BY <2>1, <2>2 DEF Current
  <2> QED
    BY <1>1, <1>2, <2>1, <2>3, <2>4 DEF HandlerOK, Alive
<1>5. CASE ReadBody(b)
  <2>1. /\ request'[b].at = "reading" /\ request'[b].part = request[b].part
        /\ request[b].at = "reading" /\ UNCHANGED batch
    BY <1>1, <1>5 DEF ReadBody, RequestRow
  <2>2. \A p \in PartIds : part'[p].status = part[p].status
    BY <1>1, <1>5 DEF ReadBody, PartRow
  <2>3. Current(b) \in PartIds /\ Current(b)' = Current(b)
    BY <2>1, CurrentIsPart DEF Current
  <2> QED
    BY <1>1, <1>2, <2>1, <2>2, <2>3 DEF HandlerOK, Alive
<1>6. CASE SettlePart(b)
  <2>1. /\ request'[b].at \in {"headers", "failed"} /\ request'[b].part = request[b].part
        /\ request[b].at = "reading" /\ UNCHANGED batch
    BY <1>1, <1>6 DEF SettlePart, Go, RequestRow
  <2>2. Current(b) \in PartIds /\ request[b].part \in 1..Files[b]
    BY <2>1, CurrentIsPart
  <2>3. /\ part'[Current(b)].status = "SETTLED"
        /\ \A p \in PartIds : p # Current(b) => part'[p] = part[p]
    BY <1>1, <1>6, <2>2 DEF SettlePart, PartRow
  <2>4. \A n \in 1..Files[b] : part'[<<b, n>>].status = "none" <=> n > request[b].part
    <3> SUFFICES ASSUME NEW n \in 1..Files[b]
                 PROVE  part'[<<b, n>>].status = "none" <=> n > request[b].part
      OBVIOUS
    <3>1. CASE n = request[b].part
      BY <1>2, <2>3, <3>1 DEF Current
    <3>2. CASE n # request[b].part
      BY <1>1, <1>2, <2>3, <3>2 DEF Current, HandlerOK
    <3> QED
      BY <3>1, <3>2
  <2> QED
    BY <1>1, <1>2, <2>1, <2>4 DEF HandlerOK, Alive
<1>7. CASE Moves(b)
  <2>1. PICK at \in Steps \ {"none", "reading", "headers"} : Go(b, at) \/ UNCHANGED request
    BY <1>1, <1>7, MoveShape
  <2>2. Alive(b) /\ UNCHANGED part
    BY <1>1, <1>7, MoveShape
  <2>3. request'[b].part = request[b].part /\ (request'[b].at = at \/ request'[b].at = request[b].at)
    BY <1>1, <2>1 DEF Go, RequestRow
  <2>4. batch'[b].released = batch[b].released
        /\ (batch'[b].status = batch[b].status \/ batch'[b].status # "none")
    <3>1. \/ UNCHANGED batch
          \/ \E s \in {"ACTIVE", "UPLOAD_FAILED"} : batch' = [batch EXCEPT ![b].status = s]
      BY <1>1, <1>7, MoveShape
    <3> QED
      BY <1>1, <3>1 DEF BatchRow
  <2>5. Current(b)' = Current(b)
    BY <2>3 DEF Current
  <2> QED
    BY <1>1, <1>2, <2>1, <2>2, <2>3, <2>4, <2>5 DEF HandlerOK, Alive
<1>8. CASE ReleaseSlot(b)
  <2>1. /\ request'[b].at = "done" /\ request'[b].part = request[b].part /\ request[b].at # "none"
        /\ batch'[b].status = batch[b].status
    BY <1>1, <1>8 DEF ReleaseSlot, Go, RequestRow, BatchRow
  <2>2. \A p \in PartIds : part'[p].status = "none" <=> part[p].status = "none"
    <3>1. CASE UNCHANGED part
      BY <3>1
    <3>2. CASE ReleaseParts(Ids(b))
      BY <1>1, <3>2 DEF ReleaseParts, PartRow
    <3> QED
      BY <1>8, <3>1, <3>2 DEF ReleaseSlot
  <2> QED
    BY <1>1, <1>2, <2>1, <2>2 DEF HandlerOK, Alive
<1> QED
  BY <1>3, <1>4, <1>5, <1>6, <1>7, <1>8, HandlerCases

\* The batches whose lease is recovered have their handlers gone or overtaken.
LEMMA RecoverHandlers ==
  ASSUME TypesInv, NEW stale \in SUBSET Batches, Recover(stale)
  PROVE  HandlerInv'
<1> SUFFICES ASSUME NEW b \in Batches PROVE HandlerOK(b)'
  BY DEF HandlerInv
<1>1. HandlerOK(b) /\ TypeOK /\ batch \in [Batches -> BatchRow] /\ part \in [PartIds -> PartRow]
  BY DEF TypesInv, HandlerInv, TypeOK
<1>2. \A n \in 1..Files[b] : <<b, n>> \in PartIds /\ <<b, n>>[1] = b
  BY PartNames
<1>3. request' = request /\ Current(b)' = Current(b)
  BY DEF Recover, Current
<1>4. \A p \in PartIds : /\ p[1] \notin stale => part'[p] = part[p]
                         /\ part'[p].status = "none" <=> part[p].status = "none"
  BY <1>1 DEF Recover, PartRow
<1>5. CASE b \in stale
  <2>1. /\ batch'[b] = [status |-> "UPLOAD_FAILED", released |-> TRUE]
        /\ batch[b].status = "PENDING_UPLOAD"
        /\ Alive(b) => b \in overtaken'
    BY <1>5 DEF Recover, Unfinished
  <2> QED
    BY <1>1, <1>2, <1>3, <1>4, <2>1 DEF HandlerOK, Alive
<1>6. CASE b \notin stale
  <2>1. batch'[b] = batch[b] /\ (b \in overtaken' <=> b \in overtaken)
    BY <1>6 DEF Recover
  <2>2. request[b].at = "reading" => Current(b) \in PartIds /\ Current(b)[1] = b
    BY CurrentIsPart DEF Current
  <2> QED
    BY <1>1, <1>2, <1>3, <1>4, <1>6, <2>1, <2>2 DEF HandlerOK, Alive
<1> QED
  BY <1>5, <1>6

\* Every step keeps the types and the handlers where their rows say they are.
LEMMA TypesStep ==
  ASSUME TypesInv, [Next]_vars
  PROVE  TypesInv'
<1>1. TypeOK'
  BY TypeStep
<1>2. ASSUME NEW b \in Batches, CreateBatch(b) \/ HandlerSteps(b) \/ Crash(b)
      PROVE  HandlerInv'
  BY <1>2, OneHandler, HandlerItself, HandlerFrame DEF TypesInv
<1>3. ASSUME NEW stale \in SUBSET Batches, Recover(stale)
      PROVE  HandlerInv'
  BY <1>3, RecoverHandlers
<1>4. CASE NewHour \/ Midnight \/ UNCHANGED vars
  <2>1. UNCHANGED <<request, batch, part, overtaken>>
    BY <1>4 DEF NewHour, Midnight, vars
  <2> SUFFICES ASSUME NEW b \in Batches PROVE HandlerOK(b)'
    BY <1>1 DEF TypesInv, HandlerInv
  <2>2. HandlerOK(b)
    BY DEF TypesInv, HandlerInv
  <2>3. Current(b)' = Current(b) /\ (Alive(b)' <=> Alive(b))
    BY <2>1 DEF Current, Alive
  <2> QED
    BY <2>1, <2>2, <2>3 DEF HandlerOK
<1> QED
  BY <1>1, <1>2, <1>3, <1>4 DEF TypesInv, Next

\* At first every row is empty and no handler has begun.
LEMMA InitTypes == Init => TypesInv
<1> SUFFICES ASSUME Init PROVE TypesInv
  OBVIOUS
<1>1. TypeOK
  <2>1. clock \in [day : Days, requests : 0..HourlyRequests] /\ slots \in 0..MaxConcurrent
    BY UploadAssumption DEF Init
  <2>2. window \in [Days -> [attempted : Nat, reserved : Nat]]
    BY DEF Init
  <2>3. batch \in [Batches -> BatchRow] /\ part \in [PartIds -> PartRow]
    BY UploadAssumption DEF Init, BatchRow, PartRow
  <2>4. request \in [Batches -> RequestRow]
    <3>1. [at |-> "none", part |-> 0, read |-> 0] \in RequestRow
      BY UploadAssumption DEF RequestRow, Steps
    <3> QED
      BY <3>1 DEF Init
  <2>5. asset \in [PartIds -> AssetState] /\ stored \subseteq PartIds /\ overtaken \subseteq Batches
    BY DEF Init, AssetState
  <2> QED
    BY <2>1, <2>2, <2>3, <2>4, <2>5 DEF TypeOK
<1>2. HandlerInv
  <2> SUFFICES ASSUME NEW b \in Batches PROVE HandlerOK(b)
    BY DEF HandlerInv
  <2>1. /\ request[b].at = "none" /\ request[b].part = 0
        /\ batch[b].status = "none" /\ ~batch[b].released
        /\ \A n \in 1..Files[b] : part[<<b, n>>].status = "none"
    BY PartNames DEF Init
  <2>2. Files[b] \in Nat /\ \A n \in 1..Files[b] : n > 0
    BY PartNames
  <2> QED
    BY <2>1, <2>2 DEF HandlerOK, Alive
<1> QED
  BY <1>1, <1>2 DEF TypesInv

-----------------------------------------------------------------------------
(* The counters *)

SlotsTaken == {b \in Batches : batch[b].status # "none" /\ ~batch[b].released}
Reserved(d) == {p \in PartIds : part[p].status = "RESERVED" /\ part[p].day = d}

\* Parts that were charged more than was reserved for them.
Over(d) ==
  {p \in PartIds : /\ part[p].status \in {"SETTLED", "RELEASED"} /\ part[p].day = d
                   /\ part[p].actual > PartMax}

SlotsExact == slots = Cardinality(SlotsTaken)
DayExact(d) == window[d].reserved = PartMax * Cardinality(Reserved(d))
DayKept(d) == window[d].attempted + window[d].reserved <= DailyBytes + Cardinality(Over(d))

QuotaInv == overtaken = {} => SlotsExact /\ \A d \in Days : DayExact(d) /\ DayKept(d)

IInv == TypesInv /\ QuotaInv

\* What the counters count is finite.
LEMMA Counted ==
  /\ IsFiniteSet(SlotsTaken) /\ Cardinality(SlotsTaken) \in Nat
  /\ \A d : /\ IsFiniteSet(Reserved(d)) /\ Cardinality(Reserved(d)) \in Nat
            /\ IsFiniteSet(Over(d)) /\ Cardinality(Over(d)) \in Nat
<1>1. SlotsTaken \in SUBSET Batches /\ \A d : Reserved(d) \in SUBSET PartIds /\ Over(d) \in SUBSET PartIds
  BY DEF SlotsTaken, Reserved, Over
<1> QED
  BY <1>1, PartsFinite

\* What the counters are, for one request and one recovery at a time.
Exact == SlotsExact /\ \A d \in Days : DayExact(d) /\ DayKept(d)

\* A step that neither takes nor gives anything.
LEMMA CountersSame ==
  ASSUME TypesInv, Exact, UNCHANGED <<slots, window>>, SlotsTaken' = SlotsTaken,
         \A d \in Days : Reserved(d)' = Reserved(d) /\ Over(d)' = Over(d)
  PROVE  Exact'
<1>1. ASSUME NEW d \in Days PROVE DayExact(d)' /\ DayKept(d)'
  <2>1. DayExact(d) /\ DayKept(d)
    BY DEF Exact
  <2> QED
    BY <2>1 DEF DayExact, DayKept
<1>2. SlotsExact'
  BY DEF Exact, SlotsExact
<1> QED
  BY <1>1, <1>2 DEF Exact

\* A new batch has a slot of its own.
LEMMA CreateCounters ==
  ASSUME TypesInv, Exact, NEW b \in Batches, CreateBatch(b)
  PROVE  Exact'
<1>1. batch \in [Batches -> BatchRow] /\ HandlerOK(b) /\ request[b].at = "none"
  BY DEF TypesInv, TypeOK, HandlerInv, CreateBatch
<1>2. SlotsTaken' = SlotsTaken \cup {b} /\ b \notin SlotsTaken
  <2>1. /\ batch'[b].status = "PENDING_UPLOAD" /\ ~batch'[b].released
        /\ \A c \in Batches : c # b => batch'[c] = batch[c]
        /\ batch[b].status = "none"
    BY <1>1 DEF CreateBatch, HandlerOK, BatchRow
  <2> QED
    BY <2>1 DEF SlotsTaken
<1>3. Cardinality(SlotsTaken') = Cardinality(SlotsTaken) + 1
  BY <1>2, Counted, FS_AddElement
<1>4. SlotsExact'
  BY <1>3 DEF CreateBatch, Exact, SlotsExact
<1>5. \A d \in Days : DayExact(d)' /\ DayKept(d)'
  BY DEF CreateBatch, Exact, DayExact, DayKept, Reserved, Over
<1> QED
  BY <1>4, <1>5 DEF Exact

\* The largest size of one part more.
LEMMA OneMore ==
  ASSUME NEW m \in Nat, NEW n \in Nat
  PROVE  m * (n + 1) = m * n + m /\ m * n \in Nat
  OBVIOUS

\* A reservation is counted on the day it is made, and fits into it.
LEMMA ReserveCounters ==
  ASSUME TypesInv, Exact, NEW b \in Batches, ReservePart(b)
  PROVE  Exact'
<1> DEFINE n == request[b].part + 1
           p == <<b, n>>
<1> PICK e \in Days : e = clock.day
  BY Columns DEF TypesInv
<1>1. /\ part \in [PartIds -> PartRow] /\ HandlerOK(b)
      /\ request[b].part \in Nat /\ PartMax \in Nat
      /\ window \in [Days -> [attempted : Nat, reserved : Nat]]
  BY Columns DEF TypesInv, TypeOK, HandlerInv
<1>2. p \in PartIds /\ part[p].status = "none"
  <2>1. n \in 1..Files[b]
    BY <1>1 DEF ReservePart
  <2> QED
    BY <1>1, <2>1, PartNames DEF HandlerOK
<1>3. /\ part'[p].status = "RESERVED" /\ part'[p].day = e
      /\ \A q \in PartIds : q # p => part'[q] = part[q]
  BY <1>1, <1>2 DEF ReservePart
<1>4. /\ window'[e].reserved = window[e].reserved + PartMax
      /\ window'[e].attempted = window[e].attempted
      /\ \A d \in Days : d # e => window'[d] = window[d]
      /\ window[e].attempted + window[e].reserved + PartMax <= DailyBytes
  BY <1>1 DEF ReservePart, Fits
<1> HIDE DEF n, p
<1>5. Reserved(e)' = Reserved(e) \cup {p} /\ p \notin Reserved(e)
  BY <1>2, <1>3 DEF Reserved
<1>6. \A d \in Days : d # e => Reserved(d)' = Reserved(d)
  BY <1>2, <1>3 DEF Reserved
<1>7. \A d \in Days : Over(d)' = Over(d)
  BY <1>2, <1>3 DEF Over
<1>8. SlotsExact'
  BY DEF ReservePart, Exact, SlotsExact, SlotsTaken
<1>9. DayExact(e)' /\ DayKept(e)'
  <2>1. Cardinality(Reserved(e)') = Cardinality(Reserved(e)) + 1 /\ Cardinality(Reserved(e)) \in Nat
    BY <1>5, Counted, FS_AddElement
  <2>2. PartMax * Cardinality(Reserved(e)') = PartMax * Cardinality(Reserved(e)) + PartMax
    BY <1>1, <2>1, OneMore
  <2>3. DayExact(e)'
    BY <1>1, <1>4, <2>2 DEF Exact, DayExact
  <2>4. Cardinality(Over(e)) \in Nat /\ DailyBytes \in Nat
    BY Counted, Columns DEF TypesInv
  <2>5. window[e].attempted \in Nat /\ window[e].reserved \in Nat
    BY <1>1
  <2>6. window'[e].attempted + window'[e].reserved <= DailyBytes + Cardinality(Over(e))
    BY <1>1, <1>4, <2>4, <2>5
  <2> QED
    BY <1>1, <1>7, <2>3, <2>6 DEF DayKept
<1>10. ASSUME NEW d \in Days, d # e PROVE DayExact(d)' /\ DayKept(d)'
  <2>1. DayExact(d) /\ DayKept(d)
    BY DEF Exact
  <2> QED
    BY <1>4, <1>6, <1>7, <1>10, <2>1 DEF DayExact, DayKept
<1> QED
  BY <1>8, <1>9, <1>10 DEF Exact

\* Steps that move rows but no bytes leave the counters exact.
LEMMA MoveCounters ==
  ASSUME TypesInv, Exact, NEW b \in Batches, Moves(b)
  PROVE  Exact'
<1>1. /\ batch \in [Batches -> BatchRow] /\ TypeOK /\ HandlerOK(b) /\ Alive(b)
      /\ UNCHANGED <<slots, window, part>>
  BY MoveShape DEF TypesInv, TypeOK, HandlerInv
<1>2. \A c \in Batches : /\ batch'[c].released = batch[c].released
                         /\ batch'[c].status # "none" <=> batch[c].status # "none"
  <2>1. \/ UNCHANGED batch
        \/ \E s \in {"ACTIVE", "UPLOAD_FAILED"} : batch' = [batch EXCEPT ![b].status = s]
    BY <1>1, MoveShape
  <2>2. batch[b].status # "none"
    BY <1>1 DEF HandlerOK, Alive
  <2> QED
    BY <1>1, <2>1, <2>2 DEF BatchRow
<1>3. SlotsTaken' = SlotsTaken
  BY <1>2 DEF SlotsTaken
<1>4. \A d \in Days : Reserved(d)' = Reserved(d) /\ Over(d)' = Over(d)
  BY <1>1 DEF Reserved, Over
<1> QED
  BY <1>1, <1>3, <1>4, CountersSame

\* Reading is counted when the part is settled, not before.
LEMMA ReadCounters ==
  ASSUME TypesInv, Exact, overtaken = {}, NEW b \in Batches, ReadBody(b)
  PROVE  Exact'
<1>1. /\ part \in [PartIds -> PartRow] /\ HandlerOK(b) /\ Current(b) \in PartIds
      /\ request[b].at = "reading" /\ UNCHANGED <<slots, window, batch>>
  BY CurrentIsPart DEF TypesInv, TypeOK, HandlerInv, ReadBody
<1>2. part[Current(b)].status = "RESERVED"
  BY <1>1 DEF HandlerOK
<1>3. \A p \in PartIds : /\ p # Current(b) => part'[p] = part[p]
                         /\ part'[p].status = part[p].status /\ part'[p].day = part[p].day
  BY <1>1 DEF ReadBody, PartRow
<1>4. \A d \in Days : Reserved(d)' = Reserved(d) /\ Over(d)' = Over(d)
  BY <1>1, <1>2, <1>3 DEF Reserved, Over
<1>5. SlotsTaken' = SlotsTaken
  BY <1>1 DEF SlotsTaken
<1> QED
  BY <1>1, <1>4, <1>5, CountersSame

\* A part that is settled gives its reservation back and is charged what was read, one
\* unit more than was reserved at the most.
LEMMA SettleCounters ==
  ASSUME TypesInv, Exact, overtaken = {}, NEW b \in Batches, SettlePart(b)
  PROVE  Exact'
<1>1. /\ part \in [PartIds -> PartRow] /\ HandlerOK(b) /\ Current(b) \in PartIds /\ TypeOK
      /\ request[b].at = "reading" /\ UNCHANGED <<slots, batch>>
      /\ window \in [Days -> [attempted : Nat, reserved : Nat]]
      /\ PartMax \in Nat /\ PartMax > 0 /\ DailyBytes \in Nat
  BY CurrentIsPart, Columns DEF TypesInv, TypeOK, HandlerInv, SettlePart
<1> PICK p \in PartIds : p = Current(b)
  BY <1>1
<1> PICK e \in Days : e = part[p].day
  BY <1>1, Columns
<1> PICK n \in 0..PartMax + 1 : n = request[b].read
  BY <1>1, Columns
<1>2. part[p].status = "RESERVED"
  BY <1>1 DEF HandlerOK
<1>3. /\ part'[p].status = "SETTLED" /\ part'[p].actual = n /\ part'[p].day = e
      /\ \A q \in PartIds : q # p => part'[q] = part[q]
  BY <1>1 DEF SettlePart, PartRow
<1>4. /\ window'[e].attempted = window[e].attempted + n
      /\ window'[e].reserved = Larger(0, window[e].reserved - PartMax)
      /\ \A d \in Days : d # e => window'[d] = window[d]
  BY <1>1 DEF SettlePart
<1>5. Reserved(e)' = Reserved(e) \ {p} /\ p \in Reserved(e)
  BY <1>2, <1>3 DEF Reserved
<1>6. \A d \in Days : d # e => Reserved(d)' = Reserved(d) /\ Over(d)' = Over(d)
  BY <1>2, <1>3 DEF Reserved, Over
<1>7. Over(e)' = (IF n > PartMax THEN Over(e) \cup {p} ELSE Over(e)) /\ p \notin Over(e)
  BY <1>2, <1>3 DEF Over
<1>8. SlotsExact'
  BY <1>1 DEF Exact, SlotsExact, SlotsTaken
<1>9. DayExact(e)' /\ window'[e].reserved = window[e].reserved - PartMax
  <2>1. /\ Cardinality(Reserved(e)) = Cardinality(Reserved(e)') + 1
        /\ Cardinality(Reserved(e)') \in Nat
    <3>1. IsFiniteSet(Reserved(e)) /\ Cardinality(Reserved(e)) \in Nat
      BY Counted
    <3>2. Cardinality(Reserved(e) \ {p}) = Cardinality(Reserved(e)) - 1 /\ IsFiniteSet(Reserved(e) \ {p})
      BY <1>5, <3>1, FS_RemoveElement
    <3>3. Cardinality(Reserved(e) \ {p}) \in Nat
      BY <3>2, FS_CardinalityType
    <3> QED
      BY <1>5, <3>1, <3>2, <3>3
  <2>2. /\ PartMax * Cardinality(Reserved(e)) = PartMax * Cardinality(Reserved(e)') + PartMax
        /\ PartMax * Cardinality(Reserved(e)') \in Nat
    BY <1>1, <2>1, OneMore
  <2>3. window[e].reserved = PartMax * Cardinality(Reserved(e)') + PartMax
    BY <2>2 DEF Exact, DayExact
  <2>4. window'[e].reserved = PartMax * Cardinality(Reserved(e)')
    BY <1>1, <1>4, <2>2, <2>3 DEF Larger
  <2> QED
    BY <1>1, <2>2, <2>3, <2>4 DEF DayExact
<1>10. DayKept(e)'
  <2>1. Cardinality(Over(e)) \in Nat /\ IsFiniteSet(Over(e))
    BY Counted
  <2>2. Cardinality(Over(e)') = Cardinality(Over(e)) + (IF n > PartMax THEN 1 ELSE 0)
    <3>1. CASE n > PartMax
      <4>1. Cardinality(Over(e) \cup {p}) = Cardinality(Over(e)) + 1
        BY <1>7, <2>1, FS_AddElement
      <4> QED
        BY <1>7, <3>1, <4>1
    <3>2. CASE ~(n > PartMax)
      <4>1. Over(e)' = Over(e)
        BY <1>7, <3>2
      <4> QED
        BY <2>1, <3>2, <4>1
    <3> QED
      BY <3>1, <3>2
  <2>3. window[e].attempted + window[e].reserved <= DailyBytes + Cardinality(Over(e))
    BY DEF Exact, DayKept
  <2>4. window[e].attempted \in Nat /\ window[e].reserved \in Nat
    BY <1>1
  <2>5. window'[e].attempted + window'[e].reserved = window[e].attempted + window[e].reserved + n - PartMax
    BY <1>1, <1>4, <1>9, <2>4
  <2>6. n - PartMax <= (IF n > PartMax THEN 1 ELSE 0) /\ n \in Nat
    BY <1>1
  <2>7. window'[e].attempted + window'[e].reserved <= DailyBytes + Cardinality(Over(e)')
    BY <1>1, <2>1, <2>2, <2>3, <2>4, <2>5, <2>6
  <2> QED
    BY <2>7 DEF DayKept
<1>11. ASSUME NEW d \in Days, d # e PROVE DayExact(d)' /\ DayKept(d)'
  <2>1. DayExact(d) /\ DayKept(d)
    BY DEF Exact
  <2> QED
    BY <1>4, <1>6, <1>11, <2>1 DEF DayExact, DayKept
<1> QED
  BY <1>8, <1>9, <1>10, <1>11 DEF Exact

\* The slot a handler gives back is the one its batch has.
LEMMA ReleaseCounters ==
  ASSUME TypesInv, Exact, overtaken = {}, NEW b \in Batches, ReleaseSlot(b)
  PROVE  Exact'
<1>1. /\ batch \in [Batches -> BatchRow] /\ part \in [PartIds -> PartRow]
      /\ HandlerOK(b) /\ slots \in Nat /\ request[b].at \in {"activated", "closing"}
      /\ UNCHANGED window
  BY Columns DEF TypesInv, TypeOK, HandlerInv, ReleaseSlot
<1>2. b \in SlotsTaken
  BY <1>1 DEF HandlerOK, Alive, SlotsTaken
<1>3. slots = Cardinality(SlotsTaken) /\ IsFiniteSet(SlotsTaken)
  BY Counted DEF Exact, SlotsExact
<1>4. slots > 0
  BY <1>1, <1>2, <1>3, FS_EmptySet
<1>5. slots' = slots - 1 /\ batch' = [batch EXCEPT ![b].released = TRUE] /\ ReleaseParts(Ids(b))
  BY <1>4 DEF ReleaseSlot, SlotHeld
<1>6. SlotsTaken' = SlotsTaken \ {b}
  BY <1>1, <1>5 DEF SlotsTaken, BatchRow
<1>7. SlotsExact'
  <2>1. Cardinality(SlotsTaken \ {b}) = Cardinality(SlotsTaken) - 1
    BY <1>2, <1>3, FS_RemoveElement
  <2> QED
    BY <1>3, <1>5, <1>6, <2>1 DEF SlotsExact
<1>8. \A p \in PartIds : /\ part'[p].status = "RESERVED" <=> part[p].status = "RESERVED"
                         /\ part'[p].status \in {"SETTLED", "RELEASED"}
                              <=> part[p].status \in {"SETTLED", "RELEASED"}
                         /\ part'[p].day = part[p].day /\ part'[p].actual = part[p].actual
  BY <1>1, <1>5 DEF ReleaseParts, PartRow
<1>9. ASSUME NEW d \in Days PROVE DayExact(d)' /\ DayKept(d)'
  <2>1. Reserved(d)' = Reserved(d) /\ Over(d)' = Over(d)
    BY <1>8 DEF Reserved, Over
  <2>2. DayExact(d) /\ DayKept(d)
    BY DEF Exact
  <2> QED
    BY <1>1, <2>1, <2>2 DEF DayExact, DayKept
<1> QED
  BY <1>7, <1>9 DEF Exact

\* The bytes read of each part.
Actual == [p \in PartIds |-> part[p].actual]

\* What was read of a part is a number, one more than the largest size at the most.
LEMMA ActualType ==
  ASSUME TypeOK
  PROVE  \A p \in PartIds : Actual[p] = part[p].actual /\ Actual[p] \in Nat /\ Actual[p] \in Int
                            /\ Actual[p] <= PartMax + 1
  BY Columns DEF Actual

\* Parts overshoot by a unit each, and only those that are too large do.
LEMMA Overshoot ==
  ASSUME TypeOK, NEW U \in SUBSET PartIds
  PROVE  SumFunctionOnSet(Actual, U) <=
           PartMax * Cardinality(U) + Cardinality({p \in U : part[p].actual > PartMax})
<1> DEFINE Sum(T) == SumFunctionOnSet(Actual, T)
           Large(T) == {p \in T : part[p].actual > PartMax}
           Bounded(T) == Sum(T) <= PartMax * Cardinality(T) + Cardinality(Large(T))
           Good == {T \in SUBSET PartIds : Bounded(T)}
<1>1. PartMax \in Nat
  BY Columns
<1>2. {} \in Good
  <2>1. Sum({}) = 0 /\ Cardinality({}) = 0
    BY SumEmpty, FS_EmptySet
  <2>2. Large({}) = {}
    OBVIOUS
  <2>3. Cardinality(Large({})) = 0
    BY <2>1, <2>2
  <2>4. PartMax * Cardinality({}) = 0
    BY <1>1, <2>1
  <2>5. Bounded({})
    BY <2>1, <2>3, <2>4
  <2> QED
    BY <2>5
<1>3. ASSUME NEW T \in SUBSET PartIds, NEW x \in PartIds \ T, T \in Good
      PROVE  T \cup {x} \in Good
  <2>1. /\ IsFiniteSet(T) /\ Cardinality(T) \in Nat
        /\ IsFiniteSet(Large(T)) /\ Cardinality(Large(T)) \in Nat
    BY PartsFinite
  <2>2. /\ Sum(T \cup {x}) = Sum(T) + Actual[x] /\ Sum(T) \in Int
    <3> HIDE DEF Good
    <3>1. \A y \in T : Actual[y] \in Int
      BY ActualType
    <3>2. Actual[x] \in Int
      BY ActualType
    <3>3. SumFunctionOnSet(Actual, T \cup {x}) = SumFunctionOnSet(Actual, T) + Actual[x]
      BY <2>1, <3>1, <3>2, SumInsert
    <3>4. SumFunctionOnSet(Actual, T) \in Int
      BY <2>1, <3>1, SumType
    <3> QED
      BY <3>3, <3>4
  <2>3. Cardinality(T \cup {x}) = Cardinality(T) + 1
    BY <2>1, FS_AddElement
  <2>4. PartMax * Cardinality(T \cup {x}) = PartMax * Cardinality(T) + PartMax
        /\ PartMax * Cardinality(T) \in Nat
    BY <1>1, <2>1, <2>3, OneMore
  <2>5. Bounded(T)
    BY <1>3
  <2>6. CASE part[x].actual > PartMax
    <3>1. Large(T \cup {x}) = Large(T) \cup {x} /\ x \notin Large(T)
      BY <2>6
    <3>2. Cardinality(Large(T \cup {x})) = Cardinality(Large(T)) + 1
      BY <2>1, <3>1, FS_AddElement
    <3>3. Actual[x] <= PartMax + 1 /\ Actual[x] \in Nat
      BY ActualType
    <3> HIDE DEF Sum, Large
    <3>4. Bounded(T \cup {x})
      BY <1>1, <2>1, <2>2, <2>4, <2>5, <3>2, <3>3
    <3> QED
      BY <3>4
  <2>7. CASE ~(part[x].actual > PartMax)
    <3>1. Large(T \cup {x}) = Large(T)
      BY <2>7
    <3>2. Actual[x] <= PartMax /\ Actual[x] \in Nat
      BY <1>1, <2>7, ActualType
    <3> HIDE DEF Sum, Large
    <3>4. Bounded(T \cup {x})
      BY <1>1, <2>1, <2>2, <2>4, <2>5, <3>1, <3>2
    <3> QED
      BY <3>4
  <2> QED
    BY <2>6, <2>7
<1>4. \A T \in SUBSET PartIds : T \in Good
  <2> HIDE DEF Good
  <2> QED
    BY <1>2, <1>3, PartsFinite, SetInduction
<1> QED
  BY <1>4

\* The largest size of some parts fewer.
LEMMA Distribute ==
  ASSUME NEW m \in Nat, NEW n \in Nat, NEW k \in Nat, n - k \in Nat
  PROVE  m * (n - k) = m * n - m * k
  OBVIOUS

\* What a recovery gives back is what its batches held.
LEMMA RecoverCounters ==
  ASSUME TypesInv, Exact, NEW stale \in SUBSET Batches, Recover(stale)
  PROVE  Exact'
<1>1. /\ batch \in [Batches -> BatchRow] /\ part \in [PartIds -> PartRow] /\ TypeOK
      /\ window \in [Days -> [attempted : Nat, reserved : Nat]]
      /\ PartMax \in Nat /\ DailyBytes \in Nat
  BY Columns DEF TypesInv, TypeOK
<1>2. SlotsExact'
  <2>1. stale \subseteq SlotsTaken
    BY DEF Recover, Unfinished, SlotsTaken
  <2>2. SlotsTaken' = SlotsTaken \ stale
    BY <1>1 DEF Recover, SlotsTaken
  <2>3. IsFiniteSet(SlotsTaken) /\ IsFiniteSet(stale) /\ Cardinality(stale) \in Nat
        /\ Cardinality(SlotsTaken) \in Nat
    BY Counted, PartsFinite
  <2>4. SlotsTaken \cap stale = stale
    BY <2>1
  <2>5. Cardinality(SlotsTaken \ stale) = Cardinality(SlotsTaken) - Cardinality(SlotsTaken \cap stale)
    BY <2>3, FS_Difference
  <2>6. slots' = slots - Cardinality(stale) /\ slots = Cardinality(SlotsTaken)
    BY DEF Recover, Exact, SlotsExact
  <2> QED
    BY <2>2, <2>4, <2>5, <2>6 DEF SlotsExact
<1>3. ASSUME NEW d \in Days PROVE DayExact(d)' /\ DayKept(d)'
  <2> DEFINE U == Unsettled(stale, d)
             Large == {p \in U : part[p].actual > PartMax}
  <2>1. \A p \in PartIds : /\ part'[p].day = part[p].day /\ part'[p].actual = part[p].actual
                           /\ p[1] \notin stale => part'[p].status = part[p].status
                           /\ p[1] \in stale /\ part[p].status # "none" => part'[p].status = "RELEASED"
                           /\ part[p].status = "none" => part'[p].status = "none"
    BY <1>1 DEF Recover, PartRow
  <2>2. U \subseteq Reserved(d) /\ Reserved(d)' = Reserved(d) \ U
    <3>1. U \subseteq Reserved(d)
      BY DEF Unsettled, Reserved
    <3>2. ASSUME NEW p \in PartIds PROVE p \in Reserved(d)' <=> p \in Reserved(d) \ U
      BY <2>1 DEF Unsettled, Reserved
    <3> QED
      BY <3>1, <3>2 DEF Reserved
  <2>3. Over(d)' = Over(d) \cup Large /\ Over(d) \cap Large = {}
    <3>1. ASSUME NEW p \in PartIds PROVE p \in Over(d)' <=> p \in Over(d) \cup Large
      BY <1>1, <2>1 DEF Unsettled, Over, PartRow
    <3>2. Over(d) \cap Large = {}
      BY DEF Over, Unsettled
    <3>3. Large \subseteq PartIds
      BY DEF Unsettled
    <3> QED
      BY <3>1, <3>2, <3>3 DEF Over
  <2>4. /\ U \in SUBSET PartIds /\ Large \in SUBSET PartIds
        /\ IsFiniteSet(U) /\ Cardinality(U) \in Nat
        /\ IsFiniteSet(Large) /\ Cardinality(Large) \in Nat
        /\ IsFiniteSet(Reserved(d)) /\ Cardinality(Reserved(d)) \in Nat
        /\ IsFiniteSet(Over(d)) /\ Cardinality(Over(d)) \in Nat
    <3>1. U \in SUBSET PartIds /\ Large \in SUBSET PartIds
      BY DEF Unsettled
    <3> QED
      BY <3>1, PartsFinite, Counted
  <2>5. Cardinality(Reserved(d)') = Cardinality(Reserved(d)) - Cardinality(U)
        /\ Cardinality(Reserved(d)') \in Nat
    <3>1. Reserved(d) \cap U = U
      BY <2>2
    <3>2. Cardinality(Reserved(d) \ U) = Cardinality(Reserved(d)) - Cardinality(Reserved(d) \cap U)
          /\ IsFiniteSet(Reserved(d) \ U)
      BY <2>4, FS_Difference
    <3>3. Cardinality(Reserved(d) \ U) \in Nat
      BY <3>2, FS_CardinalityType
    <3> QED
      BY <2>2, <3>1, <3>2, <3>3
  <2>6. Cardinality(Over(d)') = Cardinality(Over(d)) + Cardinality(Large)
    <3>1. Cardinality(Over(d) \cup Large) =
            Cardinality(Over(d)) + Cardinality(Large) - Cardinality(Over(d) \cap Large)
      BY <2>4, FS_Union
    <3>2. Cardinality(Over(d) \cap Large) = 0
      BY <2>3, FS_EmptySet
    <3> QED
      BY <2>3, <2>4, <3>1, <3>2
  <2>7. /\ window'[d].attempted = window[d].attempted + SumFunctionOnSet(Actual, U)
        /\ window'[d].reserved = window[d].reserved - PartMax * Cardinality(U)
    BY <1>1 DEF Recover, Charged, Actual
  <2>8. SumFunctionOnSet(Actual, U) <= PartMax * Cardinality(U) + Cardinality(Large)
    BY <1>1, <2>4, Overshoot
  <2>9. SumFunctionOnSet(Actual, U) \in Int
    <3>1. \A p \in U : Actual[p] \in Int
      BY <1>1, <2>4, ActualType
    <3> QED
      BY <2>4, <3>1, SumType
  <2>10. window[d].attempted \in Nat /\ window[d].reserved \in Nat
    BY <1>1
  <2>11. DayExact(d) /\ DayKept(d)
    BY DEF Exact
  <2> HIDE DEF U, Large
  <2>12. PartMax * Cardinality(Reserved(d)') = PartMax * Cardinality(Reserved(d)) - PartMax * Cardinality(U)
    BY <1>1, <2>4, <2>5, Distribute
  <2>13. DayExact(d)'
    BY <2>7, <2>11, <2>12 DEF DayExact
  <2>14. PartMax * Cardinality(U) \in Nat
    BY <1>1, <2>4, OneMore
  <2>15. window'[d].attempted + window'[d].reserved <= DailyBytes + Cardinality(Over(d)')
    BY <1>1, <2>4, <2>6, <2>7, <2>8, <2>9, <2>10, <2>11, <2>14 DEF DayKept
  <2> QED
    BY <2>13, <2>15 DEF DayKept
<1> QED
  BY <1>2, <1>3 DEF Exact

\* A lease that was recovered stays in the history, so that the counters are exact
\* before a step whenever they are to be exact after it.
LEMMA QuotaStep ==
  ASSUME IInv, [Next]_vars
  PROVE  QuotaInv'
<1> SUFFICES ASSUME overtaken' = {} PROVE Exact'
  BY DEF QuotaInv, Exact
<1>1. TypesInv
  BY DEF IInv
<1>2. overtaken = {}
  <2>1. CASE \E b \in Batches : CreateBatch(b) \/ HandlerSteps(b) \/ Crash(b)
    BY <1>1, <2>1, OneHandler DEF TypesInv
  <2>2. CASE \E stale \in SUBSET Batches : Recover(stale)
    BY <2>2 DEF Recover
  <2>3. CASE NewHour \/ Midnight \/ UNCHANGED vars
    BY <2>3 DEF NewHour, Midnight, vars
  <2> QED
    BY <2>1, <2>2, <2>3 DEF Next
<1>3. Exact
  BY <1>2 DEF IInv, QuotaInv, Exact
<1>4. ASSUME NEW b \in Batches, CreateBatch(b) \/ HandlerSteps(b) \/ Crash(b)
      PROVE  Exact'
  BY <1>1, <1>2, <1>3, <1>4, HandlerCases, CreateCounters, ReserveCounters, MoveCounters,
     ReadCounters, SettleCounters, ReleaseCounters
<1>5. ASSUME NEW stale \in SUBSET Batches, Recover(stale)
      PROVE  Exact'
  BY <1>1, <1>3, <1>5, RecoverCounters
<1>6. CASE NewHour \/ Midnight \/ UNCHANGED vars
  <2>1. UNCHANGED <<slots, window, batch, part>>
    BY <1>6 DEF NewHour, Midnight, vars
  <2>2. SlotsTaken' = SlotsTaken /\ \A d \in Days : Reserved(d)' = Reserved(d) /\ Over(d)' = Over(d)
    BY <2>1 DEF SlotsTaken, Reserved, Over
  <2> QED
    BY <1>1, <1>3, <2>1, <2>2, CountersSame
<1> QED
  BY <1>4, <1>5, <1>6 DEF Next

\* At first nothing is counted.
LEMMA InitQuota == Init => QuotaInv
<1> SUFFICES ASSUME Init PROVE Exact
  BY DEF QuotaInv, Exact
<1>1. SlotsTaken = {} /\ \A d \in Days : Reserved(d) = {} /\ Over(d) = {}
  BY DEF Init, SlotsTaken, Reserved, Over
<1>2. Cardinality({}) = 0
  BY FS_EmptySet
<1>3. SlotsExact
  BY <1>1, <1>2 DEF Init, SlotsExact
<1>4. ASSUME NEW d \in Days PROVE DayExact(d) /\ DayKept(d)
  <2>1. window[d].attempted = 0 /\ window[d].reserved = 0
    BY DEF Init
  <2>2. Cardinality(Reserved(d)) = 0 /\ Cardinality(Over(d)) = 0
    BY <1>1, <1>2
  <2>3. DayExact(d)
    <3>1. PartMax * 0 = 0
      BY UploadAssumption
    <3> QED
      BY <2>1, <2>2, <3>1 DEF DayExact
  <2>4. DayKept(d)
    BY <2>1, <2>2, UploadAssumption DEF DayKept
  <2> QED
    BY <2>3, <2>4
<1> QED
  BY <1>3, <1>4 DEF Exact

\* The inductive invariant: where each handler is, and what its rows and the counters
\* hold while it is there.
THEOREM UploadInvariant == Spec => []IInv
<1>1. Init => IInv
  BY InitTypes, InitQuota DEF IInv
<1>2. IInv /\ [Next]_vars => IInv'
  BY TypesStep, QuotaStep DEF IInv
<1> QED
  BY <1>1, <1>2, PTL DEF Spec

\* The slots taken and the bytes reserved are exactly those of the uploads under way,
\* unless a lease was recovered under a living handler.
THEOREM CountersAreExact == Spec => []QuotaExact
<1>1. IInv => QuotaExact
  BY DEF IInv, TypesInv, QuotaInv, QuotaExact, SlotsExact, SlotsTaken, DayExact, Reserved
<1> QED
  BY <1>1, UploadInvariant, PTL

\* No day takes more than its limit and the unit that each too large part overshoots.
THEOREM DayIsLimited == Spec => []DailyLimitKept
<1>1. IInv => DailyLimitKept
  <2> SUFFICES ASSUME IInv, overtaken = {}, NEW d \in Days
               PROVE  window[d].attempted + window[d].reserved <=
                        DailyBytes + Cardinality({p \in PartIds : part[p].actual > PartMax})
    BY DEF DailyLimitKept
  <2> DEFINE Large == {p \in PartIds : part[p].actual > PartMax}
  <2>1. DayKept(d) /\ TypeOK
    BY DEF IInv, QuotaInv, TypesInv
  <2>2. Over(d) \subseteq Large
    BY DEF Over
  <2>3. IsFiniteSet(Large) /\ Cardinality(Large) \in Nat
    BY PartsFinite
  <2>4. Cardinality(Over(d)) <= Cardinality(Large)
    BY <2>2, <2>3, FS_Subset
  <2>5. /\ window[d].attempted \in Nat /\ window[d].reserved \in Nat /\ DailyBytes \in Nat
        /\ Cardinality(Over(d)) \in Nat
    BY <2>1, Columns, Counted
  <2> HIDE DEF Large
  <2>6. window[d].attempted + window[d].reserved <= DailyBytes + Cardinality(Large)
    BY <2>1, <2>3, <2>4, <2>5 DEF DayKept
  <2> QED
    BY <2>6 DEF Large
<1> QED
  BY <1>1, UploadInvariant, PTL

-----------------------------------------------------------------------------
(* What was read is charged *)

\* The parts that are settled, but for the one an overtaken handler may still be
\* reading; it is charged when the handler settles it, a second time.
Owed(d) ==
  {p \in PartIds : /\ part[p].status \in {"SETTLED", "RELEASED"} /\ part[p].day = d
                   /\ ~(OvertakenReading(p[1]) /\ p = Current(p[1]))}

ChargedInv == \A d \in Days : window[d].attempted >= SumFunctionOnSet(Actual, Owed(d))

\* What is owed are finitely many parts.
LEMMA OwedParts ==
  ASSUME NEW d
  PROVE  Owed(d) \in SUBSET PartIds /\ IsFiniteSet(Owed(d))
<1>1. Owed(d) \in SUBSET PartIds
  BY DEF Owed
<1> QED
  BY <1>1, PartsFinite

\* A step that settles nothing more.
LEMMA NothingOwed ==
  ASSUME TypeOK, ChargedInv, NEW d \in Days,
         Owed(d)' \subseteq Owed(d),
         \A p \in Owed(d)' : part'[p].actual = part[p].actual,
         window'[d].attempted = window[d].attempted
  PROVE  window'[d].attempted >= SumFunctionOnSet(Actual, Owed(d))'
<1>1. \A p \in Owed(d) : Actual[p] \in Nat /\ Actual[p] \in Int
  BY OwedParts, ActualType
<1>2. IsFiniteSet(Owed(d)) /\ IsFiniteSet(Owed(d)') /\ Owed(d)' \in SUBSET Owed(d)
  BY OwedParts, FS_Subset
<1>3. SumFunctionOnSet(Actual, Owed(d)') <= SumFunctionOnSet(Actual, Owed(d))
  BY <1>1, <1>2, SumSubset
<1>4. \A p \in Owed(d)' : Actual[p] \in Int /\ Actual'[p] = Actual[p]
  BY <1>1, OwedParts DEF Actual
<1>5. SumFunctionOnSet(Actual', Owed(d)') = SumFunctionOnSet(Actual, Owed(d)')
  BY <1>2, <1>4, SumSame
<1>6. SumFunctionOnSet(Actual, Owed(d)) \in Int /\ SumFunctionOnSet(Actual, Owed(d)') \in Int
  BY <1>1, <1>2, <1>4, SumType
<1>7. window[d].attempted >= SumFunctionOnSet(Actual, Owed(d)) /\ window[d].attempted \in Nat
  BY Columns DEF ChargedInv
<1> QED
  BY <1>3, <1>5, <1>6, <1>7

\* A step of a handler that leaves the parts' rows as they are, but for RELEASED.
LEMMA KeepsOwing ==
  ASSUME TypeOK, ChargedInv, UNCHANGED <<window, overtaken>>, NEW b \in Batches,
         \A p \in PartIds : /\ part'[p].day = part[p].day /\ part'[p].actual = part[p].actual
                            /\ part'[p].status \in {"SETTLED", "RELEASED"}
                                 => part[p].status \in {"SETTLED", "RELEASED"},
         \A c \in Batches : /\ request'[c].part = request[c].part
                            /\ request[c].at \in {"reading", "crashed"}
                                 => request'[c].at \in {"reading", "crashed"}
  PROVE  ChargedInv'
<1> SUFFICES ASSUME NEW d \in Days
             PROVE  window'[d].attempted >= SumFunctionOnSet(Actual, Owed(d))'
  BY DEF ChargedInv
<1>1. \A p \in PartIds : /\ OvertakenReading(p[1]) => OvertakenReading(p[1])'
                         /\ Current(p[1])' = Current(p[1])
  BY PartNames DEF OvertakenReading, Current
<1>2. Owed(d)' \subseteq Owed(d)
  BY <1>1 DEF Owed
<1>3. \A p \in Owed(d)' : part'[p].actual = part[p].actual
  BY DEF Owed
<1> QED
  BY <1>2, <1>3, NothingOwed

\* A part that is reserved or being read is not owed yet, nor is it afterwards.
LEMMA PartCharged ==
  ASSUME TypesInv, ChargedInv, NEW b \in Batches, ReservePart(b) \/ ReadBody(b)
  PROVE  ChargedInv'
<1> SUFFICES ASSUME NEW d \in Days
             PROVE  window'[d].attempted >= SumFunctionOnSet(Actual, Owed(d))'
  BY DEF ChargedInv
<1>1. /\ TypeOK /\ HandlerOK(b) /\ request[b].part \in Nat /\ clock.day \in Days
      /\ part \in [PartIds -> PartRow] /\ request \in [Batches -> RequestRow]
      /\ window \in [Days -> [attempted : Nat, reserved : Nat]]
  BY Columns DEF TypesInv, HandlerInv, TypeOK
<1>2. UNCHANGED overtaken /\ request'[b].at = "reading"
      /\ \A c \in Batches : c # b => request'[c] = request[c]
  BY <1>1 DEF ReservePart, ReadBody, RequestRow
<1>3. PICK p \in PartIds : p = Current(b)'
  <2>1. CASE ReservePart(b)
    BY <1>1, <2>1, PartNames DEF ReservePart, Current
  <2>2. CASE ReadBody(b)
    <3>1. Current(b)' = Current(b)
      BY <1>1, <2>2 DEF ReadBody, Current, RequestRow
    <3> QED
      BY <1>1, <2>2, <3>1, CurrentIsPart DEF ReadBody, TypesInv
  <2> QED
    BY <2>1, <2>2
<1>4. /\ \A q \in PartIds : q # p => part'[q] = part[q]
      /\ window'[d].attempted = window[d].attempted
  <2>1. CASE ReservePart(b)
    <3>1. p = <<b, request[b].part + 1>>
      BY <1>1, <1>3, <2>1 DEF ReservePart, Current
    <3> QED
      BY <1>1, <2>1, <3>1 DEF ReservePart
  <2>2. CASE ReadBody(b)
    <3>1. p = Current(b)
      BY <1>1, <1>3, <2>2 DEF ReadBody, Current, RequestRow
    <3> QED
      BY <1>1, <2>2, <3>1 DEF ReadBody
  <2> QED
    BY <2>1, <2>2
<1>5. p \notin Owed(d)'
  <2>1. CASE b \in overtaken
    <3>1. OvertakenReading(b)' /\ p[1] = b /\ p = Current(p[1])'
      BY <1>2, <1>3, <2>1 DEF OvertakenReading, Current
    <3> QED
      BY <3>1 DEF Owed
  <2>2. CASE b \notin overtaken
    <3>1. part'[p].status = "RESERVED"
      <4>1. HandlerOK(b)'
        BY HandlerItself, RefusedAsCrashed DEF HandlerSteps
      <4> QED
        BY <1>2, <1>3, <2>2, <4>1 DEF HandlerOK
    <3> QED
      BY <3>1 DEF Owed
  <2> QED
    BY <2>1, <2>2
<1>6. ASSUME NEW q \in Owed(d)'
      PROVE  q \in Owed(d) /\ part'[q].actual = part[q].actual
  <2>1. q \in PartIds /\ q # p /\ part'[q] = part[q]
    BY <1>4, <1>5 DEF Owed
  <2>2. /\ part[q].status \in {"SETTLED", "RELEASED"} /\ part[q].day = d
        /\ ~(OvertakenReading(q[1])' /\ q = Current(q[1])')
    BY <2>1 DEF Owed
  <2>3. ~(OvertakenReading(q[1]) /\ q = Current(q[1]))
    <3>1. CASE q[1] # b
      BY <1>2, <2>1, <2>2, <3>1, PartNames DEF OvertakenReading, Current
    <3>2. CASE q[1] = b /\ ReservePart(b)
      BY <3>2 DEF ReservePart, OvertakenReading
    <3>3. CASE q[1] = b /\ ReadBody(b)
      <4>1. Current(b)' = Current(b)
        BY <1>1, <3>3 DEF ReadBody, Current, RequestRow
      <4> QED
        BY <1>3, <2>1, <3>3, <4>1
    <3> QED
      BY <3>1, <3>2, <3>3
  <2> QED
    BY <2>1, <2>2, <2>3 DEF Owed
<1> QED
  BY <1>1, <1>4, <1>6, NothingOwed

\* The part that is settled is charged what was read of it, to the day it was
\* reserved on.
LEMMA SettleCharged ==
  ASSUME TypesInv, ChargedInv, NEW b \in Batches, SettlePart(b)
  PROVE  ChargedInv'
<1> SUFFICES ASSUME NEW d \in Days
             PROVE  window'[d].attempted >= SumFunctionOnSet(Actual, Owed(d))'
  BY DEF ChargedInv
<1>1. /\ TypeOK /\ HandlerOK(b) /\ Current(b) \in PartIds /\ request[b].at = "reading"
      /\ part \in [PartIds -> PartRow] /\ request \in [Batches -> RequestRow]
      /\ window \in [Days -> [attempted : Nat, reserved : Nat]]
  BY CurrentIsPart DEF TypesInv, HandlerInv, TypeOK, SettlePart
<1> PICK p \in PartIds : p = Current(b)
  BY <1>1
<1> PICK e \in Days : e = part[p].day
  BY <1>1, Columns
<1> PICK n \in 0..PartMax + 1 : n = request[b].read
  BY <1>1, Columns
<1>2. /\ part'[p].status = "SETTLED" /\ part'[p].actual = n /\ part'[p].day = e
      /\ \A q \in PartIds : q # p => part'[q] = part[q]
  BY <1>1 DEF SettlePart, PartRow
<1>3. /\ window'[e].attempted = window[e].attempted + n
      /\ \A c \in Days : c # e => window'[c] = window[c]
  BY <1>1 DEF SettlePart
<1>4. /\ UNCHANGED overtaken /\ request'[b].at \in {"headers", "failed"}
      /\ \A c \in Batches : c # b => request'[c] = request[c]
      /\ \A c \in Batches : request'[c].part = request[c].part
  <2>1. PICK at \in {"headers", "failed"} : Go(b, at)
    BY DEF SettlePart
  <2>2. UNCHANGED overtaken
    BY DEF SettlePart
  <2> QED
    BY <1>1, <2>1, <2>2 DEF Go, RequestRow
<1>5. p \notin Owed(d) /\ p[1] = b
  <2>1. p[1] = b
    BY DEF Current
  <2>2. CASE b \in overtaken
    <3>1. OvertakenReading(p[1]) /\ p = Current(p[1])
      BY <1>1, <2>1, <2>2 DEF OvertakenReading
    <3> QED
      BY <2>1, <3>1 DEF Owed
  <2>3. CASE b \notin overtaken
    <3>1. part[p].status = "RESERVED"
      BY <1>1, <2>3 DEF HandlerOK
    <3> QED
      BY <2>1, <3>1 DEF Owed
  <2> QED
    BY <2>1, <2>2, <2>3
<1>6. \A q \in PartIds : q # p => (q \in Owed(d)' <=> q \in Owed(d))
  <2> SUFFICES ASSUME NEW q \in PartIds, q # p PROVE q \in Owed(d)' <=> q \in Owed(d)
    OBVIOUS
  <2>1. part'[q] = part[q] /\ Current(q[1])' = Current(q[1])
    BY <1>2, <1>4, PartNames DEF Current
  <2>2. CASE q[1] = b
    BY <2>1, <2>2 DEF Owed
  <2>3. CASE q[1] # b
    BY <1>4, <2>1, <2>3, PartNames DEF Owed, OvertakenReading
  <2> QED
    BY <2>2, <2>3
<1>7. CASE d # e
  <2>1. p \notin Owed(d)'
    BY <1>2, <1>7 DEF Owed
  <2>2. Owed(d)' \subseteq Owed(d) /\ \A q \in Owed(d)' : part'[q].actual = part[q].actual
    BY <1>2, <1>6, <2>1 DEF Owed
  <2>3. window'[d].attempted = window[d].attempted
    BY <1>3, <1>7
  <2> QED
    BY <1>1, <2>2, <2>3, NothingOwed
<1>8. CASE d = e
  <2>1. Owed(d)' = Owed(d) \cup {p}
    <3>1. p \in Owed(d)'
      BY <1>2, <1>4, <1>5, <1>8 DEF Owed, OvertakenReading
    <3> QED
      BY <1>6, <3>1 DEF Owed
  <2>2. \A q \in Owed(d) : Actual[q] \in Int /\ Actual'[q] = Actual[q] /\ Actual'[q] \in Int
    <3>1. \A q \in Owed(d) : Actual[q] \in Int /\ q \in PartIds /\ q # p
      BY <1>1, <1>5, ActualType DEF Owed
    <3> QED
      BY <1>2, <3>1 DEF Actual
  <2>3. Actual'[p] = n /\ n \in Int /\ n \in Nat
    BY <1>2 DEF Actual
  <2>4. SumFunctionOnSet(Actual', Owed(d) \cup {p}) = SumFunctionOnSet(Actual', Owed(d)) + Actual'[p]
    BY <1>5, <2>2, <2>3, OwedParts, SumInsert
  <2>5. SumFunctionOnSet(Actual', Owed(d)) = SumFunctionOnSet(Actual, Owed(d))
    BY <2>2, OwedParts, SumSame
  <2>6. SumFunctionOnSet(Actual, Owed(d)) \in Int
    BY <2>2, OwedParts, SumType
  <2>7. window[d].attempted >= SumFunctionOnSet(Actual, Owed(d)) /\ window[d].attempted \in Nat
    BY <1>1 DEF ChargedInv
  <2>8. SumFunctionOnSet(Actual', Owed(d)') = SumFunctionOnSet(Actual, Owed(d)) + n
    BY <2>1, <2>3, <2>4, <2>5
  <2> QED
    BY <1>3, <1>8, <2>3, <2>6, <2>7, <2>8
<1> QED
  BY <1>7, <1>8

\* A recovery charges what the handlers of its batches last recorded.
LEMMA RecoverCharged ==
  ASSUME TypesInv, ChargedInv, NEW stale \in SUBSET Batches, Recover(stale)
  PROVE  ChargedInv'
<1> SUFFICES ASSUME NEW d \in Days
             PROVE  window'[d].attempted >= SumFunctionOnSet(Actual, Owed(d))'
  BY DEF ChargedInv
<1> DEFINE U == Unsettled(stale, d)
<1>1. /\ TypeOK /\ part \in [PartIds -> PartRow]
      /\ window \in [Days -> [attempted : Nat, reserved : Nat]]
  BY DEF TypesInv, TypeOK
<1>2. U \in SUBSET PartIds /\ IsFiniteSet(U) /\ Owed(d) \cap U = {}
  <2>1. U \in SUBSET PartIds
    BY DEF Unsettled
  <2>2. Owed(d) \cap U = {}
    BY DEF Owed, Unsettled
  <2> QED
    BY <2>1, <2>2, PartsFinite
<1>3. window'[d].attempted = window[d].attempted + SumFunctionOnSet(Actual, U)
  BY <1>1 DEF Recover, Charged, Actual
<1>4. \A p \in PartIds :
        /\ part'[p].day = part[p].day /\ part'[p].actual = part[p].actual
        /\ p[1] \notin stale => part'[p].status = part[p].status
        /\ part'[p].status \in {"SETTLED", "RELEASED"}
             => part[p].status \in {"SETTLED", "RELEASED"} \/ part[p].status = "RESERVED"
  BY <1>1 DEF Recover, PartRow
<1>5. Owed(d)' \subseteq Owed(d) \cup U
  <2> SUFFICES ASSUME NEW p \in Owed(d)' PROVE p \in Owed(d) \cup U
    OBVIOUS
  <2>1. /\ p \in PartIds /\ part'[p].status \in {"SETTLED", "RELEASED"} /\ part[p].day = d
        /\ ~(OvertakenReading(p[1])' /\ p = Current(p[1])')
    BY <1>4 DEF Owed
  <2>2. ~(OvertakenReading(p[1]) /\ p = Current(p[1]))
    BY <2>1 DEF Recover, OvertakenReading, Current
  <2>3. CASE part[p].status \in {"SETTLED", "RELEASED"}
    BY <2>1, <2>2, <2>3 DEF Owed
  <2>4. CASE part[p].status = "RESERVED"
    <3>1. p[1] \in stale
      BY <1>4, <2>1, <2>4
    <3> QED
      BY <2>1, <2>4, <3>1 DEF Unsettled
  <2> QED
    BY <1>4, <2>1, <2>3, <2>4
<1> HIDE DEF U
<1>6. \A p \in Owed(d) \cup U : Actual[p] \in Nat /\ Actual[p] \in Int /\ Actual'[p] = Actual[p]
  <2>1. \A p \in Owed(d) \cup U : p \in PartIds
    BY <1>2, OwedParts
  <2> QED
    BY <1>1, <1>4, <2>1, ActualType DEF Actual
<1>7. IsFiniteSet(Owed(d) \cup U) /\ IsFiniteSet(Owed(d)')
  <2>1. IsFiniteSet(Owed(d) \cup U)
    BY <1>2, OwedParts, FS_Union
  <2> QED
    BY <1>5, <2>1, FS_Subset
<1>8. SumFunctionOnSet(Actual', Owed(d)') = SumFunctionOnSet(Actual, Owed(d)')
  BY <1>5, <1>6, <1>7, SumSame
<1>9. SumFunctionOnSet(Actual, Owed(d)') <= SumFunctionOnSet(Actual, Owed(d) \cup U)
  <2>1. Owed(d)' \in SUBSET (Owed(d) \cup U) /\ \A p \in Owed(d) \cup U : Actual[p] \in Nat
    BY <1>5, <1>6
  <2> QED
    BY <1>7, <2>1, SumSubset
<1>10. SumFunctionOnSet(Actual, Owed(d) \cup U) =
         SumFunctionOnSet(Actual, Owed(d)) + SumFunctionOnSet(Actual, U)
  <2>1. \A p \in Owed(d) \cup U : Actual[p] \in Int
    BY <1>6
  <2> QED
    BY <1>2, <2>1, OwedParts, SumUnion
<1>11. /\ SumFunctionOnSet(Actual, Owed(d)) \in Int /\ SumFunctionOnSet(Actual, U) \in Int
       /\ SumFunctionOnSet(Actual, Owed(d)') \in Int
  <2>1. \A p \in Owed(d) : Actual[p] \in Int
    BY <1>6
  <2>2. \A p \in U : Actual[p] \in Int
    BY <1>6
  <2>3. \A p \in Owed(d)' : Actual[p] \in Int
    BY <1>5, <1>6
  <2> QED
    BY <1>2, <1>7, <2>1, <2>2, <2>3, OwedParts, SumType
<1>12. window[d].attempted >= SumFunctionOnSet(Actual, Owed(d)) /\ window[d].attempted \in Nat
  BY <1>1 DEF ChargedInv
<1> QED
  BY <1>3, <1>8, <1>9, <1>10, <1>11, <1>12

\* Every step charges what it settles.
LEMMA ChargedStep ==
  ASSUME TypesInv, ChargedInv, [Next]_vars
  PROVE  ChargedInv'
<1>1. /\ TypeOK /\ part \in [PartIds -> PartRow] /\ request \in [Batches -> RequestRow]
      /\ batch \in [Batches -> BatchRow]
  BY DEF TypesInv, TypeOK
<1>2. ASSUME NEW b \in Batches, CreateBatch(b) PROVE ChargedInv'
  <2>1. UNCHANGED <<window, part, overtaken>> /\ request[b].at = "none"
    BY <1>2 DEF CreateBatch
  <2>2. \A c \in Batches : /\ request'[c].part = request[c].part
                           /\ c # b => request'[c].at = request[c].at
    BY <1>1, <1>2 DEF CreateBatch, Go, RequestRow
  <2> QED
    BY <1>1, <2>1, <2>2, KeepsOwing
<1>3. ASSUME NEW b \in Batches, Moves(b) PROVE ChargedInv'
  <2>1. UNCHANGED <<window, part, overtaken>> /\ Alive(b)
    BY <1>1, <1>3, MoveShape
  <2>2. \A c \in Batches : /\ request'[c].part = request[c].part
                           /\ c # b => request'[c].at = request[c].at
    <3>1. PICK at \in Steps : Go(b, at) \/ UNCHANGED request
      BY <1>1, <1>3, MoveShape
    <3> QED
      BY <1>1, <3>1 DEF Go, RequestRow
  <2>3. request[b].at = "reading" => request'[b].at = "crashed"
    <3> SUFFICES ASSUME request[b].at = "reading" PROVE request'[b].at = "crashed"
      OBVIOUS
    <3>1. Crash(b)
      BY <1>3 DEF Moves, RejectHeaders, PersistIntents, PutObject, Activate, StoreFails,
         MarkForDeletion, DeleteObjects, RecordDeleted, CloseBatch
    <3> QED
      BY <1>1, <3>1 DEF Crash, Go, RequestRow
  <2>4. request[b].at # "crashed"
    BY <2>1 DEF Alive
  <2> QED
    BY <1>1, <2>1, <2>2, <2>3, <2>4, KeepsOwing
<1>4. ASSUME NEW b \in Batches, ReleaseSlot(b) PROVE ChargedInv'
  <2>1. UNCHANGED <<window, overtaken>> /\ request[b].at \in {"activated", "closing"}
    BY <1>4 DEF ReleaseSlot
  <2>2. \A p \in PartIds : /\ part'[p].day = part[p].day /\ part'[p].actual = part[p].actual
                           /\ part'[p].status \in {"SETTLED", "RELEASED"}
                                => part[p].status \in {"SETTLED", "RELEASED"}
    <3>1. CASE UNCHANGED part
      BY <3>1
    <3>2. CASE ReleaseParts(Ids(b))
      BY <1>1, <3>2 DEF ReleaseParts, PartRow
    <3> QED
      BY <1>4, <3>1, <3>2 DEF ReleaseSlot
  <2>3. \A c \in Batches : /\ request'[c].part = request[c].part
                           /\ c # b => request'[c].at = request[c].at
    BY <1>1, <1>4 DEF ReleaseSlot, Go, RequestRow
  <2> QED
    BY <1>1, <2>1, <2>2, <2>3, KeepsOwing
<1>5. CASE NewHour \/ Midnight \/ UNCHANGED vars
  <2>1. UNCHANGED <<window, part, request, overtaken>>
    BY <1>5 DEF NewHour, Midnight, vars
  <2> QED
    BY <2>1 DEF ChargedInv, Owed, OvertakenReading, Current, Actual
<1>6. ASSUME NEW b \in Batches, CreateBatch(b) \/ HandlerSteps(b) \/ Crash(b)
      PROVE  ChargedInv'
  BY <1>2, <1>3, <1>4, <1>6, HandlerCases, PartCharged, SettleCharged
<1>7. ASSUME NEW stale \in SUBSET Batches, Recover(stale)
      PROVE  ChargedInv'
  BY <1>7, RecoverCharged
<1> QED
  BY <1>5, <1>6, <1>7 DEF Next

\* What has been read is charged to the day its part was reserved on.
THEOREM ReadingIsCharged == Spec => []ReadBytesCharged
<1>1. Init => TypesInv /\ ChargedInv
  <2> SUFFICES ASSUME Init PROVE ChargedInv
    BY InitTypes
  <2> SUFFICES ASSUME NEW d \in Days
               PROVE  window[d].attempted >= SumFunctionOnSet(Actual, Owed(d))
    BY DEF ChargedInv
  <2>1. Owed(d) = {} /\ window[d].attempted = 0
    BY DEF Init, Owed
  <2>2. SumFunctionOnSet(Actual, {}) = 0
    BY SumEmpty
  <2> QED
    BY <2>1, <2>2
<1>2. TypesInv /\ ChargedInv /\ [Next]_vars => (TypesInv /\ ChargedInv)'
  BY TypesStep, ChargedStep
<1>3. TypesInv /\ ChargedInv => ReadBytesCharged
  <2> SUFFICES ASSUME TypesInv, ChargedInv, NEW d \in Days
      PROVE  window[d].attempted >=
               SumFunctionOnSet(Actual, {p \in PartIds :
                 /\ part[p].status \in {"SETTLED", "RELEASED"}
                 /\ part[p].day = d /\ ~OvertakenReading(p[1])})
    BY DEF ReadBytesCharged, Actual
  <2> DEFINE Settled == {p \in PartIds : /\ part[p].status \in {"SETTLED", "RELEASED"}
                                         /\ part[p].day = d /\ ~OvertakenReading(p[1])}
  <2>1. Settled \in SUBSET Owed(d)
    BY DEF Owed
  <2>2. \A p \in Owed(d) : Actual[p] \in Nat /\ Actual[p] \in Int
    BY OwedParts, ActualType DEF TypesInv
  <2> HIDE DEF Settled
  <2>3. SumFunctionOnSet(Actual, Settled) <= SumFunctionOnSet(Actual, Owed(d))
    BY <2>1, <2>2, OwedParts, SumSubset
  <2>4. SumFunctionOnSet(Actual, Settled) \in Int /\ SumFunctionOnSet(Actual, Owed(d)) \in Int
    <3>1. IsFiniteSet(Settled) /\ \A p \in Settled : Actual[p] \in Int
      BY <2>1, <2>2, OwedParts, FS_Subset
    <3> QED
      BY <2>2, <3>1, OwedParts, SumType
  <2>5. window[d].attempted >= SumFunctionOnSet(Actual, Owed(d)) /\ window[d].attempted \in Nat
    BY Columns DEF ChargedInv, TypesInv
  <2>6. window[d].attempted >= SumFunctionOnSet(Actual, Settled)
    BY <2>3, <2>4, <2>5
  <2> QED
    BY <2>6 DEF Settled
<1> QED
  BY <1>1, <1>2, <1>3, PTL DEF Spec

-----------------------------------------------------------------------------
(* A batch is stored as a whole or not at all *)

\* No image of the batch is written before all of its parts are there.
Early == {"none", "headers", "reading", "failed", "closing"}

\* While the objects are written or taken back, none of the images is readable.
Late == {"storing", "rollback", "marked", "cleaned"}
NotReadable == {"PENDING_UPLOAD", "UPLOAD_FAILED", "PENDING_DELETE"}

MediaOK(p) ==
  /\ request[p[1]].at \in Early => asset[p] = "none" /\ p \notin stored
  /\ request[p[1]].at \in Late /\ part[p].status # "none" => asset[p] \in NotReadable
  /\ p \in stored => asset[p] \notin {"none", "DELETED"}
  /\ asset[p] = "ACTIVE" => \A q \in Parts(p[1]) : asset[q] = "ACTIVE" /\ q \in stored

MediaInv == \A p \in PartIds : MediaOK(p)

\* A step that leaves the images and the objects as they are.
LEMMA SameMedia ==
  ASSUME MediaInv, UNCHANGED Media, NEW p \in PartIds,
         \A q \in Ids(p[1]) : part'[q].status = "none" <=> part[q].status = "none",
         request'[p[1]].at \in Early => request[p[1]].at \in Early,
         request'[p[1]].at \in Late => request[p[1]].at \in Late
  PROVE  MediaOK(p)'
<1>1. MediaOK(p)
  BY DEF MediaInv
<1>2. Parts(p[1])' = Parts(p[1]) /\ (part'[p].status = "none" <=> part[p].status = "none")
  BY DEF Parts, Ids
<1>3. UNCHANGED asset /\ UNCHANGED stored
  BY DEF Media
<1> QED
  BY <1>1, <1>2, <1>3 DEF MediaOK

\* A request writes no images but its own.
LEMMA OthersMedia ==
  ASSUME TypeOK, MediaInv, NEW b \in Batches, OthersKept(b), NEW p \in PartIds, p[1] # b,
         \A q \in PartIds : q[1] # b => asset'[q] = asset[q] /\ (q \in stored' <=> q \in stored)
  PROVE  MediaOK(p)'
<1>1. MediaOK(p) /\ p[1] \in Batches
  BY PartNames DEF MediaInv
<1>2. request'[p[1]] = request[p[1]]
  BY <1>1 DEF OthersKept
<1>3. \A q \in Ids(p[1]) : part'[q] = part[q] /\ q \in PartIds /\ q[1] # b
  BY PartNames DEF OthersKept, Ids
<1>4. Parts(p[1])' = Parts(p[1]) /\ part'[p] = part[p]
  BY <1>3 DEF Parts, Ids
<1>5. asset'[p] = asset[p] /\ (p \in stored' <=> p \in stored)
      /\ \A q \in Parts(p[1]) : asset'[q] = asset[q] /\ (q \in stored' <=> q \in stored)
  BY <1>3 DEF Parts
<1> QED
  BY <1>1, <1>2, <1>4, <1>5 DEF MediaOK

\* What the steps that write images or objects do to the batch.
LEMMA WritesMedia ==
  ASSUME TypeOK, MediaInv, NEW b \in Batches,
         \/ PersistIntents(b) \/ (\E p \in PartIds : PutObject(b, p)) \/ Activate(b)
         \/ StoreFails(b) \/ MarkForDeletion(b) \/ DeleteObjects(b) \/ RecordDeleted(b)
  PROVE  /\ UNCHANGED part
         /\ \A q \in PartIds : q[1] # b => asset'[q] = asset[q] /\ (q \in stored' <=> q \in stored)
         /\ \A p \in Ids(b) : MediaOK(p)'
<1>1. /\ UNCHANGED part /\ request \in [Batches -> RequestRow]
      /\ asset \in [PartIds -> AssetState] /\ stored \subseteq PartIds
  BY DEF TypeOK, PersistIntents, PutObject, Activate, StoreFails, MarkForDeletion,
     DeleteObjects, RecordDeleted
<1>2. Parts(b)' = Parts(b) /\ Parts(b) \subseteq Ids(b)
      /\ \A q \in Ids(b) : q \in PartIds /\ q[1] = b /\ (q \in Parts(b) <=> part[q].status # "none")
  BY <1>1 DEF Parts, Ids
<1>3. \A q \in Ids(b) : /\ request[b].at \in Early => asset[q] = "none" /\ q \notin stored
                        /\ request[b].at \in Late /\ q \in Parts(b) => asset[q] \in NotReadable
                        /\ q \in stored => asset[q] \notin {"none", "DELETED"}
                        /\ asset[q] = "ACTIVE" => \A r \in Parts(b) : asset[r] = "ACTIVE" /\ r \in stored
  BY <1>2 DEF MediaInv, MediaOK
<1> DEFINE Fine(q) == /\ request'[b].at \in Early => asset'[q] = "none" /\ q \notin stored'
                      /\ request'[b].at \in Late /\ q \in Parts(b) => asset'[q] \in NotReadable
                      /\ q \in stored' => asset'[q] \notin {"none", "DELETED"}
                      /\ asset'[q] = "ACTIVE" => \A r \in Parts(b) : asset'[r] = "ACTIVE" /\ r \in stored'
           Kept == \A q \in PartIds : q[1] # b => asset'[q] = asset[q] /\ (q \in stored' <=> q \in stored)
<1>4. SUFFICES Kept /\ \A q \in Ids(b) : Fine(q)
  <2> SUFFICES ASSUME NEW p \in Ids(b), Fine(p) PROVE MediaOK(p)'
    BY <1>1, <1>4
  <2>1. p[1] = b /\ Parts(b)' = Parts(b) /\ (p \in Parts(b) <=> part'[p].status # "none")
    BY <1>1, <1>2
  <2> QED
    BY <2>1 DEF MediaOK
<1> USE DEF NotReadable, Early, Late
<1>5. CASE PersistIntents(b)
  <2>1. /\ \A q \in PartIds : asset'[q] = IF q \in Parts(b) THEN "PENDING_UPLOAD" ELSE asset[q]
        /\ stored' = stored /\ request'[b].at = "storing" /\ request[b].at = "headers"
    BY <1>1, <1>5 DEF PersistIntents, Go, RequestRow
  <2>2. Kept
    BY <1>2, <2>1
  <2>3. \A q \in Ids(b) : Fine(q)
    BY <1>2, <1>3, <2>1
  <2> QED
    BY <2>2, <2>3
<1>6. ASSUME NEW p \in PartIds, PutObject(b, p) PROVE Kept /\ \A q \in Ids(b) : Fine(q)
  <2>1. asset' = asset /\ stored' = stored \cup {p} /\ p \in Parts(b) /\ request' = request
        /\ request[b].at = "storing"
    BY <1>6 DEF PutObject, IsNextObject
  <2>2. Kept
    BY <1>2, <2>1
  <2>3. \A q \in Ids(b) : Fine(q)
    BY <1>2, <1>3, <2>1
  <2> QED
    BY <2>2, <2>3
<1>7. CASE Activate(b)
  <2>1. /\ \A q \in PartIds : asset'[q] = IF q \in Parts(b) THEN "ACTIVE" ELSE asset[q]
        /\ stored' = stored /\ request'[b].at = "activated" /\ Parts(b) \subseteq stored
    BY <1>1, <1>7 DEF Activate, MayActivate, SetAssets, Go, RequestRow
  <2>2. Kept
    BY <1>2, <2>1
  <2>3. \A q \in Ids(b) : Fine(q)
    BY <1>2, <1>3, <2>1
  <2> QED
    BY <2>2, <2>3
<1>8. CASE StoreFails(b)
  <2>1. PICK p \in PartIds : p \in Parts(b) /\ stored' \in {stored, stored \cup {p}}
    BY <1>8 DEF StoreFails, IsNextObject
  <2>2. /\ \A q \in PartIds : asset'[q] = IF q \in Parts(b) THEN "UPLOAD_FAILED" ELSE asset[q]
        /\ request'[b].at = "rollback" /\ request[b].at = "storing"
    BY <1>1, <1>8 DEF StoreFails, SetAssets, Go, RequestRow
  <2>3. Kept
    BY <1>2, <2>1, <2>2
  <2>4. \A q \in Ids(b) : Fine(q)
    BY <1>2, <1>3, <2>1, <2>2
  <2> QED
    BY <2>3, <2>4
<1>9. CASE MarkForDeletion(b)
  <2>1. /\ \A q \in PartIds : asset'[q] = IF q \in Parts(b) THEN "PENDING_DELETE" ELSE asset[q]
        /\ stored' = stored /\ request'[b].at = "marked" /\ request[b].at = "rollback"
    BY <1>1, <1>9 DEF MarkForDeletion, SetAssets, Go, RequestRow
  <2>2. Kept
    BY <1>2, <2>1
  <2>3. \A q \in Ids(b) : Fine(q)
    BY <1>2, <1>3, <2>1
  <2> QED
    BY <2>2, <2>3
<1>10. CASE DeleteObjects(b)
  <2>1. PICK left \in SUBSET (Parts(b) \cap stored) : stored' = stored \ (Parts(b) \ left)
    BY <1>10 DEF DeleteObjects
  <2>2. asset' = asset /\ request'[b].at = "cleaned" /\ request[b].at = "marked"
    BY <1>1, <1>10 DEF DeleteObjects, Go, RequestRow
  <2>3. Kept
    BY <1>2, <2>1, <2>2
  <2>4. \A q \in Ids(b) : Fine(q)
    BY <1>2, <1>3, <2>1, <2>2
  <2> QED
    BY <2>3, <2>4
<1>11. CASE RecordDeleted(b)
  <2>1. stored' = stored /\ request'[b].at = "activated" /\ request[b].at = "cleaned"
    BY <1>1, <1>11 DEF RecordDeleted, Go, RequestRow
  <2>2. \A q \in PartIds : /\ asset'[q] # asset[q] => q \in Parts(b) \ stored /\ asset'[q] = "DELETED"
    BY <1>1, <1>11 DEF RecordDeleted
  <2>3. Kept
    BY <1>2, <2>1, <2>2
  <2>4. \A q \in Ids(b) : Fine(q)
    BY <1>2, <1>3, <2>1, <2>2
  <2> QED
    BY <2>3, <2>4
<1> HIDE DEF Kept, Fine
<1> QED
  BY <1>5, <1>6, <1>7, <1>8, <1>9, <1>10, <1>11

\* Every step keeps the images and objects of a batch together.
LEMMA MediaStep ==
  ASSUME TypesInv, MediaInv, [Next]_vars
  PROVE  MediaInv'
<1> SUFFICES ASSUME NEW p \in PartIds PROVE MediaOK(p)'
  BY DEF MediaInv
<1>1. /\ TypeOK /\ part \in [PartIds -> PartRow] /\ request \in [Batches -> RequestRow]
      /\ p[1] \in Batches
  BY PartNames DEF TypesInv, TypeOK
<1>2. ASSUME NEW b \in Batches, CreateBatch(b) \/ HandlerSteps(b) \/ Crash(b)
      PROVE  MediaOK(p)'
  <2>1. OthersKept(b)
    BY <1>1, <1>2, OneHandler
  <2>2. CASE UNCHANGED Media /\ p[1] # b
    BY <1>1, <2>1, <2>2, OthersMedia DEF Media
  <2> DEFINE Writes == \/ PersistIntents(b) \/ (\E q \in PartIds : PutObject(b, q)) \/ Activate(b)
                       \/ StoreFails(b) \/ MarkForDeletion(b) \/ DeleteObjects(b) \/ RecordDeleted(b)
  <2>3. CASE Writes
    <3>1. /\ \A q \in PartIds : q[1] # b => asset'[q] = asset[q] /\ (q \in stored' <=> q \in stored)
          /\ \A q \in Ids(b) : MediaOK(q)'
      BY <1>1, <2>3, WritesMedia
    <3>2. CASE p[1] # b
      BY <1>1, <2>1, <3>1, <3>2, OthersMedia
    <3>3. CASE p[1] = b
      BY <3>1, <3>3 DEF Ids
    <3> QED
      BY <3>2, <3>3
  <2>4. ~Writes => UNCHANGED Media
    BY <1>2, RefusedAsCrashed DEF CreateBatch, HandlerSteps, ReservePart, RejectHeaders, ReadBody, SettlePart,
       CloseBatch, ReleaseSlot, Crash, Media
  <2>5. CASE ReservePart(b) /\ p[1] = b
    <3>1. UNCHANGED Media /\ request[b].at = "headers" /\ request'[b].at = "reading"
      BY <1>1, <2>5 DEF ReservePart
    <3>2. MediaOK(p)
      BY DEF MediaInv
    <3>3. UNCHANGED asset /\ UNCHANGED stored
      BY <3>1 DEF Media
    <3>4. asset[p] = "none" /\ p \notin stored
      BY <2>5, <3>1, <3>2 DEF MediaOK, Early
    <3> QED
      BY <2>5, <3>1, <3>3, <3>4 DEF MediaOK, Early, Late
  <2>6. CASE ~Writes /\ ~ReservePart(b) /\ p[1] = b
    <3>1. \A q \in PartIds : part'[q].status = "none" <=> part[q].status = "none"
      <4>1. CASE CreateBatch(b) \/ RejectHeaders(b) \/ CloseBatch(b) \/ Crash(b)
        BY <4>1 DEF CreateBatch, RejectHeaders, CloseBatch, Crash
      <4>2. CASE ReadBody(b)
        BY <1>1, <4>2 DEF ReadBody, PartRow
      <4>3. CASE SettlePart(b)
        <5>1. part[Current(b)].status # "none" /\ Current(b) \in PartIds
          <6>1. HandlerOK(b) /\ request[b].part \in 1..Files[b] /\ Current(b) \in PartIds
            BY <4>3, CurrentIsPart DEF SettlePart, TypesInv, HandlerInv
          <6>2. part[<<b, request[b].part>>].status # "none"
            BY <6>1 DEF HandlerOK
          <6> QED
            BY <6>1, <6>2 DEF Current
        <5> QED
          BY <1>1, <4>3, <5>1 DEF SettlePart, PartRow
      <4>4. CASE ReleaseSlot(b)
        <5>1. CASE UNCHANGED part
          BY <5>1
        <5>2. CASE ReleaseParts(Ids(b))
          BY <1>1, <5>2 DEF ReleaseParts, PartRow
        <5> QED
          BY <4>4, <5>1, <5>2 DEF ReleaseSlot
      <4> QED
        BY <1>2, <2>6, <4>1, <4>2, <4>3, <4>4, RefusedAsCrashed DEF HandlerSteps
    <3>2. /\ request'[b].at \in Early => request[b].at \in Early
          /\ request'[b].at \in Late => request[b].at \in Late
      <4> USE DEF Early, Late
      <4>1. CASE CreateBatch(b) \/ RejectHeaders(b) \/ CloseBatch(b) \/ Crash(b)
        BY <1>1, <4>1 DEF CreateBatch, RejectHeaders, CloseBatch, Crash, Go, RequestRow
      <4>2. CASE ReadBody(b)
        BY <1>1, <4>2 DEF ReadBody, RequestRow
      <4>3. CASE SettlePart(b)
        <5>1. request[b].at = "reading" /\ \E at \in {"headers", "failed"} : Go(b, at)
          BY <4>3 DEF SettlePart
        <5> QED
          BY <1>1, <5>1 DEF Go, RequestRow
      <4>4. CASE ReleaseSlot(b)
        BY <1>1, <4>4 DEF ReleaseSlot, Go, RequestRow
      <4> QED
        BY <1>2, <2>6, <4>1, <4>2, <4>3, <4>4, RefusedAsCrashed DEF HandlerSteps
    <3>3. \A q \in Ids(p[1]) : part'[q].status = "none" <=> part[q].status = "none"
      BY <3>1 DEF Ids
    <3>4. UNCHANGED Media
      BY <2>4, <2>6
    <3> QED
      BY <2>6, <3>2, <3>3, <3>4, SameMedia
  <2> QED
    BY <2>2, <2>3, <2>4, <2>5, <2>6
<1>3. ASSUME NEW stale \in SUBSET Batches, Recover(stale)
      PROVE  MediaOK(p)'
  <2>1. UNCHANGED Media /\ UNCHANGED request
    BY <1>3 DEF Recover, Media
  <2>2. \A q \in PartIds : part'[q].status = "none" <=> part[q].status = "none"
    BY <1>1, <1>3 DEF Recover, PartRow
  <2> QED
    BY <2>1, <2>2, SameMedia DEF Ids
<1>4. CASE NewHour \/ Midnight \/ UNCHANGED vars
  <2>1. UNCHANGED Media /\ UNCHANGED <<request, part>>
    BY <1>4 DEF NewHour, Midnight, vars, Media
  <2> QED
    BY <2>1, SameMedia
<1> QED
  BY <1>2, <1>3, <1>4 DEF Next

\* Every object in the store has a row that accounts for it, and a batch is readable
\* with all of its images or with none.
THEOREM BatchesAreWhole == Spec => []AllOrNothing
<1>1. Init => TypesInv /\ MediaInv
  BY InitTypes DEF Init, MediaInv, MediaOK, Early, Late
<1>2. TypesInv /\ MediaInv /\ [Next]_vars => (TypesInv /\ MediaInv)'
  BY TypesStep, MediaStep
<1>3. TypesInv /\ MediaInv => AllOrNothing
  <2> SUFFICES ASSUME TypeOK, MediaInv PROVE AllOrNothing
    BY DEF TypesInv
  <2>1. stored \subseteq PartIds
    BY DEF TypeOK
  <2> QED
    BY <2>1 DEF AllOrNothing, MediaInv, MediaOK
<1> QED
  BY <1>1, <1>2, <1>3, PTL DEF Spec

-----------------------------------------------------------------------------
(* What becomes of the pictures                                             *)

\* What the types say of single columns.
LEMMA DeletionColumns ==
  ASSUME WellConfigured, MDTypeOK
  PROVE  /\ Sources \subseteq Assets /\ Candidate \in Assets
         /\ Delivery \in Assets
         /\ Candidate \notin Sources /\ Delivery \notin Sources /\ Candidate # Delivery
         /\ None \notin Assets /\ None \notin Cleaners
         /\ \A a \in Assets : picture[a] \in AssetRow
         /\ \A c \in Cleaners : cleaner[c] \in CleanerRow
         /\ NoAsset \in AssetRow /\ IdleCleaner \in CleanerRow
<1>1. Sources \subseteq Assets /\ Candidate \in Assets
          /\ Delivery \in Assets
  BY DEF Assets
<1>2. NoAsset \in AssetRow /\ IdleCleaner \in CleanerRow
  BY DEF NoAsset, IdleCleaner, AssetRow, CleanerRow
<1> QED
  BY <1>1, <1>2 DEF WellConfigured, MDTypeOK

\* Blocked is a Boolean.
LEMMA BlockedBoolean == ASSUME NEW a \in Assets PROVE Blocked(a) \in BOOLEAN
BY DEF Blocked, CaseBlocks

\* Rows in deletion may have any deletion columns, others have none.
RowOK(row) == row \in AssetRow /\ (row.status # "PENDING_DELETE"
    => row = [NoAsset EXCEPT !.status = row.status])

\* An invocation between its call to the store and the transaction after it names the
\* picture it is at; only then does it know what the store has answered.
Positions ==
  \A c \in Cleaners :
    IF cleaner[c].at = "answered" THEN cleaner[c].on # None
    ELSE cleaner[c].on = None /\ ~cleaner[c].deleted

\* Every step keeps the types: a clean-up in between its transactions names a picture.
LEMMA DeletionTypeInductive ==
  ASSUME WellConfigured, MDTypeOK, Positions, [MDNext]_MDvars
  PROVE  MDTypeOK'
<1> USE DeletionColumns, BlockedBoolean
<1>a. \A a \in Assets : RowOK(picture[a])
  BY DEF MDTypeOK, RowOK
<1>b. \A row \in AssetRow :
        /\ \A b, d \in BOOLEAN :
             RowOK([row EXCEPT !.status = "PENDING_DELETE", !.blocked = b, !.due = d])
        /\ \A d \in BOOLEAN : RowOK([row EXCEPT !.status = "PENDING_DELETE", !.due = d])
        /\ \A d \in BOOLEAN :
            RowOK([row EXCEPT !.status = "PENDING_DELETE", !.due = d, !.holder = None])
  BY DEF RowOK, AssetRow, NoAsset
<1>c. \A row \in AssetRow : row.status = "PENDING_DELETE" =>
        /\ \A b, d \in BOOLEAN : RowOK([row EXCEPT !.blocked = b, !.due = d])
        /\ \A d \in BOOLEAN : RowOK([row EXCEPT !.due = d])
        /\ \A c \in Cleaners \cup {None} : RowOK([row EXCEPT !.holder = c])
  BY DEF RowOK, AssetRow, NoAsset
<1>d. /\ \A s \in {"none", "PENDING_UPLOAD", "ACTIVE", "PENDING_DELETE", "DELETED"} :
           RowOK([NoAsset EXCEPT !.status = s])
      /\ \A row : RowOK(row) /\ row.status # "PENDING_DELETE" =>
           \A s \in {"none", "PENDING_UPLOAD", "ACTIVE", "PENDING_DELETE", "DELETED"} :
             RowOK([row EXCEPT !.status = s])
  BY DEF RowOK, AssetRow, NoAsset
<1>e. ASSUME NEW row, RowOK(row) PROVE RowOK(Staged(row))
  <2>1. row \in AssetRow
    BY <1>e DEF RowOK
  <2>2. RowOK([row EXCEPT !.status = "PENDING_DELETE", !.blocked = TRUE, !.due = TRUE])
    BY <1>b, <2>1
  <2> QED
    BY <1>e, <2>2 DEF Staged
<1>f. /\ picture \in [Assets -> AssetRow]
      /\ objects \subseteq Assets /\ grants \subseteq Assets
      /\ order \in OrderRow /\ consent \in ConsentRow
      /\ cleaner \in [Cleaners -> CleanerRow]
  BY DEF MDTypeOK
<1>g. SUFFICES /\ picture' \in [Assets -> AssetRow]
               /\ \A a \in Assets : RowOK(picture'[a])
               /\ objects' \subseteq Assets /\ grants' \subseteq Assets
               /\ order' \in OrderRow /\ consent' \in ConsentRow
               /\ cleaner' \in [Cleaners -> CleanerRow]
  BY DEF MDTypeOK, RowOK
<1>h. ASSUME NEW row, RowOK(row) PROVE row \in AssetRow
  BY <1>h DEF RowOK
<1>1. CASE PlaceOrder
  BY <1>1, <1>a, <1>f DEF PlaceOrder, OrderRow
<1>2. CASE Submit
  BY <1>2, <1>a, <1>f DEF Submit, OrderRow
<1>3. CASE CandidateIntent
  BY <1>3, <1>a, <1>d, <1>f, <1>h DEF CandidateIntent
<1>4. CASE StoreCandidate
  <2>1. RowOK(picture[Candidate]) /\ picture[Candidate].status = "PENDING_UPLOAD"
    BY <1>4, <1>a DEF StoreCandidate
  <2>2. RowOK([picture[Candidate] EXCEPT !.status = "ACTIVE"])
    BY <2>1, <1>d
  <2>3. /\ picture' \in [Assets -> AssetRow]
        /\ \A a \in Assets : RowOK(picture'[a])
    <3>1. CASE picture' = [picture EXCEPT ![Candidate].status = "ACTIVE"]
      BY <3>1, <2>2, <1>a, <1>f, <1>h
    <3>2. CASE picture' = picture
      BY <3>2, <1>a, <1>f
    <3> QED
      BY <1>4, <3>1, <3>2 DEF StoreCandidate
  <2>4. order' \in OrderRow
    BY <1>4, <1>f DEF StoreCandidate, OrderRow
  <2> QED
    BY <1>4, <2>3, <2>4, <1>f DEF StoreCandidate
<1>5. CASE DeliveryIntent
  BY <1>5, <1>a, <1>d, <1>f, <1>h DEF DeliveryIntent
<1>6. CASE BeginWrite
  BY <1>6, <1>a, <1>f DEF BeginWrite, OrderRow
<1>7. CASE EndWrite
  BY <1>7, <1>a, <1>f DEF EndWrite, OrderRow
<1>8. CASE Publish
  BY <1>8, <1>a, <1>d, <1>f, <1>h DEF Publish, OrderRow
<1>9. CASE FailOrder
  BY <1>9, <1>a, <1>b, <1>f, <1>h DEF FailOrder, OrderRow
<1>10. CASE WithdrawInvite
  BY <1>10, <1>a, <1>e, <1>f, <1>h DEF WithdrawInvite, WellConfigured
<1>11. CASE Withdraw
  <2>1. \A a \in Assets : picture'[a] \in {picture[a], Staged(picture[a])}
    BY <1>11 DEF Withdraw
  <2>2. picture' \in [Assets -> AssetRow]
            /\ \A a \in Assets : RowOK(picture'[a])
    BY <1>11, <2>1, <1>a, <1>e, <1>h DEF Withdraw
  <2>3. order' \in OrderRow
    BY <1>11, <1>f DEF Withdraw, OrderRow
  <2>4. consent' \in ConsentRow
    BY <1>11, <1>f DEF Withdraw, ConsentRow, WellConfigured
  <2> QED
    BY <1>11, <1>f, <2>2, <2>3, <2>4 DEF Withdraw
<1>12. CASE SettleCase
  BY <1>12, <1>a, <1>f DEF SettleCase, OrderRow, ConsentRow
<1>13. ASSUME NEW a \in Assets,
              RequestDeletion(a) \/ FallsDue(a) \/ LeaseExpires(a)
              \/ GrantEnds(a)
       PROVE  /\ picture' \in [Assets -> AssetRow]
              /\ \A b \in Assets : RowOK(picture'[b])
              /\ objects' \subseteq Assets /\ grants' \subseteq Assets
              /\ order' \in OrderRow /\ consent' \in ConsentRow
              /\ cleaner' \in [Cleaners -> CleanerRow]
  <2>1. CASE RequestDeletion(a)
    BY <2>1, <1>a, <1>b, <1>f, <1>h DEF RequestDeletion
  <2>2. CASE FallsDue(a)
    BY <2>2, <1>a, <1>c, <1>f, <1>h DEF FallsDue
  <2>3. CASE LeaseExpires(a)
    <3>1. picture[a].status = "PENDING_DELETE"
      BY <2>3, <1>a DEF LeaseExpires, RowOK, NoAsset
    <3> QED
      BY <2>3, <3>1, <1>a, <1>c, <1>f, <1>h DEF LeaseExpires
  <2>4. CASE GrantEnds(a)
    BY <2>4, <1>a, <1>f DEF GrantEnds
  <2> QED
    BY <1>13, <2>1, <2>2, <2>3, <2>4
<1>14. CASE Recheck
  <2>1. \A a \in Assets : RowOK(picture'[a])
    BY <1>14, <1>a, <1>c, <1>f DEF Recheck, InDeletion
  <2> QED
    BY <1>14, <2>1, <1>f, <1>h DEF Recheck
<1>15. ASSUME NEW c \in Cleaners, CleanerSteps(c) \/ CleanerCrash(c)
       PROVE  /\ picture' \in [Assets -> AssetRow]
              /\ \A b \in Assets : RowOK(picture'[b])
              /\ objects' \subseteq Assets /\ grants' \subseteq Assets
              /\ order' \in OrderRow /\ consent' \in ConsentRow
              /\ cleaner' \in [Cleaners -> CleanerRow]
  <2>a. ASSUME NEW row \in CleanerRow, MoveTo(c, row) \/ Onwards(c, row)
        PROVE  cleaner' \in [Cleaners -> CleanerRow]
    BY <2>a, <1>f DEF MoveTo, Onwards
  <2>b. \A row \in CleanerRow : \A a \in Assets :
          /\ [row EXCEPT !.at = "answered", !.todo = @ \ {a}, !.on = a,
              !.deleted = TRUE] \in CleanerRow
          /\ [row EXCEPT !.at = "answered", !.todo = @ \ {a}, !.on = a] \in CleanerRow
          /\ [row EXCEPT !.todo = @ \ {a}] \in CleanerRow
    BY DEF CleanerRow
  <2>c. \A row \in CleanerRow : \A gone \in SUBSET Assets :
          [row EXCEPT !.at = "deleting", !.on = None, !.deleted = FALSE,
              !.gone = gone] \in CleanerRow
    BY DEF CleanerRow
  <2>d. \A T \in SUBSET Assets :
          /\ [IdleCleaner EXCEPT !.at = "deleting", !.todo = T,
              !.claimed = T] \in CleanerRow
          /\ [IdleCleaner EXCEPT !.at = "stuck", !.todo = T] \in CleanerRow
    BY DEF CleanerRow, IdleCleaner
  <2>1. CASE Claim(c)
    <3>1. PICK chosen \in SUBSET {a \in Assets : Claimable(a)} :
            /\ picture' = [a \in Assets |->
                                      IF a \in chosen THEN [picture[a] EXCEPT !.holder = c]
                                      ELSE picture[a]]
            /\ MoveTo(c, [IdleCleaner EXCEPT !.at = "deleting", !.todo = chosen,
                !.claimed = chosen])
      BY <2>1 DEF Claim
    <3>2. \A a \in Assets : RowOK(picture'[a])
      BY <3>1, <1>a, <1>c DEF Claimable, InDeletion
    <3>3. cleaner' \in [Cleaners -> CleanerRow]
      BY <3>1, <2>a, <2>d
    <3> QED
      BY <2>1, <3>1, <3>2, <3>3, <1>f, <1>h DEF Claim
  <2>2. CASE Confirm(c)
    <3> DEFINE a == cleaner[c].on
    <3>0. cleaner[c].on \in Assets \cup {None} /\ cleaner[c].gone \subseteq Assets
      BY <1>f DEF CleanerRow
    <3>1. picture' = [picture EXCEPT ![a] =
               IF cleaner[c].deleted THEN [NoAsset EXCEPT !.status = "DELETED"]
               ELSE [picture[a] EXCEPT !.status = "PENDING_DELETE", !.due = FALSE, !.holder = None]]
      BY <2>2 DEF Confirm
    <3>2. picture' \in [Assets -> AssetRow]
              /\ \A b \in Assets : RowOK(picture'[b])
      <4> HIDE DEF a
      <4> QED BY <3>1, <1>a, <1>b, <1>d, <1>f, <1>h
    <3>3. consent' \in ConsentRow
      BY <2>2, <1>f DEF Confirm, ConsentRow
    <3>4. cleaner[c].on \in Assets
      BY <2>2, <3>0 DEF Confirm, Positions
    <3>5. cleaner' \in [Cleaners -> CleanerRow]
      <4>1. (IF cleaner[c].deleted THEN cleaner[c].gone \cup {a} ELSE cleaner[c].gone)
              \in SUBSET Assets
        BY <3>0, <3>4
      <4> DEFINE G == IF cleaner[c].deleted THEN cleaner[c].gone \cup {a} ELSE cleaner[c].gone
      <4>2. [cleaner[c] EXCEPT !.at = "deleting", !.on = None, !.deleted = FALSE,
                !.gone = G] \in CleanerRow
        BY <4>1, <2>c
      <4>3. Onwards(c, [cleaner[c] EXCEPT !.at = "deleting", !.on = None,
                !.deleted = FALSE, !.gone = G])
        BY <2>2 DEF Confirm
      <4> QED
        BY <4>2, <4>3, <2>a
    <3> QED
      BY <2>2, <3>2, <3>3, <3>5, <1>f DEF Confirm
  <2>3. CASE ConfirmFails(c)
    <3>1. cleaner[c].todo \in SUBSET Assets
      BY <1>f DEF CleanerRow
    <3>2. [IdleCleaner EXCEPT !.at = "stuck", !.todo = cleaner[c].todo]
            \in CleanerRow
      BY <3>1, <2>d
    <3>3. \/ Onwards(c, [IdleCleaner EXCEPT !.at = "stuck", !.todo = cleaner[c].todo])
          \/ MoveTo(c, IdleCleaner)
      BY <2>3 DEF ConfirmFails
    <3>4. cleaner' \in [Cleaners -> CleanerRow]
      BY <3>2, <3>3, <1>f, <2>a, <2>d DEF MoveTo
    <3> QED
      BY <2>3, <3>4, <1>a, <1>f DEF ConfirmFails
  <2>4. ASSUME NEW a \in Assets,
               \/ DeleteObject(c, a) \/ DeleteFails(c, a)
               \/ StuckDelete(c, a)
        PROVE  /\ objects' \subseteq Assets
               /\ cleaner' \in [Cleaners -> CleanerRow]
               /\ UNCHANGED <<picture, grants, order, consent>>
    BY <2>4, <1>f, <2>a, <2>b DEF DeleteObject, DeleteFails, StuckDelete
  <2>5. CASE CleanerCrash(c)
    BY <2>5, <1>a, <1>f, <2>a DEF CleanerCrash
  <2> QED
    BY <1>15, <1>a, <1>f, <2>1, <2>2, <2>3, <2>4, <2>5 DEF CleanerSteps
<1>16. CASE UNCHANGED MDvars
  BY <1>16, <1>a, <1>f DEF MDvars
<1> QED
  BY <1>1, <1>2, <1>3, <1>4, <1>5, <1>6, <1>7, <1>8, <1>9, <1>10, <1>11, <1>12, <1>13, <1>14, <1>15,
     <1>16 DEF MDNext, OrderSteps

-----------------------------------------------------------------------------
(* The pictures of an open job, and what a clean-up has deleted             *)

\* What an invocation may still delete, or is about to write.
Handled(c) == cleaner[c].todo \cup ({cleaner[c].on} \ {None})

\* What the store has told it is deleted.
Past(c) == cleaner[c].gone \cup (IF cleaner[c].deleted THEN {cleaner[c].on} ELSE {})

\* Invocations only ever work on pictures that are revoked for good.
OnlyRevoked == \A c \in Cleaners : \A a \in Handled(c) \cup cleaner[c].gone : Revoked(a)

\* The sources and the candidate of an open job stay blocked once they are revoked, so
\* that no invocation claims them.
NeededStay ==
  JobOpen => \A a \in Sources \cup {Candidate} :
               /\ Revoked(a) => picture[a].blocked
               /\ \A c \in Cleaners : a \notin Handled(c)

\* Nothing is made before the order is submitted, and nothing new after a withdrawal.
MadeInTime ==
  \A a \in {Candidate, Delivery} :
    Exists(a) => /\ order.stage \notin {"none", "queued"}
                 /\ consent.status # "none" => a \in consent.owned

\* What the store has reported as deleted does not come back, although the row may
\* be put back to PENDING_DELETE by an invocation that is late.
DeletedStays ==
  \A c \in Cleaners : Past(c) \cap objects = {} /\ (Delivery \in Past(c) => ~order.writing)

\* A write that is under way is that of a delivery which is not deleted yet, and of no
\* closed case.
WritesEnd ==
  order.writing => /\ picture[Delivery].status \in {"PENDING_UPLOAD", "PENDING_DELETE"}
                   /\ consent.status # "CANCELLED_AND_DELETED"

DeletionInv ==
  /\ ObjectsMatchRows /\ ClosedCaseLeavesNothing
  /\ Positions /\ OnlyRevoked /\ NeededStay /\ MadeInTime /\ DeletedStays /\ WritesEnd

\* The parts of the invariant.
LEMMA DeletionParts ==
  DeletionInv => /\ MDTypeOK /\ ObjectsMatchRows
                 /\ ClosedCaseLeavesNothing /\ Positions
                 /\ OnlyRevoked /\ NeededStay /\ MadeInTime /\ DeletedStays /\ WritesEnd
BY DEF DeletionInv, ObjectsMatchRows

\* run_reference_guard blocks what an open job may need.
LEMMA GuardHoldsOn ==
  ASSUME JobOpen, NEW a \in Sources \cup {Candidate}, Exists(a)
  PROVE  Blocked(a)
<1>1. GenerationUnresolved /\ ~ReferencesWaived(a)
  BY DEF JobOpen, GenerationUnresolved, ReferencesWaived
<1>2. CASE a \in Sources
  BY <1>1, <1>2 DEF Blocked, OrderLists, JobOpen
<1>3. CASE a \notin Sources
  BY <1>1, <1>3 DEF Blocked, Linked
<1> QED
  BY <1>2, <1>3

\* A step that touches nothing but rows, by which pictures are revoked, and blocked if an
\* open job may need them.
LEMMA RowsKeepInv ==
  ASSUME WellConfigured, DeletionInv, MDTypeOK',
         UNCHANGED <<objects, order, consent, cleaner>>,
         \A a \in Assets :
           \/ picture'[a].status = picture[a].status
           \/ picture[a].status \notin {"none", "DELETED"} /\ picture'[a].status = "PENDING_DELETE",
         JobOpen => \A a \in Sources \cup {Candidate} : Revoked(a)'
             => picture'[a].blocked
  PROVE  DeletionInv'
<1> USE DeletionColumns, DeletionParts
<1>1. \A a \in Assets :
        /\ Revoked(a) => Revoked(a)'
        /\ Exists(a)' = Exists(a)
        /\ (Usable(a)' => Usable(a))
        /\ (picture'[a].status = "DELETED") = (picture[a].status = "DELETED")
  BY DEF Revoked, Exists, Usable
<1>2. JobOpen' = JobOpen
  BY DEF JobOpen
<1>3. \A c \in Cleaners : /\ Handled(c)' = Handled(c) /\ Past(c)' = Past(c)
                          /\ Handled(c) \cup cleaner[c].gone \subseteq Assets
  BY DEF Handled, Past, MDTypeOK, CleanerRow
<1>4. ObjectsMatchRows'
  <2>1. \A a \in objects : picture[a].status \notin {"none", "DELETED"} /\ a \in Assets
    BY DEF ObjectsMatchRows, MDTypeOK
  <2> QED
    BY <1>1, <1>2, <2>1 DEF ObjectsMatchRows, Exists
<1>5. ClosedCaseLeavesNothing' /\ Positions'
  BY DEF ClosedCaseLeavesNothing, Positions
<1>6. OnlyRevoked'
  BY <1>1, <1>3 DEF OnlyRevoked
<1>7. NeededStay'
  BY <1>2, <1>3 DEF NeededStay
<1>8. MadeInTime'
  BY <1>1 DEF MadeInTime
<1>9. DeletedStays'
  BY <1>3 DEF DeletedStays
<1>10. WritesEnd'
  BY DEF WritesEnd
<1> QED
  BY <1>4, <1>5, <1>6, <1>7, <1>8, <1>9, <1>10 DEF DeletionInv

\* Withdrawal before the order, deletion on request, the clock, the next check of what is
\* blocked: nothing but rows.
LEMMA RowStepsKeepInv ==
  ASSUME WellConfigured, DeletionInv, MDTypeOK',
         \/ WithdrawInvite \/ Recheck
         \/ \E a \in Assets : RequestDeletion(a) \/ FallsDue(a)
             \/ LeaseExpires(a) \/ GrantEnds(a)
  PROVE  DeletionInv'
<1> USE DeletionColumns, DeletionParts
<1>a. JobOpen => \A a \in Sources \cup {Candidate} :
                   /\ Revoked(a) => picture[a].blocked
                   /\ Exists(a) => Blocked(a)
  BY GuardHoldsOn DEF NeededStay
<1>b. picture \in [Assets -> AssetRow]
  BY DEF MDTypeOK
<1>1. CASE WithdrawInvite
  <2>1. ~JobOpen
    BY <1>1 DEF WithdrawInvite, JobOpen
  <2>2. Partner \in Assets
            /\ picture' = [picture EXCEPT ![Partner] = Staged(picture[Partner])]
    BY <1>1 DEF WithdrawInvite, WellConfigured
  <2>3. \A a \in Assets : \/ picture'[a].status = picture[a].status
                          \/ /\ picture[a].status \notin {"none", "DELETED"}
                             /\ picture'[a].status = "PENDING_DELETE"
    BY <2>2, <1>b DEF Staged, AssetRow
  <2>4. UNCHANGED <<objects, order, consent, cleaner>>
    BY <1>1 DEF WithdrawInvite
  <2> QED
    BY <2>1, <2>3, <2>4, RowsKeepInv
<1>2. CASE Recheck
  <2>1. \A a \in Assets : /\ picture'[a].status = picture[a].status
                          /\ picture'[a].blocked \in {picture[a].blocked,
                              Blocked(a)}
    BY <1>2, <1>b, BlockedBoolean DEF Recheck, AssetRow
  <2>2. UNCHANGED <<objects, order, consent, cleaner>>
    BY <1>2 DEF Recheck
  <2>3. JobOpen => \A a \in Sources \cup {Candidate} : Revoked(a)'
            => picture'[a].blocked
    BY <1>a, <2>1 DEF Revoked, Exists
  <2> QED
    BY <2>1, <2>2, <2>3, RowsKeepInv
<1>3. ASSUME NEW a \in Assets, RequestDeletion(a) PROVE DeletionInv'
  <2>1. /\ picture[a].status \notin {"none", "DELETED", "PENDING_UPLOAD"}
        /\ picture' = [picture EXCEPT ![a].status = "PENDING_DELETE",
                                  ![a].blocked = Blocked(a),
                                      ![a].due = ~Blocked(a)]
        /\ UNCHANGED <<objects, order, consent, cleaner>>
    BY <1>3 DEF RequestDeletion
  <2>2. Exists(a) /\ Blocked(a) \in BOOLEAN
    BY <2>1, BlockedBoolean DEF Exists
  <2>3. /\ picture'[a].status = "PENDING_DELETE" /\ picture'[a].blocked = Blocked(a)
        /\ \A b \in Assets \ {a} : picture'[b] = picture[b]
    <3> HIDE DEF Blocked
    <3> QED BY <2>1, <2>2, <1>b DEF AssetRow
  <2>4. JobOpen => \A b \in Sources \cup {Candidate} : Revoked(b)'
            => picture'[b].blocked
    BY <1>a, <2>2, <2>3 DEF Revoked
  <2> QED
    BY <2>1, <2>3, <2>4, RowsKeepInv
<1>4. ASSUME NEW a \in Assets, FallsDue(a) \/ LeaseExpires(a)
      PROVE  DeletionInv'
  <2>1. /\ UNCHANGED <<objects, order, consent, cleaner>>
        /\ \A b \in Assets :
            picture'[b].status = picture[b].status /\ picture'[b].blocked = picture[b].blocked
    BY <1>4, <1>b DEF FallsDue, LeaseExpires, AssetRow
  <2>2. JobOpen => \A b \in Sources \cup {Candidate} : Revoked(b)'
            => picture'[b].blocked
    BY <1>a, <2>1 DEF Revoked
  <2> QED
    BY <2>1, <2>2, RowsKeepInv
<1>5. ASSUME NEW a \in Assets, GrantEnds(a) PROVE DeletionInv'
  <2>1. UNCHANGED <<picture, objects, order, consent, cleaner>>
    BY <1>5 DEF GrantEnds
  <2>2. JobOpen => \A b \in Sources \cup {Candidate} : Revoked(b)'
            => picture'[b].blocked
    BY <1>a, <2>1 DEF Revoked
  <2> QED
    BY <2>1, <2>2, RowsKeepInv
<1> QED
  BY <1>1, <1>2, <1>3, <1>4, <1>5

\* What a withdrawal does to the rows.
LEMMA WithdrawRows ==
  ASSUME WellConfigured, DeletionInv, Withdraw
  PROVE  /\ \A a \in Assets : \/ picture'[a] = picture[a]
                              \/ /\ picture[a].status \notin {"none", "DELETED"}
                                 /\ picture'[a].status = "PENDING_DELETE" /\ picture'[a].blocked
         /\ \A a \in Assets : (picture'[a].status = "none") = (picture[a].status = "none")
         /\ UNCHANGED <<objects, cleaner>>
<1>1. \A a \in Assets : picture[a] \in AssetRow
          /\ picture'[a] \in {picture[a], Staged(picture[a])}
  BY DeletionColumns, DeletionParts DEF Withdraw
<1>2. \A row \in AssetRow :
        \/ Staged(row) = row
        \/ /\ row.status \notin {"none", "DELETED"}
           /\ Staged(row).status = "PENDING_DELETE" /\ Staged(row).blocked
  BY DEF Staged, AssetRow
<1> QED
  BY <1>1, <1>2 DEF Withdraw

\* An object that an invocation deletes belongs to a picture that is revoked and that no open
\* job may need.
LEMMA DeletingIsSafe ==
  ASSUME WellConfigured, DeletionInv, NEW c \in Cleaners, NEW a \in Assets,
         a \in cleaner[c].todo,
         objects' \in {objects, objects \ {a}}, UNCHANGED <<picture, order, consent>>,
             MDTypeOK'
  PROVE  ObjectsMatchRows'
<1>1. Revoked(a) /\ (JobOpen => a \notin Sources \cup {Candidate})
  BY DeletionParts DEF OnlyRevoked, NeededStay, Handled
<1> QED
  BY <1>1, DeletionParts DEF ObjectsMatchRows, Usable, Revoked,
     JobOpen

\* The sources are still in use when the order is placed, so no invocation has claimed them.
LEMMA PlaceOrderKeepsInv ==
  ASSUME WellConfigured, ~SlowWrites, DeletionInv, MDTypeOK',
         PlaceOrder
  PROVE  DeletionInv'
<1> USE DeletionColumns, DeletionParts
<1>1. /\ ObjectsMatchRows' /\ ClosedCaseLeavesNothing' /\ Positions'
      /\ OnlyRevoked'
      /\ MadeInTime' /\ DeletedStays' /\ WritesEnd'
  BY DEF PlaceOrder, Usable, Revoked, ObjectsMatchRows,
     JobOpen, ClosedCaseLeavesNothing, Positions, OnlyRevoked, Handled,
     MadeInTime, Exists, DeletedStays, Past, WritesEnd
<1>2. NeededStay'
  BY DEF PlaceOrder, Usable, Revoked, NeededStay, JobOpen,
     Handled, OnlyRevoked, MadeInTime, Exists, Positions, MDTypeOK,
     AssetRow, CleanerRow, OrderRow, ConsentRow
<1> QED
  BY <1>1, <1>2 DEF DeletionInv

\* Submission only binds what is there.
LEMMA SubmitKeepsInv ==
  ASSUME WellConfigured, ~SlowWrites, DeletionInv, MDTypeOK',
         Submit
  PROVE  DeletionInv'
<1> USE DeletionColumns, DeletionParts
<1>1. /\ ObjectsMatchRows' /\ ClosedCaseLeavesNothing' /\ Positions'
      /\ OnlyRevoked'
      /\ NeededStay' /\ MadeInTime' /\ DeletedStays' /\ WritesEnd'
  BY DEF Submit, Usable, ObjectsMatchRows, JobOpen,
     ClosedCaseLeavesNothing, Positions, OnlyRevoked, Handled, Revoked,
     NeededStay, MadeInTime, Exists, DeletedStays, Past, WritesEnd
<1> QED
  BY <1>1 DEF DeletionInv

\* The candidate comes into being while nobody has withdrawn.
LEMMA CandidateIntentKeepsInv ==
  ASSUME WellConfigured, ~SlowWrites, DeletionInv, MDTypeOK',
         CandidateIntent
  PROVE  DeletionInv'
<1> USE DeletionColumns, DeletionParts
<1>1. /\ ObjectsMatchRows' /\ ClosedCaseLeavesNothing' /\ Positions'
      /\ OnlyRevoked'
      /\ NeededStay' /\ MadeInTime' /\ DeletedStays' /\ WritesEnd'
  BY DEF CandidateIntent, ConsentStands, ObjectsMatchRows,
     JobOpen, Usable, ClosedCaseLeavesNothing, Positions, OnlyRevoked,
     Handled, Revoked, NeededStay, MadeInTime, Exists, DeletedStays, Past,
     WritesEnd
<1> QED
  BY <1>1 DEF DeletionInv

\* The object comes back only under a row that is not revoked, or not at all.
LEMMA StoreCandidateKeepsInv ==
  ASSUME WellConfigured, ~SlowWrites, DeletionInv, MDTypeOK',
         StoreCandidate
  PROVE  DeletionInv'
<1> USE DeletionColumns, DeletionParts
<1>1. ClosedCaseLeavesNothing' /\ Positions'
  BY DEF StoreCandidate, ConsentStands, ClosedCaseLeavesNothing,
     Positions
<1>2. ObjectsMatchRows'
  BY DEF StoreCandidate, ConsentStands, ObjectsMatchRows,
     JobOpen, Usable, MDTypeOK, AssetRow, CleanerRow,
     OrderRow, ConsentRow
<1>3. OnlyRevoked'
  BY DEF StoreCandidate, ConsentStands, OnlyRevoked, Handled, Revoked,
     MDTypeOK, AssetRow, CleanerRow, OrderRow, ConsentRow
<1>4. NeededStay'
  BY DEF StoreCandidate, ConsentStands, NeededStay, JobOpen, Handled,
     Revoked, MDTypeOK, AssetRow, CleanerRow, OrderRow,
     ConsentRow
<1>5. MadeInTime'
  BY DEF StoreCandidate, ConsentStands, MadeInTime, Exists,
     MDTypeOK, AssetRow, CleanerRow, OrderRow, ConsentRow
<1>6. DeletedStays'
  BY DEF StoreCandidate, ConsentStands, DeletedStays, Past, OnlyRevoked, Handled,
     Revoked, MDTypeOK, AssetRow, CleanerRow, OrderRow,
     ConsentRow
<1>7. WritesEnd'
  BY DEF StoreCandidate, ConsentStands, WritesEnd, MDTypeOK,
     AssetRow, CleanerRow, OrderRow, ConsentRow
<1> QED
  BY <1>1, <1>2, <1>3, <1>4, <1>5, <1>6, <1>7 DEF DeletionInv

\* The delivery comes into being while nobody has withdrawn.
LEMMA DeliveryIntentKeepsInv ==
  ASSUME WellConfigured, ~SlowWrites, DeletionInv, MDTypeOK',
         DeliveryIntent
  PROVE  DeletionInv'
<1> USE DeletionColumns, DeletionParts
<1>1. /\ ObjectsMatchRows' /\ ClosedCaseLeavesNothing' /\ Positions'
      /\ OnlyRevoked'
      /\ NeededStay' /\ MadeInTime' /\ DeletedStays' /\ WritesEnd'
  BY DEF DeliveryIntent, MayStoreDelivery, Usable,
     ConsentStands, ObjectsMatchRows, JobOpen,
     ClosedCaseLeavesNothing, Positions, OnlyRevoked, Handled, Revoked,
     NeededStay, MadeInTime, Exists, DeletedStays, Past, WritesEnd
<1> QED
  BY <1>1 DEF DeletionInv

\* A write begins for a row that is not revoked; no invocation has anything to do with it.
LEMMA BeginWriteKeepsInv ==
  ASSUME WellConfigured, ~SlowWrites, DeletionInv, MDTypeOK',
         BeginWrite
  PROVE  DeletionInv'
<1> USE DeletionColumns, DeletionParts
<1>1. /\ ObjectsMatchRows' /\ ClosedCaseLeavesNothing' /\ Positions'
      /\ OnlyRevoked'
      /\ NeededStay' /\ MadeInTime' /\ WritesEnd'
  BY DEF BeginWrite, MayStoreDelivery, Usable, ConsentStands,
     ObjectsMatchRows, JobOpen, ClosedCaseLeavesNothing, Positions,
     OnlyRevoked, Handled, Revoked, NeededStay, MadeInTime, Exists, WritesEnd
<1>2. DeletedStays'
  BY DEF BeginWrite, MayStoreDelivery, Usable, ConsentStands,
     DeletedStays, Past, OnlyRevoked, Handled, Revoked, MDTypeOK, AssetRow,
     CleanerRow, OrderRow, ConsentRow
<1> QED
  BY <1>1, <1>2 DEF DeletionInv

\* The object that is written belongs to a row that no invocation has deleted.
LEMMA EndWriteKeepsInv ==
  ASSUME WellConfigured, ~SlowWrites, DeletionInv, MDTypeOK',
         EndWrite
  PROVE  DeletionInv'
<1> USE DeletionColumns, DeletionParts
<1>1. /\ Positions' /\ OnlyRevoked' /\ NeededStay' /\ MadeInTime'
      /\ DeletedStays' /\ WritesEnd'
  BY DEF EndWrite, Positions, OnlyRevoked, Handled, Revoked, NeededStay,
     JobOpen, MadeInTime, Exists, DeletedStays, Past, WritesEnd
<1>2. ObjectsMatchRows'
  BY DEF EndWrite, ObjectsMatchRows, JobOpen, Usable, WritesEnd,
     MDTypeOK, AssetRow, CleanerRow, OrderRow, ConsentRow
<1>3. ClosedCaseLeavesNothing'
  BY DEF EndWrite, ClosedCaseLeavesNothing, WritesEnd, MDTypeOK,
     AssetRow, CleanerRow, OrderRow, ConsentRow
<1> QED
  BY <1>1, <1>2, <1>3 DEF DeletionInv

\* A delivery is published after its object has been written.
LEMMA PublishKeepsInv ==
  ASSUME WellConfigured, ~SlowWrites, DeletionInv, MDTypeOK',
         Publish
  PROVE  DeletionInv'
<1> USE DeletionColumns, DeletionParts
<1>1. /\ ObjectsMatchRows' /\ ClosedCaseLeavesNothing' /\ Positions'
      /\ OnlyRevoked'
      /\ NeededStay' /\ MadeInTime' /\ DeletedStays' /\ WritesEnd'
  BY DEF Publish, MayStoreDelivery, Usable, ConsentStands,
     ObjectsMatchRows, JobOpen, ClosedCaseLeavesNothing, Positions,
     OnlyRevoked, Handled, Revoked, NeededStay, MadeInTime, Exists, DeletedStays,
     Past, WritesEnd
<1> QED
  BY <1>1 DEF DeletionInv

\* An order that fails is not open any more; its delivery is staged while it may be written.
LEMMA FailOrderKeepsInv ==
  ASSUME WellConfigured, ~SlowWrites, DeletionInv, MDTypeOK',
         FailOrder
  PROVE  DeletionInv'
<1> USE DeletionColumns, DeletionParts
<1>1. ClosedCaseLeavesNothing' /\ Positions' /\ NeededStay' /\ DeletedStays'
  BY DEF FailOrder, ClosedCaseLeavesNothing, Positions, NeededStay,
     JobOpen, Handled, Revoked, DeletedStays, Past
<1>2. ObjectsMatchRows'
  BY DEF FailOrder, ObjectsMatchRows, JobOpen, Usable,
     MDTypeOK, AssetRow, CleanerRow, OrderRow, ConsentRow
<1>3. OnlyRevoked'
  BY DEF FailOrder, OnlyRevoked, Handled, Revoked, MDTypeOK,
     AssetRow, CleanerRow, OrderRow, ConsentRow
<1>4. MadeInTime'
  BY DEF FailOrder, MadeInTime, Exists, MDTypeOK, AssetRow,
     CleanerRow, OrderRow, ConsentRow
<1>5. WritesEnd'
  BY DEF FailOrder, WritesEnd, MDTypeOK, AssetRow, CleanerRow,
     OrderRow, ConsentRow
<1> QED
  BY <1>1, <1>2, <1>3, <1>4, <1>5 DEF DeletionInv

\* What is linked to the order is staged and blocked, and owned by the case.
LEMMA WithdrawKeepsInv ==
  ASSUME WellConfigured, ~SlowWrites, DeletionInv, MDTypeOK',
         Withdraw
  PROVE  DeletionInv'
<1> USE DeletionColumns, DeletionParts
<1>1. ClosedCaseLeavesNothing' /\ Positions'
  BY DEF Withdraw, Staged, Linked, Exists,
     ClosedCaseLeavesNothing, Positions
<1>2. ObjectsMatchRows'
  <2>1. \A a \in objects : a \in Assets
    BY DEF MDTypeOK
  <2>2. JobOpen' => JobOpen /\ order'.stage = order.stage
    BY DEF Withdraw, JobOpen, MDTypeOK, OrderRow
  <2> QED
    BY WithdrawRows, <2>1, <2>2 DEF Withdraw, ObjectsMatchRows, Usable
<1>3. OnlyRevoked'
  BY WithdrawRows DEF Withdraw, OnlyRevoked, Handled, Revoked, MDTypeOK,
     CleanerRow
<1>4. NeededStay'
  <2>1. JobOpen' => JobOpen
    BY DEF Withdraw, JobOpen, MDTypeOK, OrderRow
  <2>2. \A a \in Sources \cup {Candidate} :
            Revoked(a)' => picture'[a].blocked \/ picture'[a] = picture[a]
    BY WithdrawRows DEF Revoked
  <2> QED
    BY <2>1, <2>2 DEF Withdraw, NeededStay, Handled, Revoked
<1>5. MadeInTime'
  <2>1. \A a \in {Candidate, Delivery} : Exists(a)' => a \in consent'.owned
    BY WithdrawRows DEF Withdraw, Exists, Linked
  <2>2. order.stage \notin {"none", "queued"} => order'.stage \notin {"none", "queued"}
    BY DEF Withdraw, MDTypeOK, OrderRow
  <2> QED
    BY WithdrawRows, <2>1, <2>2 DEF MadeInTime, Exists
<1>6. DeletedStays'
  BY DEF Withdraw, Staged, Linked, Exists, DeletedStays, Past,
     MDTypeOK, AssetRow, CleanerRow, OrderRow, ConsentRow
<1>7. WritesEnd'
  <2>1. order'.writing = order.writing /\ consent'.status # "CANCELLED_AND_DELETED"
    BY DEF Withdraw, MDTypeOK, OrderRow
  <2> QED
    BY WithdrawRows, <2>1 DEF WritesEnd
<1> QED
  BY <1>1, <1>2, <1>3, <1>4, <1>5, <1>6, <1>7 DEF DeletionInv

\* The case is settled: the job does not need its pictures any more.
LEMMA SettleCaseKeepsInv ==
  ASSUME WellConfigured, ~SlowWrites, DeletionInv, MDTypeOK',
         SettleCase
  PROVE  DeletionInv'
<1> USE DeletionColumns, DeletionParts
<1>1. /\ ObjectsMatchRows' /\ ClosedCaseLeavesNothing' /\ Positions'
      /\ OnlyRevoked'
      /\ NeededStay' /\ MadeInTime' /\ DeletedStays' /\ WritesEnd'
  BY DEF SettleCase, ObjectsMatchRows, JobOpen, Usable,
     ClosedCaseLeavesNothing, Positions, OnlyRevoked, Handled, Revoked,
     NeededStay, MadeInTime, Exists, DeletedStays, Past, WritesEnd
<1> QED
  BY <1>1 DEF DeletionInv

\* Only what is not blocked is claimed, so nothing an open job may need.
LEMMA ClaimKeepsInv ==
  ASSUME WellConfigured, ~SlowWrites, DeletionInv, MDTypeOK',
         NEW c \in Cleaners, Claim(c)
  PROVE  DeletionInv'
<1> USE DeletionColumns, DeletionParts
<1>1. /\ ClosedCaseLeavesNothing' /\ Positions' /\ NeededStay' /\ MadeInTime'
      /\ DeletedStays' /\ WritesEnd'
  BY DEF Claim, Claimable, InDeletion, MoveTo,
     IdleCleaner, ClosedCaseLeavesNothing, Positions, NeededStay,
     JobOpen, Handled, Revoked, MadeInTime, Exists, DeletedStays, Past,
     WritesEnd
<1>2. ObjectsMatchRows'
  BY DEF Claim, Claimable, InDeletion, MoveTo,
     IdleCleaner, ObjectsMatchRows, JobOpen, Usable,
     MDTypeOK, AssetRow, CleanerRow, OrderRow, ConsentRow
<1>3. OnlyRevoked'
  BY DEF Claim, Claimable, InDeletion, MoveTo,
     IdleCleaner, OnlyRevoked, Handled, Revoked, MDTypeOK,
     AssetRow, CleanerRow, OrderRow, ConsentRow
<1> QED
  BY <1>1, <1>2, <1>3 DEF DeletionInv

\* The object of a revoked picture that nobody needs is deleted, while it is not being written.
LEMMA DeleteObjectKeepsInv ==
  ASSUME WellConfigured, ~SlowWrites, DeletionInv, MDTypeOK',
         NEW c \in Cleaners, NEW a \in Assets, DeleteObject(c, a)
  PROVE  DeletionInv'
<1> USE DeletionColumns, DeletionParts
<1>1. /\ ClosedCaseLeavesNothing' /\ Positions' /\ OnlyRevoked' /\ NeededStay'
      /\ MadeInTime' /\ DeletedStays' /\ WritesEnd'
  BY DEF DeleteObject, MoveTo, MayDelete,
     ClosedCaseLeavesNothing, Positions, OnlyRevoked, Handled, Revoked,
     NeededStay, JobOpen, MadeInTime, Exists, DeletedStays, Past, WritesEnd
<1>2. ObjectsMatchRows'
  BY DeletingIsSafe DEF DeleteObject, MayDelete
<1> QED
  BY <1>1, <1>2 DEF DeletionInv

\* The same, but the answer is lost.
LEMMA DeleteFailsKeepsInv ==
  ASSUME WellConfigured, ~SlowWrites, DeletionInv, MDTypeOK',
         NEW c \in Cleaners, NEW a \in Assets, DeleteFails(c, a)
  PROVE  DeletionInv'
<1> USE DeletionColumns, DeletionParts
<1>1. /\ ClosedCaseLeavesNothing' /\ Positions' /\ OnlyRevoked' /\ NeededStay'
      /\ MadeInTime' /\ WritesEnd'
  BY DEF DeleteFails, MoveTo, MayDelete,
     ClosedCaseLeavesNothing, Positions, OnlyRevoked, Handled, Revoked,
     NeededStay, JobOpen, MadeInTime, Exists, WritesEnd
<1>2. ObjectsMatchRows'
  BY DeletingIsSafe DEF DeleteFails, MayDelete
<1>3. DeletedStays'
  BY DEF DeleteFails, MoveTo, MayDelete, DeletedStays, Past, Positions,
     MDTypeOK, AssetRow, CleanerRow, OrderRow, ConsentRow
<1> QED
  BY <1>1, <1>2, <1>3 DEF DeletionInv

\* The same by an invocation whose session is broken.
LEMMA StuckDeleteKeepsInv ==
  ASSUME WellConfigured, ~SlowWrites, DeletionInv, MDTypeOK',
         NEW c \in Cleaners, NEW a \in Assets, StuckDelete(c, a)
  PROVE  DeletionInv'
<1> USE DeletionColumns, DeletionParts
<1>1. /\ ClosedCaseLeavesNothing' /\ Positions' /\ OnlyRevoked' /\ NeededStay'
      /\ MadeInTime' /\ DeletedStays' /\ WritesEnd'
  BY DEF StuckDelete, MoveTo, Onwards, IdleCleaner,
     MayDelete, ClosedCaseLeavesNothing, Positions, OnlyRevoked, Handled,
     Revoked, NeededStay, JobOpen, MadeInTime, Exists, DeletedStays,
     Past, WritesEnd
<1>2. ObjectsMatchRows'
  BY DeletingIsSafe DEF StuckDelete, MayDelete
<1> QED
  BY <1>1, <1>2 DEF DeletionInv

\* What the row says after the transaction that follows a delete.
LEMMA ConfirmedRow ==
  ASSUME WellConfigured, DeletionInv, NEW c \in Cleaners, Confirm(c)
  PROVE  LET p == cleaner[c].on
         IN /\ p \in Assets /\ p \in Handled(c) /\ Revoked(p)
            /\ picture'[p].status = IF cleaner[c].deleted THEN "DELETED" ELSE "PENDING_DELETE"
            /\ \A a \in Assets \ {p} : picture'[a] = picture[a]
            /\ cleaner[c].deleted => p \in Past(c) /\ p \notin objects
<1> DEFINE p == cleaner[c].on
<1> USE DeletionColumns, DeletionParts
<1>1. p \in Assets /\ p \in Handled(c) /\ Revoked(p)
  BY DEF Confirm, Positions, OnlyRevoked, Handled, MDTypeOK, CleanerRow
<1>2. /\ picture'[p].status = IF cleaner[c].deleted THEN "DELETED" ELSE "PENDING_DELETE"
      /\ \A a \in Assets \ {p} : picture'[a] = picture[a]
  BY <1>1 DEF Confirm, MDTypeOK, AssetRow, NoAsset
<1>3. cleaner[c].deleted => p \in Past(c) /\ p \notin objects
  BY DEF DeletedStays, Past
<1> QED
  BY <1>1, <1>2, <1>3

\* The row says DELETED of an object that is gone, and the case is closed after the last
\* of them, whichever of the rows the session has not looked at again.
LEMMA ConfirmKeepsInv ==
  ASSUME WellConfigured, ~SlowWrites, DeletionInv, MDTypeOK', NEW c \in Cleaners,
         Confirm(c)
  PROVE  DeletionInv'
<1> USE DeletionColumns, DeletionParts
<1> DEFINE p == cleaner[c].on
<1>a. /\ p \in Assets /\ p \in Handled(c) /\ Revoked(p)
      /\ picture'[p].status = IF cleaner[c].deleted THEN "DELETED" ELSE "PENDING_DELETE"
      /\ \A a \in Assets \ {p} : picture'[a] = picture[a]
      /\ cleaner[c].deleted => p \in Past(c) /\ p \notin objects
  BY ConfirmedRow
<1>b. /\ UNCHANGED <<objects, grants, order>> /\ objects \subseteq Assets
      /\ consent' = IF cleaner[c].deleted /\ MayClose(c)
                    THEN [consent EXCEPT !.status = "CANCELLED_AND_DELETED"] ELSE consent
      /\ consent \in ConsentRow
  BY DEF Confirm, MDTypeOK
<1>c. consent'.owned = consent.owned /\ (JobOpen' => JobOpen)
      /\ (consent'.status = "none" <=> consent.status = "none")
  BY <1>b DEF JobOpen, MayClose, ConsentRow
<1>d. \A d \in Cleaners : /\ Handled(d)' \subseteq Handled(d)
                          /\ Past(d)' \subseteq Past(d) /\ cleaner'[d].gone \subseteq Past(d)
  BY <1>a DEF Confirm, Onwards, MoveTo, IdleCleaner, Handled,
     Past, MDTypeOK, CleanerRow
<1>e. ASSUME cleaner[c].deleted, MayClose(c)
      PROVE  /\ objects \cap (consent.owned \cup {Candidate, Delivery}) = {}
             /\ ~order.writing
  <2>1. \A a \in consent.owned :
          /\ a \in Past(c) \/ picture[a].status = "DELETED"
          /\ a \notin objects
    <3> SUFFICES ASSUME NEW a \in consent.owned
                 PROVE  /\ a \in Past(c) \/ picture[a].status = "DELETED"
                        /\ a \notin objects
      OBVIOUS
    <3>1. a \in Past(c) \/ picture[a].status = "DELETED"
      BY <1>e DEF MayClose, SeesDeleted, Past
    <3> QED
      BY <3>1 DEF ObjectsMatchRows, DeletedStays
  <2>2. \A a \in {Candidate, Delivery} : Exists(a) => a \in consent.owned
    BY <1>e DEF MadeInTime, MayClose
  <2>3. \A a \in {Candidate, Delivery} : a \notin objects
    BY <2>1, <2>2 DEF ObjectsMatchRows, Exists
  <2>4. ~order.writing
    BY <2>1, <2>2 DEF WritesEnd, DeletedStays, Exists
  <2> QED
    BY <2>1, <2>3, <2>4
<1> HIDE DEF p
<1>1. ObjectsMatchRows'
  BY <1>a, <1>b, <1>c DEF ObjectsMatchRows, Usable
<1>2. ClosedCaseLeavesNothing'
  BY <1>b, <1>c, <1>e DEF ClosedCaseLeavesNothing
<1>3. Positions'
  BY DEF Confirm, MoveTo, Onwards, IdleCleaner, Positions,
     MDTypeOK, CleanerRow
<1>4. OnlyRevoked'
  <2>1. \A a \in Assets : Revoked(a) => Revoked(a)'
    BY <1>a DEF Revoked
  <2>2. \A d \in Cleaners : /\ Handled(d) \cup Past(d) \subseteq Assets
                            /\ Past(d) \subseteq Handled(d) \cup cleaner[d].gone
    BY DEF Handled, Past, Positions, MDTypeOK, CleanerRow
  <2> QED
    BY <1>d, <2>1, <2>2 DEF OnlyRevoked
<1>5. NeededStay'
  BY <1>a, <1>c, <1>d DEF NeededStay, Revoked
<1>6. MadeInTime'
  BY <1>a, <1>b, <1>c DEF MadeInTime, Exists, Revoked
<1>7. DeletedStays'
  BY <1>b, <1>d DEF DeletedStays
<1>8. WritesEnd'
  <2>1. order.writing => ~(cleaner[c].deleted /\ p = Delivery)
    BY <1>a DEF DeletedStays
  <2> QED
    BY <1>a, <1>b, <1>e, <2>1 DEF WritesEnd
<1> QED
  BY <1>1, <1>2, <1>3, <1>4, <1>5, <1>6, <1>7, <1>8 DEF DeletionInv

\* The invocation forgets what it has claimed.
LEMMA CrashKeepsInv ==
  ASSUME WellConfigured, ~SlowWrites, DeletionInv, MDTypeOK',
         NEW c \in Cleaners, CleanerCrash(c)
  PROVE  DeletionInv'
<1> USE DeletionColumns, DeletionParts
<1>1. /\ ObjectsMatchRows' /\ ClosedCaseLeavesNothing' /\ Positions'
      /\ OnlyRevoked'
      /\ NeededStay' /\ MadeInTime' /\ DeletedStays' /\ WritesEnd'
  BY DEF CleanerCrash, MoveTo, IdleCleaner, ObjectsMatchRows,
     JobOpen, Usable, ClosedCaseLeavesNothing, Positions, OnlyRevoked,
     Handled, Revoked, NeededStay, MadeInTime, Exists, DeletedStays, Past,
     WritesEnd
<1> QED
  BY <1>1 DEF DeletionInv

\* It forgets all, or all but what it has still to do.
LEMMA ConfirmFailsKeepsInv ==
  ASSUME WellConfigured, ~SlowWrites, DeletionInv, MDTypeOK',
         NEW c \in Cleaners, ConfirmFails(c)
  PROVE  DeletionInv'
<1> USE DeletionColumns, DeletionParts
<1>1. CASE MoveTo(c, IdleCleaner)
  <2>1. CleanerCrash(c)
    BY <1>1 DEF ConfirmFails, CleanerCrash
  <2> QED
    BY <2>1, CrashKeepsInv
<1>2. CASE Onwards(c, [IdleCleaner EXCEPT !.at = "stuck", !.todo = cleaner[c].todo])
  <2>1. /\ ObjectsMatchRows' /\ ClosedCaseLeavesNothing' /\ Positions'
        /\ OnlyRevoked'
        /\ NeededStay' /\ MadeInTime' /\ DeletedStays' /\ WritesEnd'
    BY <1>2 DEF ConfirmFails, MoveTo, Onwards, IdleCleaner,
       ObjectsMatchRows, JobOpen, Usable, ClosedCaseLeavesNothing,
       Positions, OnlyRevoked, Handled, Revoked, NeededStay, MadeInTime, Exists,
       DeletedStays, Past, WritesEnd
  <2> QED
    BY <2>1 DEF DeletionInv
<1> QED
  BY <1>1, <1>2 DEF ConfirmFails

-----------------------------------------------------------------------------

\* To begin with there are the sources and nothing else.
LEMMA DeletionInit == MDInit => DeletionInv
<1> SUFFICES ASSUME WellConfigured, MDInit PROVE DeletionInv
  BY MediaAssumption
<1>1. /\ Sources \subseteq Assets /\ Candidate \in Assets
      /\ Delivery \in Assets
      /\ Candidate \notin Sources /\ Delivery \notin Sources
  BY DEF Assets, WellConfigured
<1>2. /\ \A a \in Assets :
             picture[a] = IF a \in Sources THEN [NoAsset EXCEPT !.status = "ACTIVE"]
                          ELSE NoAsset
      /\ picture \in [Assets -> AssetRow]
  BY DEF MDInit, AssetRow, NoAsset
<1>3. \A c \in Cleaners : cleaner[c] = IdleCleaner
  BY DEF MDInit
<1>4. IdleCleaner \in CleanerRow /\ None \notin Assets
  BY DEF IdleCleaner, CleanerRow, WellConfigured
<1>5. MDTypeOK
  BY <1>1, <1>2, <1>3, <1>4 DEF MDTypeOK, MDInit, NoAsset, OrderRow,
     ConsentRow
<1>6. ObjectsMatchRows
  BY <1>1, <1>2, <1>5 DEF ObjectsMatchRows, MDInit, Usable,
     NoAsset, JobOpen
<1>7. ClosedCaseLeavesNothing /\ WritesEnd /\ NeededStay
  BY DEF ClosedCaseLeavesNothing, WritesEnd, NeededStay, JobOpen, MDInit
<1>8. MadeInTime
  BY <1>1, <1>2 DEF MadeInTime, Exists, NoAsset
<1>9. Positions /\ OnlyRevoked /\ DeletedStays
  BY <1>3 DEF Positions, OnlyRevoked, DeletedStays, Handled, Past, IdleCleaner
<1> QED
  BY <1>6, <1>7, <1>8, <1>9 DEF DeletionInv

\* No step leaves the invariant.
LEMMA DeletionInductive ==
  ASSUME WellConfigured, ~SlowWrites, DeletionInv, [MDNext]_MDvars
  PROVE  DeletionInv'
<1>1. MDTypeOK'
  BY DeletionTypeInductive, DeletionParts
<1>2. CASE UNCHANGED MDvars
  <2>1. UNCHANGED <<picture, objects, order, consent, cleaner>>
    BY <1>2 DEF MDvars
  <2>2. JobOpen => \A b \in Sources \cup {Candidate} : Revoked(b)'
            => picture'[b].blocked
    BY <2>1, DeletionParts DEF NeededStay, Revoked
  <2> QED
    BY <1>1, <2>1, <2>2, RowsKeepInv
<1>3. CASE OrderSteps
  BY <1>1, <1>3, PlaceOrderKeepsInv, SubmitKeepsInv, CandidateIntentKeepsInv,
     StoreCandidateKeepsInv, DeliveryIntentKeepsInv, BeginWriteKeepsInv, EndWriteKeepsInv,
     PublishKeepsInv, FailOrderKeepsInv, WithdrawKeepsInv, SettleCaseKeepsInv, RowStepsKeepInv DEF
     OrderSteps
<1>4. CASE \/ Recheck
           \/ \E a \in Assets : RequestDeletion(a) \/ FallsDue(a)
               \/ LeaseExpires(a) \/ GrantEnds(a)
  BY <1>1, <1>4, RowStepsKeepInv
<1>5. ASSUME NEW c \in Cleaners, CleanerSteps(c) \/ CleanerCrash(c) PROVE DeletionInv'
  BY <1>1, <1>5, ClaimKeepsInv, ConfirmKeepsInv, ConfirmFailsKeepsInv, DeleteObjectKeepsInv,
     DeleteFailsKeepsInv, StuckDeleteKeepsInv, CrashKeepsInv DEF CleanerSteps
<1> QED
  BY <1>2, <1>3, <1>4, <1>5 DEF MDNext

\* The invariant holds of every state.
THEOREM DeletionInvariant == ~SlowWrites => (MDSpec => []DeletionInv)
<1> SUFFICES ASSUME WellConfigured, ~SlowWrites PROVE MDSpec => []DeletionInv
  BY MediaAssumption
<1>1. MDInit => DeletionInv
  BY DeletionInit
<1>2. DeletionInv /\ [MDNext]_MDvars => DeletionInv'
  BY DeletionInductive
<1> QED
  BY <1>1, <1>2, PTL DEF MDSpec

\* No picture is lost that is in use (media_deletion_service with its callers): what
\* the rows and the store say of each other holds through withdrawals, rejections and
\* concurrent clean-ups that crash, time out or are late, and the pictures of an open job
\* stay, for any number of sources and of invocations, provided that a clean-up comes only
\* after the minutes a delivery may take to be written.
THEOREM NoPictureIsLost == ~SlowWrites => (MDSpec => []ObjectsMatchRows)
<1>1. DeletionInv => ObjectsMatchRows
  BY DEF DeletionInv
<1> QED
  BY <1>1, DeletionInvariant, PTL

\* When a consent case is closed, nothing that shows the partner is left in the store, nor
\* comes there afterwards (confirm_storage_deletion, partner_case_can_close), under the
\* same premise, although every clean-up decides by the rows as it loaded them.
THEOREM ClosureIsComplete == ~SlowWrites => (MDSpec => []ClosedCaseLeavesNothing)
<1>1. DeletionInv => ClosedCaseLeavesNothing
  BY DEF DeletionInv
<1> QED
  BY <1>1, DeletionInvariant, PTL

=============================================================================
