------------------------------ MODULE Uploads ------------------------------
(***************************************************************************)
(* Uploads of one user: upload_quota_service and the multipart handler of  *)
(* media_asset_service.  A request takes a slot, reserves the largest size *)
(* for each part before it reads it, settles what it read, stores the      *)
(* images and activates them together.                                     *)
(*                                                                         *)
(* A request keeps the rows it has loaded and never looks at them again,   *)
(* while recover_stale_upload_batches may settle its batch when the lease  *)
(* is over.  An action is one committed transaction or one object call.    *)
(***************************************************************************)
EXTENDS Integers, FiniteSets, Functions

CONSTANTS
  Batches,        \* upload requests, one batch each
  Files,          \* how many files a request carries, at most upload_max_files
  PartMax,        \* upload_max_bytes, in units of the progress step
  DailyBytes,     \* upload_bytes_per_day
  HourlyRequests, \* upload_requests_per_hour
  MaxConcurrent,  \* upload_max_concurrent
  Days            \* bound: the days of a behaviour, 1..n

ASSUME UploadAssumption ==
  /\ IsFiniteSet(Batches) /\ \A b \in Batches : Files[b] \in Nat \ {0}
  /\ PartMax \in Nat \ {0} /\ DailyBytes \in Nat /\ HourlyRequests \in Nat
  /\ MaxConcurrent \in Nat \ {0} /\ 1 \in Days /\ Days \subseteq Nat

VARIABLES
  clock,      \* today, and the requests of this hour
  slots,      \* upload_quota_states.active_slots
  window,     \* upload_quota_windows: the daily bytes
  batch,      \* upload_batches
  part,       \* upload_quota_reservations
  asset,      \* media_assets of the batch, by part
  stored,     \* the objects in the private store
  request,    \* the handler: where it is, the part it reads, the bytes of it
  overtaken   \* history: batches recovered while their handler was alive

vars == <<clock, slots, window, batch, part, asset, stored, request, overtaken>>

PartIds == UNION {{b} \X (1..Files[b]) : b \in Batches}

BatchRow == [status : {"none", "PENDING_UPLOAD", "ACTIVE", "UPLOAD_FAILED"}, released : BOOLEAN]
PartRow ==
  [status : {"none", "RESERVED", "SETTLED", "RELEASED"}, actual : 0..PartMax + 1, day : Days]
AssetState ==
  {"none", "PENDING_UPLOAD", "ACTIVE", "UPLOAD_FAILED", "PENDING_DELETE", "DELETED"}

\* Where a handler is; failed means that it goes to its finally clause.
Steps == {"none", "headers", "reading", "storing", "rollback", "marked", "cleaned",
          "failed", "activated", "closing", "done", "crashed"}
RequestRow == [at : Steps, part : Nat, read : 0..PartMax + 1]

\* Every column has its type, and both counters keep to their CHECK constraints.
TypeOK ==
  /\ clock \in [day : Days, requests : 0..HourlyRequests]
  /\ slots \in 0..MaxConcurrent
  /\ window \in [Days -> [attempted : Nat, reserved : Nat]]
  /\ batch \in [Batches -> BatchRow]
  /\ part \in [PartIds -> PartRow]
  /\ asset \in [PartIds -> AssetState]
  /\ stored \subseteq PartIds
  /\ request \in [Batches -> RequestRow]
  /\ overtaken \subseteq Batches

Init ==
  /\ clock = [day |-> 1, requests |-> 0]
  /\ slots = 0
  /\ window = [d \in Days |-> [attempted |-> 0, reserved |-> 0]]
  /\ batch = [b \in Batches |-> [status |-> "none", released |-> FALSE]]
  /\ part = [p \in PartIds |-> [status |-> "none", actual |-> 0, day |-> 1]]
  /\ asset = [p \in PartIds |-> "none"]
  /\ stored = {}
  /\ request = [b \in Batches |-> [at |-> "none", part |-> 0, read |-> 0]]
  /\ overtaken = {}

-----------------------------------------------------------------------------
(* The handler: admission and parts *)

Go(b, at) == request' = [request EXCEPT ![b].at = at]
Ids(b) == {p \in PartIds : p[1] = b}
Parts(b) == {p \in Ids(b) : part[p].status # "none"}
Current(b) == <<b, request[b].part>>
Alive(b) == request[b].at \notin {"none", "done", "crashed"}
Larger(m, n) == IF m > n THEN m ELSE n
Media == <<asset, stored>>

\* create_upload_batch
CreateBatch(b) ==
  /\ request[b].at = "none"
  /\ clock.requests < HourlyRequests /\ slots < MaxConcurrent
  /\ clock' = [clock EXCEPT !.requests = @ + 1]
  /\ slots' = slots + 1
  /\ batch' = [batch EXCEPT ![b].status = "PENDING_UPLOAD"]
  /\ Go(b, "headers")
  /\ UNCHANGED <<window, part, Media, overtaken>>

\* Whatever is left of a part's largest size is not counted while it is read.
FitsReadBytesOnly == window[clock.day].attempted + PartMax <= DailyBytes

\* The full size of a part must fit beside what is attempted and what is reserved.
Fits == window[clock.day].attempted + window[clock.day].reserved + PartMax <= DailyBytes

\* reserve_upload_part
ReservePart(b) == LET n == request[b].part + 1 IN
  /\ request[b].at = "headers" /\ n <= Files[b]
  /\ Fits
  /\ part' = [part EXCEPT ![<<b, n>>] = [status |-> "RESERVED", actual |-> 0, day |-> clock.day]]
  /\ window' = [window EXCEPT ![clock.day].reserved = @ + PartMax]
  /\ request' = [request EXCEPT ![b] = [at |-> "reading", part |-> n, read |-> 0]]
  /\ UNCHANGED <<clock, slots, batch, Media, overtaken>>

\* There are too many parts, or the headers are wrong.
RejectHeaders(b) ==
  /\ request[b].at = "headers"
  /\ Go(b, "failed")
  /\ UNCHANGED <<clock, slots, window, batch, part, Media, overtaken>>

\* The quota of the day is used up: the rollback expires the batch, and the finally
\* clause fails as it reads its status, so that nothing is closed or released.
RefuseOverLimit(b) ==
  /\ request[b].at = "headers" /\ request[b].part < Files[b]
  /\ ~Fits
  /\ Go(b, "crashed")
  /\ UNCHANGED <<clock, slots, window, batch, part, Media, overtaken>>

\* read_part_body; a handler notices one unit too late that a part is too large.
\* record_upload_progress trusts the status it has loaded, and may lag behind.
ReadBody(b) ==
  /\ request[b].at = "reading" /\ request[b].read <= PartMax
  /\ request' = [request EXCEPT ![b].read = @ + 1]
  /\ \/ part' = [part EXCEPT ![Current(b)].actual = request[b].read + 1]
     \/ UNCHANGED part
  /\ UNCHANGED <<clock, slots, window, batch, Media, overtaken>>

\* settle_upload_part: the status it tests is the one it has loaded, RESERVED.
\* It runs in a finally clause, whether the part was good or not.
SettlePart(b) ==
  /\ request[b].at = "reading"
  /\ LET p == Current(b)
         d == part[p].day
     IN /\ window' = [window EXCEPT ![d] =
             [attempted |-> @.attempted + request[b].read,
              reserved |-> Larger(0, @.reserved - PartMax)]]
        /\ part' = [part EXCEPT ![p].actual = request[b].read, ![p].status = "SETTLED"]
  /\ \/ request[b].read <= PartMax /\ Go(b, "headers")
     \/ Go(b, "failed")
  /\ UNCHANGED <<clock, slots, batch, Media, overtaken>>

-----------------------------------------------------------------------------
(* The handler: objects and assets, store_validated_batch *)

\* The intents are committed before any object is written.
PersistIntents(b) ==
  /\ request[b].at = "headers" /\ Parts(b) = Ids(b)
  /\ asset' = [p \in PartIds |-> IF p \in Parts(b) THEN "PENDING_UPLOAD" ELSE asset[p]]
  /\ Go(b, "storing")
  /\ UNCHANGED <<clock, slots, window, batch, part, stored, overtaken>>

IsNextObject(b, p) ==
  p \in Parts(b) \ stored /\ \A q \in Parts(b) \ stored : p[2] <= q[2]

PutObject(b, p) ==
  /\ request[b].at = "storing" /\ IsNextObject(b, p)
  /\ stored' = stored \cup {p}
  /\ UNCHANGED <<clock, slots, window, batch, part, asset, request, overtaken>>

\* A batch is active as soon as one of its objects is there.
MayActivateEarly(b) == Parts(b) \cap stored # {}

MayActivate(b) == Parts(b) \subseteq stored

SetAssets(b, state) == asset' = [p \in PartIds |-> IF p \in Parts(b) THEN state ELSE asset[p]]

Activate(b) ==
  /\ request[b].at = "storing" /\ MayActivate(b)
  /\ SetAssets(b, "ACTIVE")
  /\ batch' = [batch EXCEPT ![b].status = "ACTIVE"]
  /\ Go(b, "activated")
  /\ UNCHANGED <<clock, slots, window, part, stored, overtaken>>

\* A call of the store raises, with or without the object written.
StoreFails(b) ==
  /\ request[b].at = "storing" /\ ~MayActivate(b)
  /\ \E p \in PartIds : IsNextObject(b, p) /\ stored' \in {stored, stored \cup {p}}
  /\ SetAssets(b, "UPLOAD_FAILED")
  /\ batch' = [batch EXCEPT ![b].status = "UPLOAD_FAILED"]
  /\ Go(b, "rollback")
  /\ UNCHANGED <<clock, slots, window, part, overtaken>>

MarkForDeletion(b) ==
  /\ request[b].at = "rollback"
  /\ SetAssets(b, "PENDING_DELETE")
  /\ Go(b, "marked")
  /\ UNCHANGED <<clock, slots, window, batch, part, stored, overtaken>>

\* delete_private of each object, of which some fail
DeleteObjects(b) ==
  /\ request[b].at = "marked"
  /\ \E left \in SUBSET (Parts(b) \cap stored) : stored' = stored \ (Parts(b) \ left)
  /\ Go(b, "cleaned")
  /\ UNCHANGED <<clock, slots, window, batch, part, asset, overtaken>>

\* What was found absent is DELETED, unless a call raised and nothing is recorded.
RecordDeleted(b) ==
  /\ request[b].at = "cleaned"
  /\ \/ asset' = [p \in PartIds |-> IF p \in Parts(b) \ stored THEN "DELETED" ELSE asset[p]]
     \/ UNCHANGED asset
  /\ Go(b, "activated")
  /\ UNCHANGED <<clock, slots, window, batch, part, stored, overtaken>>

-----------------------------------------------------------------------------
(* The handler: its finally clause *)

\* The batch is still PENDING_UPLOAD as far as the handler knows.
CloseBatch(b) ==
  /\ request[b].at = "failed"
  /\ batch' = [batch EXCEPT ![b].status = "UPLOAD_FAILED"]
  /\ Go(b, "closing")
  /\ UNCHANGED <<clock, slots, window, part, Media, overtaken>>

SlotHeld == slots > 0

ReleaseParts(ids) ==
  part' = [p \in PartIds |->
    IF p \in ids /\ part[p].status = "SETTLED" THEN [part[p] EXCEPT !.status = "RELEASED"]
    ELSE part[p]]

\* release_upload_slot: slot_released_at is the one it has loaded, NULL.  When the
\* counter is already zero it raises and nothing is written.
ReleaseSlot(b) ==
  /\ request[b].at \in {"activated", "closing"}
  /\ Go(b, "done")
  /\ \/ /\ SlotHeld
        /\ slots' = slots - 1
        /\ batch' = [batch EXCEPT ![b].released = TRUE]
        /\ ReleaseParts(Ids(b))
     \/ ~SlotHeld /\ UNCHANGED <<slots, batch, part>>
  /\ UNCHANGED <<clock, window, Media, overtaken>>

\* The instance dies: no finally clause runs.
Crash(b) ==
  /\ Alive(b)
  /\ Go(b, "crashed")
  /\ UNCHANGED <<clock, slots, window, batch, part, Media, overtaken>>

-----------------------------------------------------------------------------
(* recover_stale_upload_batches *)

\* Batches whose lease may be over; time itself is not modelled.
Unfinished == {b \in Batches : batch[b].status = "PENDING_UPLOAD" /\ ~batch[b].released}

\* Recovery returns every part's bytes to the window of the day it runs on.
UnsettledToday(stale, d) ==
  {p \in PartIds : p[1] \in stale /\ part[p].status = "RESERVED" /\ d = clock.day}

Unsettled(stale, d) ==
  {p \in PartIds : p[1] \in stale /\ part[p].status = "RESERVED" /\ part[p].day = d}

\* Recovery gives the reserved bytes back and charges nothing.
ChargedNothing(ids) == 0

\* What the handler last recorded is charged.
Charged(ids) == SumFunctionOnSet([p \in PartIds |-> part[p].actual], ids)

\* One transaction for all of them: if a counter of one is too low it raises, and
\* none is recovered.
Recover(stale) ==
  /\ stale # {} /\ stale \subseteq Unfinished
  /\ \A d \in Days : window[d].reserved >= PartMax * Cardinality(Unsettled(stale, d))
  /\ slots >= Cardinality(stale)
  /\ window' = [d \in Days |->
       [attempted |-> window[d].attempted + Charged(Unsettled(stale, d)),
        reserved |-> window[d].reserved - PartMax * Cardinality(Unsettled(stale, d))]]
  /\ part' = [p \in PartIds |->
       IF p[1] \in stale /\ part[p].status \in {"RESERVED", "SETTLED"}
       THEN [part[p] EXCEPT !.status = "RELEASED"] ELSE part[p]]
  /\ slots' = slots - Cardinality(stale)
  /\ batch' = [b \in Batches |->
       IF b \in stale THEN [status |-> "UPLOAD_FAILED", released |-> TRUE] ELSE batch[b]]
  /\ overtaken' = overtaken \cup {b \in stale : Alive(b)}
  /\ UNCHANGED <<clock, Media, request>>

-----------------------------------------------------------------------------

\* Bound: an hour ends when its requests are used up.
NewHour ==
  /\ clock.requests = HourlyRequests
  /\ clock' = [clock EXCEPT !.requests = 0]
  /\ UNCHANGED <<slots, window, batch, part, Media, request, overtaken>>

Midnight ==
  /\ clock.day + 1 \in Days
  /\ clock' = [day |-> clock.day + 1, requests |-> 0]
  /\ UNCHANGED <<slots, window, batch, part, Media, request, overtaken>>

\* Steps of a handler that goes on.
HandlerSteps(b) ==
  \/ ReservePart(b) \/ RejectHeaders(b) \/ RefuseOverLimit(b) \/ ReadBody(b) \/ SettlePart(b)
  \/ PersistIntents(b) \/ (\E p \in PartIds : PutObject(b, p)) \/ Activate(b)
  \/ StoreFails(b) \/ MarkForDeletion(b) \/ DeleteObjects(b) \/ RecordDeleted(b)
  \/ CloseBatch(b) \/ ReleaseSlot(b)

Next ==
  \/ \E b \in Batches : CreateBatch(b) \/ HandlerSteps(b) \/ Crash(b)
  \/ (\E stale \in SUBSET Batches : Recover(stale)) \/ NewHour \/ Midnight

Spec == Init /\ [][Next]_vars

-----------------------------------------------------------------------------
(* What holds *)

\* Counters stay in range, and unless a lease was recovered under a living handler, a
\* slot is taken exactly by the batches that have not given theirs back, and bytes are
\* reserved exactly for the parts being read.
QuotaExact ==
  /\ TypeOK
  /\ overtaken = {} =>
       /\ slots = Cardinality({b \in Batches : batch[b].status # "none" /\ ~batch[b].released})
       /\ \A d \in Days : window[d].reserved =
            PartMax * Cardinality({p \in PartIds : part[p].status = "RESERVED" /\ part[p].day = d})

\* A day's limit is exceeded by no more than the unit each part may overshoot.
DailyLimitKept ==
  overtaken = {} =>
    \A d \in Days :
      window[d].attempted + window[d].reserved <=
        DailyBytes + Cardinality({p \in PartIds : part[p].actual > PartMax})

\* A handler that was overtaken may still be reading, or have died while it was.
OvertakenReading(b) == b \in overtaken /\ request[b].at \in {"reading", "crashed"}

\* What a settled part has read is charged to the day it was reserved on, however
\* late it is settled and whoever settles it.
ReadBytesCharged ==
  \A d \in Days :
    LET settled == {p \in PartIds : /\ part[p].status \in {"SETTLED", "RELEASED"}
                                    /\ part[p].day = d /\ ~OvertakenReading(p[1])}
    IN window[d].attempted >= SumFunctionOnSet([p \in PartIds |-> part[p].actual], settled)

\* No object is in the store that no row accounts for, and a batch is readable as a
\* whole or not at all.
AllOrNothing ==
  /\ \A p \in stored : asset[p] \notin {"none", "DELETED"}
  /\ \A p \in PartIds : asset[p] = "ACTIVE" =>
       \A q \in Parts(p[1]) : asset[q] = "ACTIVE" /\ q \in stored

=============================================================================
