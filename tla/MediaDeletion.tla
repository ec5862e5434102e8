---------------------------- MODULE MediaDeletion ----------------------------
(***************************************************************************)
(* The private pictures of one order and their deletion: who still refers  *)
(* to them (media_deletion_service.run_reference_guard), a deletion that   *)
(* is asked for, and the clean-up invocations that claim pictures, delete  *)
(* their objects and only then say so in the rows.  The order may be made  *)
(* with a partner, whose withdrawal opens a consent case of its own.       *)
(*                                                                         *)
(* Everything a clean-up knows of the pictures it claimed it has loaded    *)
(* when it claimed them: its session never refreshes them, so its checks   *)
(* of the claim before it writes compare the claim with itself.            *)
(*                                                                         *)
(* The names Init, Next and their like are taken by Uploads, which is      *)
(* proved about together with this module; here they begin with MD.        *)
(***************************************************************************)
EXTENDS Naturals, FiniteSets

CONSTANTS
  Sources,    \* the pictures the order was placed with
  Partner,    \* the one of them that an invited partner uploaded, or None
  Candidate,  \* the picture EvoLink made
  Delivery,   \* what is derived from the candidate for the customer
  Cleaners,   \* concurrent invocations of run_deletion_cleanup
  Limit,      \* how many rows each invocation claims (its limit parameter)
  PartnerInputsPass,  \* whether a submission takes a picture that is not the customer's
  SlowWrites, \* whether a clean-up may reach a picture that is still being written
  None        \* NULL

Assets == Sources \cup {Candidate, Delivery}

\* What the constants have to be.
WellConfigured ==
  /\ Partner \in Sources \cup {None} /\ IsFiniteSet(Sources)
  /\ Candidate \notin Sources /\ Delivery \notin Sources /\ Candidate # Delivery
  /\ Limit \in [Cleaners -> Nat \ {0}]
  /\ PartnerInputsPass \in BOOLEAN /\ SlowWrites \in BOOLEAN
  /\ None \notin Cleaners \cup Assets

ASSUME MediaAssumption == WellConfigured

VARIABLES
  picture,   \* media_assets
  objects,   \* the private store: the pictures whose object is there
  grants,    \* asset_access_grants that have not run out
  order,     \* how far the order's job has come
  consent,   \* partner_consent_cases: the order's row
  cleaner    \* the clean-up invocations

MDvars == <<picture, objects, grants, order, consent, cleaner>>

\* PENDING_DELETE stands for DELETE_FAILED too, which every reader treats alike, and
\* both go with revoked_at; blocked stands for deletion_blockers, due for
\* next_delete_at having passed, holder for the owner of a lease that is still good.
AssetRow ==
  [status : {"none", "PENDING_UPLOAD", "ACTIVE", "PENDING_DELETE", "DELETED"},
   blocked : BOOLEAN, due : BOOLEAN, holder : Cleaners \cup {None}]

\* linked: the sources carry the order's and the job's id since a submission.
\* "cancelled" is every end other than delivery that run_reference_guard knows;
\* writing: an executor has made sure that it may store the delivery, and released
\* its locks to do so.
OrderRow ==
  [stage : {"none", "queued", "submitted", "stored", "ready", "failed", "cancelled"},
   linked : BOOLEAN, writing : BOOLEAN]

ConsentRow ==
  [status : {"none", "OPEN", "SETTLED_DELETION_PENDING", "CANCELLED_AND_DELETED"},
   owned : SUBSET Assets]

\* claimed: what this invocation has claimed; gone: those of them it has written
\* DELETED; at: between two of its transactions; on: the picture it is at.
CleanerRow ==
  [at : {"idle", "deleting", "answered", "stuck"},
   todo : SUBSET Assets, claimed : SUBSET Assets, gone : SUBSET Assets,
   on : Assets \cup {None}, deleted : BOOLEAN]

NoAsset ==
  [status |-> "none", blocked |-> FALSE, due |-> FALSE, holder |-> None]

IdleCleaner ==
  [at |-> "idle", todo |-> {}, claimed |-> {}, gone |-> {}, on |-> None, deleted |-> FALSE]

\* The sources are uploaded, nobody uses them yet.
MDInit ==
  /\ picture = [a \in Assets |-> IF a \in Sources THEN [NoAsset EXCEPT !.status = "ACTIVE"]
                                                  ELSE NoAsset]
  /\ objects = Sources
  /\ grants = {}
  /\ order = [stage |-> "none", linked |-> FALSE, writing |-> FALSE]
  /\ consent = [status |-> "none", owned |-> {}]
  /\ cleaner = [c \in Cleaners |-> IdleCleaner]

\* The deletion columns are only set on rows in deletion.
MDTypeOK ==
  /\ picture \in [Assets -> AssetRow]
  /\ \A a \in Assets :
       picture[a].status # "PENDING_DELETE" =>
         picture[a] = [NoAsset EXCEPT !.status = picture[a].status]
  /\ objects \subseteq Assets
  /\ grants \subseteq Assets
  /\ order \in OrderRow
  /\ consent \in ConsentRow
  /\ cleaner \in [Cleaners -> CleanerRow]

-----------------------------------------------------------------------------
(* run_reference_guard *)

Exists(a) == picture[a].status # "none"

\* The assets whose order_id and job_id name the order and its job.
Linked(a) == Exists(a) /\ (a \in Sources => order.linked)

\* partner_case_asset_deletion_authority
CaseBlocks(a) ==
  LET related == Linked(a) \/ a \in consent.owned IN
  \/ related /\ consent.status = "OPEN"
  \/ related /\ consent.status = "SETTLED_DELETION_PENDING" /\ a \notin consent.owned

\* A settled case that gives no leave to delete what the order still lists.
NothingWaived(a) == FALSE

ReferencesWaived(a) ==
  consent.status = "SETTLED_DELETION_PENDING" /\ a \in consent.owned

\* A guard that takes a job whose result is stored for one that is over.
UnresolvedUntilStored == order.stage \in {"queued", "submitted", "failed"}

\* generation_reference_blocker: the job is open, or it has ended in a way the
\* guard does not know.  Every failure leaves delivery_status BLOCKED, which is
\* not among the values it lets pass.
GenerationUnresolved == order.stage \in {"queued", "submitted", "stored", "failed"}

\* source_asset_ids from the start, final_asset_ids once it is delivered.
OrderLists(a) ==
  \/ a \in Sources /\ order.stage # "none"
  \/ a = Delivery /\ picture[a].status \notin {"none", "PENDING_UPLOAD"} /\ order.stage = "ready"

\* A failure overwrites CONSENT_REVIEW_REQUIRED, which is not one of the final
\* statuses the guard knows.
UnderReview == consent.status # "none" /\ order.stage # "failed"

OrderOpen == order.stage \in {"queued", "submitted", "stored"} \/ UnderReview

ChildBlocks(a) == a = Candidate /\ picture[Delivery].status \notin {"none", "DELETED"}

Blocked(a) ==
  \/ CaseBlocks(a)
  \/ /\ ~ReferencesWaived(a)
     /\ \/ (OrderLists(a) \/ Linked(a)) /\ GenerationUnresolved
        \/ OrderLists(a) /\ OrderOpen
  \/ a \in grants
  \/ ChildBlocks(a)

-----------------------------------------------------------------------------
(* The order, as far as it creates, reads and refers to pictures *)

Usable(a) == picture[a].status = "ACTIVE"

Revoked(a) == picture[a].status \in {"PENDING_DELETE", "DELETED"}

\* _lock_owned_active_assets, in the transaction that creates the order
PlaceOrder ==
  /\ order.stage = "none"
  /\ \A a \in Sources : Usable(a)
  /\ order' = [order EXCEPT !.stage = "queued"]
  /\ UNCHANGED <<picture, objects, grants, consent, cleaner>>

\* A result stored without asking whether the partner still agrees.
ConsentAssumed == TRUE

\* require_partner_generation_allowed, read afresh in every transaction
ConsentStands == consent.status = "none"

\* prepare_submission: the sources are bound to the job, and each gets a grant.
Submit ==
  /\ order.stage = "queued" /\ ConsentStands
  /\ Partner # None => PartnerInputsPass
  /\ \A a \in Sources : Usable(a)
  /\ order' = [order EXCEPT !.stage = "submitted", !.linked = TRUE]
  /\ grants' = grants \cup Sources
  /\ UNCHANGED <<picture, objects, consent, cleaner>>

\* provider_asset_grant_ttl_seconds have passed, or it is revoked.
GrantEnds(a) ==
  /\ a \in grants
  /\ grants' = grants \ {a}
  /\ UNCHANGED <<picture, objects, order, consent, cleaner>>

\* persist_evolink_candidate: the intent is committed before the object is written.
CandidateIntent ==
  /\ order.stage = "submitted" /\ ConsentStands
  /\ picture[Candidate].status = "none"
  /\ picture' = [picture EXCEPT ![Candidate].status = "PENDING_UPLOAD"]
  /\ UNCHANGED <<objects, grants, order, consent, cleaner>>

\* The object is written with the job locked; the invocation may die before it
\* commits that the candidate is there.
StoreCandidate ==
  /\ order.stage = "submitted" /\ ConsentStands
  /\ picture[Candidate].status = "PENDING_UPLOAD"
  /\ objects' = objects \cup {Candidate}
  /\ \/ /\ picture' = [picture EXCEPT ![Candidate].status = "ACTIVE"]
        /\ order' = [order EXCEPT !.stage = "stored"]
     \/ UNCHANGED <<picture, order>>
  /\ UNCHANGED <<grants, consent, cleaner>>

\* _load_delivery_context
MayStoreDelivery == order.stage = "stored" /\ ConsentStands /\ Usable(Candidate)

\* build_delivery_assets commits its intents before it stores anything.
DeliveryIntent ==
  /\ MayStoreDelivery /\ picture[Delivery].status = "none"
  /\ picture' = [picture EXCEPT ![Delivery].status = "PENDING_UPLOAD"]
  /\ UNCHANGED <<objects, grants, order, consent, cleaner>>

\* _store_one_artifact: the check is committed, then the object is written.
BeginWrite ==
  /\ MayStoreDelivery /\ picture[Delivery].status = "PENDING_UPLOAD"
  /\ order' = [order EXCEPT !.writing = TRUE]
  /\ UNCHANGED <<picture, objects, grants, consent, cleaner>>

\* The invocation may be killed instead.
EndWrite ==
  /\ order.writing
  /\ order' = [order EXCEPT !.writing = FALSE]
  /\ objects' \in {objects, objects \cup {Delivery}}
  /\ UNCHANGED <<picture, grants, consent, cleaner>>

\* The last transaction of build_delivery_assets
Publish ==
  /\ MayStoreDelivery /\ ~order.writing
  /\ picture[Delivery].status = "PENDING_UPLOAD" /\ Delivery \in objects
  /\ picture' = [picture EXCEPT ![Delivery].status = "ACTIVE"]
  /\ order' = [order EXCEPT !.stage = "ready"]
  /\ UNCHANGED <<objects, grants, consent, cleaner>>

\* The job fails and is settled, even after a withdrawal if EvoLink has it.  What a
\* delivery has begun is staged for deletion with it
\* (prepare_delivery_intents_for_terminal_cleanup), nothing else is.
FailOrder ==
  /\ \/ order.stage \in {"queued", "stored"} /\ consent.status = "none"
     \/ order.stage = "submitted"
  /\ order' = [order EXCEPT !.stage = "failed"]
  /\ picture' = IF picture[Delivery].status = "PENDING_UPLOAD"
                THEN [picture EXCEPT ![Delivery].status = "PENDING_DELETE",
                                     ![Delivery].due = TRUE]
                ELSE picture
  /\ UNCHANGED <<objects, grants, consent, cleaner>>

-----------------------------------------------------------------------------
(* partner_invite_service: withdrawal and its settlement *)

\* _stage_case_asset
Staged(row) ==
  IF row.status \in {"none", "DELETED"} THEN row
  ELSE [row EXCEPT !.status = "PENDING_DELETE", !.blocked = TRUE, !.due = TRUE]

\* Before the order exists the partner's own picture is all there is.
WithdrawInvite ==
  /\ Partner # None /\ order.stage = "none" /\ ~Revoked(Partner)
  /\ picture' = [picture EXCEPT ![Partner] = Staged(@)]
  /\ UNCHANGED <<objects, grants, order, consent, cleaner>>

\* withdraw_partner_invite, once the invite has become an order.  While EvoLink may
\* be at work the case stays OPEN; a job whose result is stored stays as it is.
Withdraw ==
  LET owned == {Partner} \cup {a \in Assets : Linked(a)} IN
  /\ Partner # None /\ order.stage # "none" /\ consent.status = "none"
  /\ consent' = [status |-> IF order.stage = "submitted" THEN "OPEN"
                            ELSE "SETTLED_DELETION_PENDING",
                 owned |-> owned]
  /\ picture' = [a \in Assets |-> IF a \in owned THEN Staged(picture[a]) ELSE picture[a]]
  /\ order' = [order EXCEPT !.stage = IF @ \in {"queued", "failed"} THEN "cancelled" ELSE @]
  /\ UNCHANGED <<objects, grants, cleaner>>

\* settle_open_partner_consent_case_after_provider
SettleCase ==
  /\ consent.status = "OPEN" /\ order.stage = "submitted"
  /\ consent' = [consent EXCEPT !.status = "SETTLED_DELETION_PENDING"]
  /\ order' = [order EXCEPT !.stage = "cancelled"]
  /\ UNCHANGED <<picture, objects, grants, cleaner>>

-----------------------------------------------------------------------------
(* request_asset_deletion: by the owner, by retention or at account closure *)

RequestDeletion(a) ==
  /\ picture[a].status \notin {"none", "DELETED", "PENDING_UPLOAD"}
  /\ picture' = [picture EXCEPT ![a].status = "PENDING_DELETE",
                                ![a].blocked = Blocked(a), ![a].due = ~Blocked(a)]
  /\ UNCHANGED <<objects, grants, order, consent, cleaner>>

\* next_delete_at passes: the hour until the next check, or the back-off.
FallsDue(a) ==
  /\ picture[a].status = "PENDING_DELETE" /\ ~picture[a].due
  /\ picture' = [picture EXCEPT ![a].due = TRUE]
  /\ UNCHANGED <<objects, grants, order, consent, cleaner>>

\* The 120 seconds of the whole batch are over, whether its invocation lives or not.
LeaseExpires(a) ==
  /\ picture[a].holder # None
  /\ picture' = [picture EXCEPT ![a].holder = None]
  /\ UNCHANGED <<objects, grants, order, consent, cleaner>>

-----------------------------------------------------------------------------
(* run_deletion_cleanup *)

MoveTo(c, row) == cleaner' = [cleaner EXCEPT ![c] = row]

InDeletion(a) == picture[a].status = "PENDING_DELETE"

\* recheck_blocked_deletions, the first transaction of an invocation.  It looks at no
\* more rows than its limit, so an invocation may go on to claim without it.
Recheck ==
  LET checked == {a \in Assets : InDeletion(a) /\ picture[a].due /\ picture[a].blocked} IN
  /\ checked # {}
  /\ picture' = [a \in Assets |->
       IF a \in checked THEN [picture[a] EXCEPT !.blocked = Blocked(a), !.due = ~Blocked(a)]
       ELSE picture[a]]
  /\ UNCHANGED <<objects, grants, order, consent, cleaner>>

Claimable(a) == InDeletion(a) /\ picture[a].due /\ ~picture[a].blocked /\ picture[a].holder = None

\* claim_deletion_batch: as many as the limit allows; which come first depends on
\* next_delete_at.
Claim(c) ==
  LET all == {a \in Assets : Claimable(a)} IN
  /\ cleaner[c].at = "idle"
  /\ \E taken \in SUBSET all \ {{}} :
       /\ taken = all \/ Cardinality(taken) = Limit[c]
       /\ Cardinality(taken) <= Limit[c]
       /\ picture' = [a \in Assets |-> IF a \in taken THEN [picture[a] EXCEPT !.holder = c]
                                       ELSE picture[a]]
       /\ MoveTo(c, [IdleCleaner EXCEPT !.at = "deleting", !.todo = taken, !.claimed = taken])
  /\ UNCHANGED <<objects, grants, order, consent>>

\* The pictures c is free to delete: none that is just being written, unless writes
\* may take that long.
MayDelete(c, a) ==
  /\ a \in cleaner[c].todo
  /\ a = Delivery /\ order.writing => SlowWrites

\* delete_private; NOT_FOUND counts as deleted.
DeleteObject(c, a) ==
  /\ cleaner[c].at = "deleting" /\ MayDelete(c, a)
  /\ objects' = objects \ {a}
  /\ MoveTo(c, [cleaner[c] EXCEPT !.at = "answered", !.todo = @ \ {a}, !.on = a,
                                  !.deleted = TRUE])
  /\ UNCHANGED <<picture, grants, order, consent>>

\* It raises or reports a failure, with or without the object deleted.
DeleteFails(c, a) ==
  /\ cleaner[c].at = "deleting" /\ MayDelete(c, a)
  /\ objects' \in {objects, objects \ {a}}
  /\ MoveTo(c, [cleaner[c] EXCEPT !.at = "answered", !.todo = @ \ {a}, !.on = a])
  /\ UNCHANGED <<picture, grants, order, consent>>

\* The statuses c's session sees: its own view of what it claimed, the rows of the rest.
SeesDeleted(c, a) ==
  IF a \in cleaner[c].claimed THEN a \in cleaner[c].gone \cup {cleaner[c].on}
  ELSE picture[a].status = "DELETED"

\* partner_case_can_close
MayClose(c) ==
  /\ consent.status = "SETTLED_DELETION_PENDING" /\ cleaner[c].on \in consent.owned
  /\ \A a \in consent.owned : SeesDeleted(c, a)

\* On to the next picture of the batch, if there is one.
Onwards(c, row) == MoveTo(c, IF row.todo = {} THEN IdleCleaner ELSE row)

\* confirm_storage_deletion.  What it compares with its claim is what it has loaded
\* with it, so the claim always stands, whoever holds the lease by now.
Confirm(c) ==
  LET a == cleaner[c].on IN
  /\ cleaner[c].at = "answered"
  /\ picture' = [picture EXCEPT
       ![a] = IF cleaner[c].deleted THEN [NoAsset EXCEPT !.status = "DELETED"]
              ELSE [@ EXCEPT !.status = "PENDING_DELETE", !.due = FALSE, !.holder = None]]
  /\ consent' = IF cleaner[c].deleted /\ MayClose(c)
                THEN [consent EXCEPT !.status = "CANCELLED_AND_DELETED"] ELSE consent
  /\ Onwards(c, [cleaner[c] EXCEPT
                   !.at = "deleting", !.on = None, !.deleted = FALSE,
                   !.gone = IF cleaner[c].deleted THEN @ \cup {a} ELSE @])
  /\ UNCHANGED <<objects, grants, order>>

\* The locked read fails: the session refuses whatever comes later, but the loop goes
\* on.  Or the flush fails, whose rollback expires the row the error is logged with: the
\* loop ends there.
ConfirmFails(c) ==
  /\ cleaner[c].at = "answered"
  /\ \/ Onwards(c, [IdleCleaner EXCEPT !.at = "stuck", !.todo = cleaner[c].todo])
     \/ MoveTo(c, IdleCleaner)
  /\ UNCHANGED <<picture, objects, grants, order, consent>>

StuckDelete(c, a) ==
  /\ cleaner[c].at = "stuck" /\ MayDelete(c, a)
  /\ objects' \in {objects, objects \ {a}}
  /\ Onwards(c, [cleaner[c] EXCEPT !.todo = @ \ {a}])
  /\ UNCHANGED <<picture, grants, order, consent>>

\* The invocation is killed; its claims stay behind.
CleanerCrash(c) ==
  /\ cleaner[c].at # "idle"
  /\ MoveTo(c, IdleCleaner)
  /\ UNCHANGED <<picture, objects, grants, order, consent>>

-----------------------------------------------------------------------------

CleanerSteps(c) ==
  \/ Claim(c) \/ Confirm(c) \/ ConfirmFails(c)
  \/ \E a \in Assets : DeleteObject(c, a) \/ DeleteFails(c, a) \/ StuckDelete(c, a)

OrderSteps ==
  \/ PlaceOrder \/ Submit \/ CandidateIntent \/ StoreCandidate
  \/ DeliveryIntent \/ BeginWrite \/ EndWrite \/ Publish
  \/ FailOrder \/ WithdrawInvite \/ Withdraw \/ SettleCase

MDNext ==
  \/ OrderSteps
  \/ \E a \in Assets : RequestDeletion(a) \/ FallsDue(a) \/ LeaseExpires(a) \/ GrantEnds(a)
  \/ Recheck
  \/ \E c \in Cleaners : CleanerSteps(c) \/ CleanerCrash(c)

MDSpec == MDInit /\ [][MDNext]_MDvars

\* The clean-up is invoked again and again and goes on unless it is killed, clocks
\* advance, and neither the store nor the last transaction fails for ever on one picture.
MDFairSpec ==
  /\ MDSpec
  /\ \A c \in Cleaners : WF_MDvars(CleanerSteps(c))
  /\ WF_MDvars(Recheck) /\ WF_MDvars(EndWrite)
  /\ \A a \in Assets :
       /\ WF_MDvars(FallsDue(a)) /\ WF_MDvars(LeaseExpires(a)) /\ WF_MDvars(GrantEnds(a))
       /\ SF_MDvars(\E c \in Cleaners : DeleteObject(c, a))
       /\ SF_MDvars(\E c \in Cleaners :
                   cleaner[c].on = a /\ cleaner[c].deleted /\ Confirm(c))

-----------------------------------------------------------------------------
(* What holds *)

\* The job may still need its pictures: no withdrawal has been settled.
JobOpen ==
  /\ order.stage \in {"queued", "submitted", "stored"}
  /\ consent.status \in {"none", "OPEN"}

\* Rows are well formed, what is readable is there, what the job may still need is there
\* even when nobody may read it any more, and no row says DELETED of an object that exists.
ObjectsMatchRows ==
  /\ MDTypeOK
  /\ \A a \in Assets : Usable(a) => a \in objects
  /\ JobOpen => Sources \subseteq objects
  /\ JobOpen /\ order.stage = "stored" => Candidate \in objects
  /\ \A a \in objects : picture[a].status \notin {"none", "DELETED"}

\* A consent case is closed only when no picture that shows the partner is left: not
\* the one he uploaded and nothing made from it, whenever it was made.
ClosedCaseLeavesNothing ==
  consent.status = "CANCELLED_AND_DELETED" =>
    objects \cap (consent.owned \cup {Candidate, Delivery}) = {}

\* Pictures that the guard keeps for ever as the code stands: those of a failed
\* order, and a customer's picture whose order is under consent review.
KeptForEver(a) ==
  \/ order.stage = "failed"
  \/ UnderReview /\ a \notin consent.owned

\* Whatever was revoked for deletion leaves the store, however often clean-ups die,
\* overrun their leases or fail, unless its job or its consent case is still open, it
\* is the candidate of a picture still wanted, or the guard keeps it for ever.
RevokedIsDeleted ==
  \A a \in Assets :
    Revoked(a) ~>
      \/ a \notin objects
      \/ JobOpen \/ consent.status = "OPEN"
      \/ a = Candidate /\ Usable(Delivery)
      \/ KeptForEver(a)

-----------------------------------------------------------------------------
(* What the documents say and the code does not do (README, section 6) *)

\* Once an order has failed and is settled, its source pictures are deleted when
\* that is asked for; they are not kept beyond their time
\* (vowpic-commercial-closure-design.md:559).
FailedOrderFreesPictures ==
  \A a \in Sources :
    order.stage = "failed" /\ Revoked(a) ~> a \notin objects \/ consent.status # "none"

=============================================================================
