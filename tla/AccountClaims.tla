--------------------------- MODULE AccountClaims ---------------------------
(***************************************************************************)
(* Accounts from the first Google sign-in to their closure, and the claim  *)
(* of an account nobody can sign in to by its owner's present account:     *)
(* routers/auth/google, account_closure_service, account_claim_proof_      *)
(* service, account_merge_service with account_merge_credit_service, and   *)
(* the triggers of migrations 0014 and 0016 they have to satisfy, beside   *)
(* purchases, orders and uploads of the same accounts.                     *)
(*                                                                         *)
(* A call is authenticated once, when it comes in; what it commits later   *)
(* does not look at the session again.  A Google exchange likewise trusts  *)
(* the identity row it has loaded.                                         *)
(*                                                                         *)
(* The names Init, Next and their like are taken by BrowserSession, which  *)
(* is proved about together with this module; here they begin with AC.     *)
(***************************************************************************)
EXTENDS Integers, FiniteSets

CONSTANTS
  Users,         \* accounts
  Old,           \* accounts from before Google sign-in, with one paid purchase each
  Purchases,     \* credit packs of one credit
  Buyer,         \* whose checkout a purchase is
  References,    \* what a customer can quote to prove a payment
  Proves,        \* the purchase a reference belongs to
  Pictures,      \* uploads
  Requests,      \* requests that are authenticated by a session
  CallsAreShort, \* TRUE: a call ends before the minutes a claim or a clean-up needs
  Leaving,       \* bound: accounts that upload, sign out and in again, and close
  Ordering,      \* bound: accounts that place their order
  Subscribing    \* bound: accounts that subscribe

Nobody == "nobody"
NoLot == "none"

\* What the constants have to be.
WellConfigured ==
  /\ IsFiniteSet(Purchases)
  /\ Old \subseteq Users
  /\ Buyer \in [Purchases -> Users]
  /\ Proves \in [References -> Purchases]
  /\ CallsAreShort \in BOOLEAN
  /\ Leaving \cup Ordering \cup Subscribing \subseteq Users
  /\ Nobody \notin Users /\ NoLot \notin Purchases

ASSUME ClaimAssumption == WellConfigured

VARIABLES
  user,      \* users with their identity and whether a session is not revoked
  signin,    \* exchanges that have loaded an active identity and user
  request,   \* authenticated requests
  purchase,  \* credit_purchases, with what became of a refund
  lot,       \* the grant lot of each purchase
  balance,   \* user_credits
  order,     \* one order per account with its reservation
  plan,      \* the account's subscription projection
  picture,   \* media_assets
  cleanup,   \* tombstones with media_cleanup_pending
  proof,     \* account_claim_proofs, by reference
  merges     \* user_account_merges

accountVars == <<user, signin, request>>
moneyVars == <<purchase, lot, balance, order, plan>>
mediaVars == <<picture, cleanup>>
claimVars == <<proof, merges>>
ACvars == <<accountVars, moneyVars, mediaVars, claimVars>>

UserRow ==
  [status : {"none", "active", "closed", "merged"},
   identity : {"none", "active", "revoked"}, session : BOOLEAN]

\* todo are the pictures a closure has found and not yet asked to delete, busy
\* those of them that were still being uploaded when it loaded them.
RequestRow ==
  [at : {"idle", "admitted", "closing", "deleting"}, user : Users \cup {Nobody},
   todo : SUBSET Pictures, busy : SUBSET Pictures]

PurchaseRow ==
  [status : {"none", "PENDING", "PAID", "REFUNDED"}, review : BOOLEAN]

LotRow == [owner : Users, granted : BOOLEAN, spent : BOOLEAN, reversed : BOOLEAN]

OrderRow ==
  [status : {"none", "RESERVED", "CAPTURED", "FAILED"}, lot : Purchases \cup {NoLot}]

PictureRow ==
  [owner : Users \cup {Nobody},
   status : {"none", "PENDING_UPLOAD", "ACTIVE", "PENDING_DELETE", "DELETED"}]

ProofRow ==
  [canonical : Users \cup {Nobody}, state : {"none", "valid", "expired", "consumed"}]

MergeRow == [legacy : Users, canonical : Users, proof : References]

\* Every column has its type.
ACTypeOK ==
  /\ user \in [Users -> UserRow]
  /\ signin \subseteq Users
  /\ request \in [Requests -> RequestRow]
  /\ purchase \in [Purchases -> PurchaseRow]
  /\ lot \in [Purchases -> LotRow]
  /\ balance \in [Users -> Int]
  /\ order \in [Users -> OrderRow]
  /\ plan \in [Users -> {"none", "PENDING", "ACTIVE"}]
  /\ picture \in [Pictures -> PictureRow]
  /\ cleanup \subseteq Users
  /\ proof \in [References -> ProofRow]
  /\ merges \subseteq MergeRow

IdleRequest == [at |-> "idle", user |-> Nobody, todo |-> {}, busy |-> {}]

ACInit ==
  /\ user = [u \in Users |->
       [status |-> IF u \in Old THEN "active" ELSE "none", identity |-> "none", session |-> FALSE]]
  /\ signin = {}
  /\ request = [k \in Requests |-> IdleRequest]
  /\ purchase = [p \in Purchases |->
       [status |-> IF Buyer[p] \in Old THEN "PAID" ELSE "none", review |-> FALSE]]
  /\ lot = [p \in Purchases |->
       [owner |-> Buyer[p], granted |-> FALSE, spent |-> FALSE, reversed |-> FALSE]]
  /\ balance = [u \in Users |-> 0]
  /\ order = [u \in Users |-> [status |-> "none", lot |-> NoLot]]
  /\ plan = [u \in Users |-> "none"]
  /\ picture = [m \in Pictures |-> [owner |-> Nobody, status |-> "none"]]
  /\ cleanup = {}
  /\ proof = [r \in References |-> [canonical |-> Nobody, state |-> "none"]]
  /\ merges = {}

-----------------------------------------------------------------------------
(* Sign-in and authentication *)

SetUser(u, f) == user' = [user EXCEPT ![u] = f]

\* _create_identity_user; (provider, subject) is unique, revoked rows included.
FirstSignIn(u) ==
  /\ u \notin Old /\ user[u].status = "none"
  /\ SetUser(u, [status |-> "active", identity |-> "active", session |-> TRUE])
  /\ UNCHANGED <<signin, request, moneyVars, mediaVars, claimVars>>

\* _locked_identity_user reads both rows without a lock; _ensure_active.
LoadIdentity(u) ==
  /\ u \in Leaving
  /\ user[u].identity = "active" /\ user[u].status = "active"
  /\ signin' = signin \cup {u}
  /\ UNCHANGED <<user, request, moneyVars, mediaVars, claimVars>>

\* issue_session waits for the row and goes by what was loaded before.
IssueSession(u) ==
  /\ u \in signin
  /\ signin' = signin \ {u}
  /\ user' = [user EXCEPT ![u].session = TRUE]
  /\ UNCHANGED <<request, moneyVars, mediaVars, claimVars>>

SignOut(u) ==
  /\ u \in Leaving /\ user[u].session
  /\ user' = [user EXCEPT ![u].session = FALSE]
  /\ UNCHANGED <<signin, request, moneyVars, mediaVars, claimVars>>

\* get_session_user
Admit(k, u) ==
  /\ request[k].at = "idle"
  /\ user[u].session /\ user[u].status = "active"
  /\ request' = [request EXCEPT ![k] = [IdleRequest EXCEPT !.at = "admitted", !.user = u]]
  /\ UNCHANGED <<user, signin, moneyVars, mediaVars, claimVars>>

\* A handler dies, or its transaction is undone.
Die(k) ==
  /\ request[k].at # "idle"
  /\ request' = [request EXCEPT ![k] = IdleRequest]
  /\ UNCHANGED <<user, signin, moneyVars, mediaVars, claimVars>>

Serves(k, u) == request[k].at = "admitted" /\ request[k].user = u

Answered(k) == request' = [request EXCEPT ![k] = IdleRequest]

\* No call of this account is under way.
Quiet(u) == CallsAreShort => \A k \in Requests : request[k].user # u

-----------------------------------------------------------------------------
(* What accounts do: as much as a claim or a closure has to respect *)

Unspent(p) == lot[p].granted /\ ~lot[p].spent /\ ~lot[p].reversed

Held(p) == \E u \in Users : order[u].status = "RESERVED" /\ order[u].lot = p

\* Inserts wait for a lock on the user's row, but not for its status.
Checkout(k, p) ==
  /\ Serves(k, Buyer[p]) /\ purchase[p].status = "none"
  /\ purchase' = [purchase EXCEPT ![p].status = "PENDING"]
  /\ Answered(k)
  /\ UNCHANGED <<user, signin, lot, balance, order, plan, mediaVars, claimVars>>

Capture(p) ==
  /\ purchase[p].status = "PENDING"
  /\ purchase' = [purchase EXCEPT ![p].status = "PAID"]
  /\ lot' = [lot EXCEPT ![p].granted = TRUE, ![p].owner = Buyer[p]]
  /\ balance' = [balance EXCEPT ![Buyer[p]] = @ + 1]
  /\ UNCHANGED <<accountVars, order, plan, mediaVars, claimVars>>

PlaceOrder(k, u, p) ==
  /\ u \in Ordering /\ Serves(k, u) /\ order[u].status = "none"
  /\ lot[p].owner = u /\ Unspent(p) /\ ~Held(p) /\ balance[u] >= 1
  /\ order' = [order EXCEPT ![u] = [status |-> "RESERVED", lot |-> p]]
  /\ Answered(k)
  /\ UNCHANGED <<user, signin, purchase, lot, balance, plan, mediaVars, claimVars>>

\* Captured at submission, or released when generation fails.
SettleOrder(u) ==
  /\ order[u].status = "RESERVED"
  /\ \/ /\ order' = [order EXCEPT ![u].status = "CAPTURED"]
        /\ lot' = [lot EXCEPT ![order[u].lot].spent = TRUE]
        /\ balance' = [balance EXCEPT ![u] = @ - 1]
     \/ order' = [order EXCEPT ![u].status = "FAILED"] /\ UNCHANGED <<lot, balance>>
  /\ UNCHANGED <<accountVars, purchase, plan, mediaVars, claimVars>>

Subscribe(k, u) ==
  /\ u \in Subscribing /\ Serves(k, u) /\ plan[u] = "none"
  /\ plan' = [plan EXCEPT ![u] = "PENDING"]
  /\ Answered(k)
  /\ UNCHANGED <<user, signin, purchase, lot, balance, order, mediaVars, claimVars>>

PlanChanges(u) ==
  /\ plan[u] # "none"
  /\ plan' = [plan EXCEPT ![u] = IF plan[u] = "PENDING" THEN "ACTIVE" ELSE "none"]
  /\ UNCHANGED <<accountVars, purchase, lot, balance, order, mediaVars, claimVars>>

\* The row of an upload is committed before its object is stored.
StageUpload(k, u, m) ==
  /\ u \in Leaving /\ Serves(k, u) /\ picture[m].status = "none"
  /\ picture' = [picture EXCEPT ![m] = [owner |-> u, status |-> "PENDING_UPLOAD"]]
  /\ UNCHANGED <<accountVars, moneyVars, cleanup, claimVars>>

ActivateUpload(k, m) ==
  /\ picture[m].status = "PENDING_UPLOAD" /\ Serves(k, picture[m].owner)
  /\ picture' = [picture EXCEPT ![m].status = "ACTIVE"]
  /\ Answered(k)
  /\ UNCHANGED <<user, signin, moneyVars, cleanup, claimVars>>

-----------------------------------------------------------------------------
(* Refunds: _apply_refund with reverse_root_grant *)

\* The lot is looked for among those of the purchase's user.
LotFound(p) == lot[p].granted /\ lot[p].owner = Buyer[p] /\ ~Held(p)

\* _mark_event_reconciliation opens a case of the purchase's user.
ReviewRefund(p) == [purchase[p] EXCEPT !.review = TRUE]

TakeBack(p) ==
  /\ lot' = [lot EXCEPT ![p].reversed = TRUE]
  /\ balance' = [balance EXCEPT ![Buyer[p]] = @ - 1]
  /\ purchase' = [purchase EXCEPT ![p].status = "REFUNDED"]

Refund(p) ==
  /\ purchase[p].status = "PAID" /\ ~purchase[p].review
  /\ \/ LotFound(p) /\ TakeBack(p)
     \/ ~LotFound(p) /\ purchase' = [purchase EXCEPT ![p] = ReviewRefund(p)]
                     /\ UNCHANGED <<lot, balance>>
  /\ UNCHANGED <<accountVars, order, plan, mediaVars, claimVars>>

-----------------------------------------------------------------------------
(* close_account *)

\* Identities and sessions are revoked and committed before pictures are looked for.
Close(k, u) ==
  /\ u \in Leaving /\ Serves(k, u)
  /\ SetUser(u, [status |-> "closed", identity |-> "revoked", session |-> FALSE])
  /\ cleanup' = cleanup \cup {u}
  /\ request' = [request EXCEPT ![k].at = "closing"]
  /\ UNCHANGED <<signin, moneyVars, picture, claimVars>>

PicturesOf(u) == {m \in Pictures : picture[m].owner = u /\ picture[m].status # "DELETED"}

FindPictures(k) ==
  /\ request[k].at = "closing"
  /\ LET found == PicturesOf(request[k].user)
     IN request' = [request EXCEPT ![k].at = "deleting", ![k].todo = found,
                   ![k].busy = {m \in found : picture[m].status = "PENDING_UPLOAD"}]
  /\ UNCHANGED <<user, signin, moneyVars, mediaVars, claimVars>>

\* request_asset_deletion by the row as it was loaded, each in a transaction of its own.
AskDeletion(k, m) ==
  /\ request[k].at = "deleting" /\ m \in request[k].todo \ request[k].busy
  /\ picture' = [picture EXCEPT ![m].status = IF @ = "DELETED" THEN @ ELSE "PENDING_DELETE"]
  /\ request' = [request EXCEPT ![k].todo = @ \ {m}]
  /\ UNCHANGED <<user, signin, moneyVars, cleanup, claimVars>>

\* asset_upload_in_progress is rolled back, which expires every loaded row: naming the
\* picture in the log raises, and the rest is not asked for.
ClosureBreaksOff(k) ==
  /\ request[k].at = "deleting" /\ request[k].todo \cap request[k].busy # {}
  /\ Answered(k)
  /\ UNCHANGED <<user, signin, moneyVars, mediaVars, claimVars>>

ClosureAnswers(k) ==
  /\ request[k].at = "deleting" /\ request[k].todo = {}
  /\ Answered(k)
  /\ UNCHANGED <<user, signin, moneyVars, mediaVars, claimVars>>

\* The clean-up of media_deletion_service.
DeletePicture(m) ==
  /\ picture[m].status = "PENDING_DELETE"
  /\ picture' = [picture EXCEPT ![m].status = "DELETED"]
  /\ UNCHANGED <<accountVars, moneyVars, cleanup, claimVars>>

NothingLeft(u) == PicturesOf(u) = {}

\* reconcile_account_media_cleanup
ClearMarker(u) ==
  /\ u \in cleanup /\ NothingLeft(u) /\ Quiet(u)
  /\ cleanup' = cleanup \ {u}
  /\ UNCHANGED <<accountVars, moneyVars, picture, claimVars>>

-----------------------------------------------------------------------------
(* Claims *)

Claimed(r) == Buyer[Proves[r]]

\* verify_payment_claim_reference: a reference proves one claim by one account, and
\* is used up when its time is over.
Prove(k, c, r) ==
  /\ Serves(k, c)
  /\ purchase[Proves[r]].status = "PAID"
  /\ \/ proof[r].state = "none"
     \/ proof[r] = [canonical |-> c, state |-> "valid"]
  /\ proof' = [proof EXCEPT ![r] = [canonical |-> c, state |-> "valid"]]
  /\ Answered(k)
  /\ UNCHANGED <<user, signin, moneyVars, mediaVars, merges>>

ProofExpires(r) ==
  /\ proof[r].state = "valid"
  /\ proof' = [proof EXCEPT ![r].state = "expired"]
  /\ UNCHANGED <<accountVars, moneyVars, mediaVars, merges>>

ProofHolds(c, r) == proof[r] = [canonical |-> c, state |-> "valid"]

\* Only a second claim of the same account is refused.
ClaimedOnce(c, l) == \A m \in merges : m.legacy # l

\* Neither account has been claimed, and the claimed one has claimed nothing.
GraphAllows(c, l) ==
  /\ c # l
  /\ \A m \in merges : m.legacy \notin {c, l} /\ m.canonical # l

\* Only the account that is claimed is looked at.
LegacySignedOff(c, l) == user[l].identity # "active"

\* The identities are read under the lock; the status of c was read at admission.
IdentitiesAllow(c, l) == user[c].identity = "active" /\ user[l].identity # "active"

\* require_generation_graph_mergeable: a failed order is left with delivery BLOCKED,
\* which is not among the states it accepts.
GenerationSettled(u) == order[u].status \in {"none", "CAPTURED"}

\* Purchases and cases that are open; select_subscription_projection_for_merge.
MoneySettled(c, l) ==
  /\ \A p \in Purchases : Buyer[p] \in {c, l} => purchase[p].status # "PENDING" /\ ~purchase[p].review
  /\ "PENDING" \notin {plan[c], plan[l]}
  /\ ~(plan[c] = "ACTIVE" /\ plan[l] = "ACTIVE")

Mergeable(c, r) ==
  LET l == Claimed(r)
  IN /\ ProofHolds(c, r)
     /\ GraphAllows(c, l)
     /\ IdentitiesAllow(c, l)
     /\ GenerationSettled(c) /\ GenerationSettled(l)
     /\ MoneySettled(c, l)

\* commercial_reservation_transition_guard: user_id never changes.
TriggersAllow(l) == order[l].status = "none"

\* Only the balance is moved.
KeepsLots(c, l) == lot

MovesLots(c, l) ==
  [p \in Purchases |-> IF lot[p].owner = l THEN [lot[p] EXCEPT !.owner = c] ELSE lot[p]]

\* Only pictures that can be seen are moved.
MovesVisible(c, l) ==
  [m \in Pictures |->
     IF picture[m].owner = l /\ picture[m].status = "ACTIVE"
       THEN [picture[m] EXCEPT !.owner = c] ELSE picture[m]]

MovesPictures(c, l) ==
  [m \in Pictures |-> IF picture[m].owner = l THEN [picture[m] EXCEPT !.owner = c] ELSE picture[m]]

\* claim_legacy_account with merge_credit_accounts, one transaction under both users' rows.
Merge(k, c, r) ==
  LET l == Claimed(r)
  IN /\ Serves(k, c) /\ Mergeable(c, r) /\ TriggersAllow(l) /\ Quiet(l)
     /\ user' = [user EXCEPT ![l].status = "merged", ![l].session = FALSE]
     /\ balance' = [balance EXCEPT ![c] = @ + balance[l], ![l] = 0]
     /\ lot' = MovesLots(c, l)
     /\ plan' = IF plan[l] = "ACTIVE" THEN [plan EXCEPT ![c] = "ACTIVE", ![l] = "none"] ELSE plan
     /\ picture' = MovesPictures(c, l)
     /\ proof' = [proof EXCEPT ![r].state = "consumed"]
     /\ merges' = merges \cup {[legacy |-> l, canonical |-> c, proof |-> r]}
     /\ Answered(k)
     /\ UNCHANGED <<signin, purchase, order, cleanup>>

-----------------------------------------------------------------------------

Handle(k) ==
  \/ \E u \in Users :
       \/ Admit(k, u) \/ Subscribe(k, u) \/ Close(k, u)
       \/ \E p \in Purchases : PlaceOrder(k, u, p)
       \/ \E m \in Pictures : StageUpload(k, u, m)
       \/ \E r \in References : Prove(k, u, r) \/ Merge(k, u, r)
  \/ \E p \in Purchases : Checkout(k, p)
  \/ \E m \in Pictures : ActivateUpload(k, m) \/ AskDeletion(k, m)
  \/ FindPictures(k) \/ ClosureBreaksOff(k) \/ ClosureAnswers(k) \/ Die(k)

ACNext ==
  \/ \E k \in Requests : Handle(k)
  \/ \E u \in Users :
       \/ FirstSignIn(u) \/ LoadIdentity(u) \/ IssueSession(u) \/ SignOut(u)
       \/ SettleOrder(u) \/ PlanChanges(u) \/ ClearMarker(u)
  \/ \E p \in Purchases : Capture(p) \/ Refund(p)
  \/ \E m \in Pictures : DeletePicture(m)
  \/ \E r \in References : ProofExpires(r)

ACSpec == ACInit /\ [][ACNext]_ACvars

-----------------------------------------------------------------------------
(* Properties *)

\* The merges form a graph of depth one in which nobody is claimed twice, each on a
\* payment of the claimed account and by a proof of its own (guard_user_account_merge).
OneCanonical ==
  /\ \A m, n \in merges :
       /\ m.canonical # n.legacy
       /\ m.legacy = n.legacy \/ m.proof = n.proof => m = n
  /\ \A m \in merges :
       Claimed(m.proof) = m.legacy
         /\ proof[m.proof] = [canonical |-> m.canonical, state |-> "consumed"]

\* A claim is made for a living account: never for one that its owner has closed while
\* the claim waited for the lock, although its status was read before (claim_legacy_account).
ClaimedByTheLiving ==
  [][\A m \in merges' \ merges : user[m.canonical].status = "active"]_ACvars

Owned(u) == {p \in Purchases : lot[p].owner = u}

\* Every column has its type, and an account's balance is what its lots are worth,
\* whoever they were granted to and however often they have moved
\* (merge_credit_accounts, reverse_root_grant).
BalanceFollowsLots ==
  /\ ACTypeOK
  /\ \A u \in Users :
       balance[u] = Cardinality({p \in Owned(u) : lot[p].granted})
                    - Cardinality({p \in Owned(u) : lot[p].spent})
                    - Cardinality({p \in Owned(u) : lot[p].reversed})

\* A claimed account keeps nothing that can be spent, seen or renewed; a closed one loses
\* its marker only after the last picture is gone, whatever was still being uploaded when
\* it was closed (claim_legacy_account, reconcile_account_media_cleanup).
GoneIsEmpty ==
  \A u \in Users :
    /\ user[u].status = "merged" =>
         /\ balance[u] = 0 /\ \A p \in Purchases : lot[p].owner = u => ~lot[p].granted
         /\ plan[u] = "none" /\ PicturesOf(u) = {} /\ order[u].status = "none"
    /\ user[u].status = "closed" /\ u \notin cleanup => PicturesOf(u) = {}

-----------------------------------------------------------------------------
(* What the documents say and the code does not do (README, section 6) *)

\* Design 235: a refund takes back what the purchase granted, also from the account its
\* credits have been moved to.
RefundsReachTheCredits ==
  \A p \in Purchases : purchase[p].review => ~Unspent(p) \/ lot[p].owner = Buyer[p]

\* Design 232: an account whose affairs are settled can be claimed with its orders.
SettledAccountsCanMerge ==
  \A c \in Users, r \in References : Mergeable(c, r) => TriggersAllow(Claimed(r))

\* Design 541: what is left of a closed account goes to the deletion of media; once the
\* closing call is over, none of its pictures is still in use.
ClosureReachesPictures ==
  \A u \in Users : user[u].status = "closed" /\ (\A k \in Requests : request[k].user # u) =>
    \A m \in Pictures : picture[m].owner = u => picture[m].status # "ACTIVE"

\* Design 541: closing an account revokes its sessions at once.
ClosedIsSignedOut == \A u \in Users : user[u].status = "closed" => ~user[u].session

=============================================================================
