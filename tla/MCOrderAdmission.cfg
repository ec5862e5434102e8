SPECIFICATION Spec
CONSTANTS
  r1 = r1
  r2 = r2
  r3 = r3
  r4 = r4
  Requests = {r1, r2, r3, r4}
  Orders <- MCOrders
  TrialOrders <- MCTrialOrders
  Key <- MCKey
  Payload <- MCPayload
  Simple = {"single"}
  p1 = p1
  w = w
  Purchases = {p1}
  Welcome = w
  Credits <- MCCredits
  Price <- MCPrice
  ExpiryRank <- MCRank
  MayExpire = {w}
  MaxOrders = 2
SYMMETRY Symmetry
INVARIANTS
  OneOrderPerKey
  OrdersAreRecorded
  OneTrialAtATime
CHECK_DEADLOCK FALSE
