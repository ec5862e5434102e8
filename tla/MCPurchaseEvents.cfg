SPECIFICATION Spec
CONSTANTS
  Purchases = {"p1", "p2"}
  Orders = {"t1", "o1", "o2"}
  TrialOrders = {"t1"}
  Welcome = "w"
  Credits <- MCCredits
  Price <- MCPrice
  ExpiryRank <- MCRank
  MayExpire = {"o2"}
  Events = {"c1", "c2", "full", "part", "open", "won", "lost", "less", "mist", "what"}
  MaxEvents = 3
  MaxOrders = 2
  Fact <- MCFact
  Captured = 2
  NoPurchase = "unknown"
INVARIANTS
  NoLotOverdrawn
  LedgerAgrees
  HeldCreditsBacked
  NothingStranded
  FrozenOnlyUnderReview
PROPERTIES
  ImplementsPrepaid
\* Every order has ended and the bounds are used up.
CHECK_DEADLOCK FALSE
