CONSTANTS
  a = a
  b = b
  old = old
  p = p
  o = o
  rp = rp
  ro1 = ro1
  ro2 = ro2
  Users = {a, b, old}
  Old = {old}
  Purchases = {p, o}
  Buyer <- MCBuyer
  References = {rp, ro1, ro2}
  Proves <- MCProves
  Pictures = {m}
  Requests = {k1, k2}
  CallsAreShort = TRUE
  Leaving = {a}
  Ordering = {b}
  Subscribing = {a}
SYMMETRY Symmetry
SPECIFICATION ACSpec
CHECK_DEADLOCK FALSE
INVARIANTS OneCanonical BalanceFollowsLots GoneIsEmpty
PROPERTIES ClaimedByTheLiving
