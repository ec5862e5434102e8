SPECIFICATION Spec
CONSTANTS
  k1 = k1
  k2 = k2
  Keys = {k1, k2}
  None = None
  MaxFacts = 4
  MaxCancels = 1
  MaxCopies = 1
SYMMETRY Symmetry
INVARIANTS
  GrantedOncePerPayment
  StatusFollowsProvider
  ConfirmedWillEnd
\* The bounds are used up and every event is processed.
CHECK_DEADLOCK FALSE
