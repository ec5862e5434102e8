SPECIFICATION Spec
CONSTANTS
  c1 = c1
  c2 = c2
  c3 = c3
  Calls = {c1, c2, c3}
SYMMETRY Symmetry
INVARIANTS
  OneLiveToken
  RevokedForCause
  QuietBrowserIsCurrent
 
\* Every call has been answered.
CHECK_DEADLOCK FALSE
