SPECIFICATION Spec
CONSTANTS
  s1 = s1
  s2 = s2
  s3 = s3
  o1 = o1
  None = None
  Sessions = {s1, s2, s3}
  Owners = {o1}
  Owner <- MCOwner
  LeaseSeconds = 2
  MaxTime = 4
SYMMETRY Symmetry
INVARIANT TokensNeverReused
PROPERTY LiveLeaseNotStolen
PROPERTY ImplementsFencedHolder
CHECK_DEADLOCK FALSE
