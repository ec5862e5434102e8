SPECIFICATION MDFairSpec
CONSTANTS
  source = source
  candidate = candidate
  delivery = delivery
  c1 = c1
  c2 = c2
  Sources = {source}
  Partner = source
  Candidate = candidate
  Delivery = delivery
  None = None
  PartnerInputsPass = TRUE
  SlowWrites = FALSE
  Cleaners = {c1}
  Limit <- MCLimit
PROPERTY RevokedIsDeleted
\* Everything is deleted and no clean-up has anything to do.
CHECK_DEADLOCK FALSE
