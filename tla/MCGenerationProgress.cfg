SPECIFICATION FairSpec
CONSTANTS
  w1 = w1
  w2 = w2
  Workers = {w1, w2}
  None = None
  MaxRepairs = 1
  MaxRetries = 1
  MaxHistory = 0
  MaxTasks = 1
  TaskOutcomes = {"succeeded", "failed"}
  PartnerOrders = {FALSE}
  PartnerInputsPass = FALSE
  ReservationMayExpire = FALSE
  EvidenceIsFinal = TRUE
PROPERTY EventuallySettled
CHECK_DEADLOCK FALSE
