SPECIFICATION Spec
CONSTANTS
  w1 = w1
  w2 = w2
  Workers = {w1, w2}
  None = None
  MaxRepairs = 1
  MaxRetries = 1
  MaxHistory = 2
  MaxTasks = 2
  TaskOutcomes = {"succeeded", "failed", "unusable"}
  PartnerOrders = {TRUE, FALSE}
  PartnerInputsPass = TRUE
  ReservationMayExpire = TRUE
  EvidenceIsFinal = TRUE
SYMMETRY Symmetry
INVARIANT MoneyMatchesOutcome
INVARIANT ChargedIffAccepted
INVARIANT AtMostOneTaskPerAttempt
INVARIANT RepairChain
INVARIANT DeliveredMeansPaid
INVARIANT NeverOrphaned
PROPERTY LateWorkerIsBounded
PROPERTY SettlementIsFinal
CHECK_DEADLOCK FALSE
