SPECIFICATION Spec
CONSTANTS
  Batches = {"b1", "b2"}
  Files <- MCFiles
  PartMax = 1
  DailyBytes = 2
  HourlyRequests = 1
  MaxConcurrent = 2
  Days = {1, 2}
INVARIANTS
  QuotaExact
  DailyLimitKept
  ReadBytesCharged
  AllOrNothing
\* Every request has ended and the bounds are used up.
CHECK_DEADLOCK FALSE
