CONSTANTS
  ChargeMaxAge = 2
  ChargeIds = {"c"}
  EvidenceIds = {"e1"}
  MaxChecks = 2
  Interval = 1
  MaxAltered = 3
SPECIFICATION Spec
INVARIANT PassIsEarned
INVARIANT FailIsEarned
INVARIANT CardIsNotFooled
CHECK_DEADLOCK FALSE
