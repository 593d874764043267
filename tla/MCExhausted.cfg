CONSTANTS
  ChargeMaxAge = 1
  MaxChecks = 2
  Interval = 1
  Sessions = {s1, s2}
  MaxTime = 3
  StaleAfter = 1
  ProposalTTL = 1
  ApproachWindow = 1
  Lag = 0
  Contracts <- NoDeadline
  ProviderReceipts <- PlainReceipts
  ProviderEvidence <- PlainEvidence
  ChargeIds = {}
  EvidenceIds = {}
  HasRecoveryProvider = FALSE
  CallsMayBeLost = TRUE
SYMMETRY Calls
SPECIFICATION Spec
INVARIANT ExhaustedAwaitsProof
CHECK_DEADLOCK FALSE
