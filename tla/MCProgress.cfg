CONSTANTS
  ChargeMaxAge = 1
  MaxChecks = 2
  Interval = 1
  Sessions = {s1, s2}
  MaxTime = 3
  StaleAfter = 1
  ProposalTTL = 1
  ApproachWindow = 1
  Lag = 0
  Contracts <- NoDeadline
  ProviderReceipts <- AllReceipts
  ProviderEvidence <- AllEvidence
  ChargeIds = {}
  EvidenceIds = {}
  HasRecoveryProvider = FALSE
  CallsMayBeLost = FALSE
SPECIFICATION FairSpec
INVARIANT ExecutedActionIsOnRecord
PROPERTY ConfirmedIsJudged
CHECK_DEADLOCK FALSE
