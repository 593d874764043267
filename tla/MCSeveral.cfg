CONSTANTS
  ChargeMaxAge = 0
  MaxChecks = 2
  Interval = 1
  Sessions = {s1, s2}
  MaxTime = 3
  StaleAfter = 1
  ProposalTTL = 1
  ApproachWindow = 1
  Lag = 1
  Contracts <- Watched
  ProviderReceipts <- OneReceipt
  ProviderEvidence <- TwoViews
  ChargeIds <- TwoNames
  EvidenceIds = {"e1", "e2"}
  HasRecoveryProvider = FALSE
  CallsMayBeLost = FALSE
SYMMETRY Calls
SPECIFICATION Spec
INVARIANT CorrelatedRecordReadable
INVARIANT AnswersAreStorable
CHECK_DEADLOCK FALSE
