CONSTANTS
  ChargeMaxAge = 1
  MaxChecks = 3
  Interval = 1
  Sessions = {s1, s2}
  MaxTime = 4
  StaleAfter = 1
  ProposalTTL = 1
  ApproachWindow = 1
  Lag = 0
  Contracts <- NoDeadline
  ProviderReceipts <- AllReceipts
  ProviderEvidence <- PlainEvidence
  ChargeIds = {}
  EvidenceIds = {}
  HasRecoveryProvider = FALSE
  CallsMayBeLost = TRUE
SYMMETRY Calls
SPECIFICATION Spec
INVARIANT TypeOK
INVARIANT CancelAtMostOnce
INVARIANT LooksAreBudgeted
INVARIANT OutcomeIsProven
INVARIANT CorrelatedRecordReadable
INVARIANT AnswersAreStorable
INVARIANT CardTellsTheOutcome
PROPERTY RefinesLedger
CHECK_DEADLOCK FALSE
