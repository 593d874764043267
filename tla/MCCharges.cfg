CONSTANTS
  ChargeMaxAge = 0
  MaxChecks = 2
  Interval = 1
  Sessions = {s1, s2}
  MaxTime = 2
  StaleAfter = 1
  ProposalTTL = 1
  ApproachWindow = 1
  Lag = 1
  Contracts <- Watched
  ProviderReceipts <- OneReceipt
  ProviderEvidence <- TwoViews
  ChargeIds = {"c1"}
  EvidenceIds = {"e1"}
  HasRecoveryProvider = TRUE
  CallsMayBeLost = TRUE
SYMMETRY Calls
SPECIFICATION Spec
INVARIANT OwnershipInv
INVARIANT FollowUpAtMostOnce
INVARIANT SupportIsSettled
INVARIANT NoVerifiedWithCharge
INVARIANT OutcomeIsProven
INVARIANT AnswersAreStorable
INVARIANT ProgressIsTrue
INVARIANT AnswersAgree
INVARIANT ReceiptIsBacked
PROPERTY NothingIsForgotten
CHECK_DEADLOCK FALSE
