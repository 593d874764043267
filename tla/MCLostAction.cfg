CONSTANTS
  ChargeMaxAge = 1
  MaxChecks = 2
  Interval = 1
  Sessions = {s1, s2}
  MaxTime = 2
  StaleAfter = 1
  ProposalTTL = 1
  ApproachWindow = 1
  Lag = 0
  Contracts <- Watched
  ProviderReceipts <- OneReceipt
  ProviderEvidence <- TwoViews
  ChargeIds = {"c1"}
  EvidenceIds = {"e1"}
  HasRecoveryProvider = TRUE
  CallsMayBeLost = FALSE
SYMMETRY Calls
SPECIFICATION Spec
INVARIANT WhatWasDoneIsOnRecord
CHECK_DEADLOCK FALSE
