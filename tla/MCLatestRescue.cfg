SPECIFICATION LatestSpec
CONSTANTS
  IncidentCount = 2
  Claims = {}
  MaxAttempts = 1
  RetryDelay = 1
  FinalityTimeout = 1
  Retain = 2
  Quotes = {1}
  MaxNonce = 1
  PendingAnswers = {0}
  MaxTime = 2
  MaxFaults = 0
  CountFaults = FALSE
  Modes = {TRUE}
  Faults = {"crash", "cancel"}
  Results = {}
  Layouts <- MCLayouts
  MaxAge = 0
  ReceiptTimeout = 1
INVARIANTS
  NoNonceGap
  InFlightBounded
