SPECIFICATION Spec
CONSTANTS
  IncidentCount = 2
  Claims = {1}
  MaxAttempts = 1
  RetryDelay = 1
  FinalityTimeout = 1
  Retain = 0
  Quotes = {1}
  MaxNonce = 1
  PendingAnswers = {0, 1}
  MaxTime = 2
  MaxFaults = 0
  CountFaults = FALSE
INVARIANTS
  NonceUnique
  SentCovered
  SettledByReceipt
  OneUnsentSignature
PROPERTIES
  NothingSentWhenStopped
