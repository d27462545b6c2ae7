SPECIFICATION FairSpec
CONSTANTS
  IncidentCount = 1
  Claims = {1}
  MaxAttempts = 1
  RetryDelay = 1
  FinalityTimeout = 1
  Retain = 0
  Quotes = {1}
  MaxNonce = 0
  PendingAnswers = {0}
  MaxTime = 2
  MaxFaults = 1
  CountFaults = TRUE
PROPERTIES
  RestartSettlesSignature
