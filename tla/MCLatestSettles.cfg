SPECIFICATION FairLatestSpec
CONSTANTS
  IncidentCount = 1
  Claims = {1}
  MaxAttempts = 2
  RetryDelay = 1
  FinalityTimeout = 1
  Retain = 0
  Quotes = {1}
  MaxNonce = 1
  PendingAnswers = {0}
  MaxTime = 3
  MaxFaults = 1
  CountFaults = TRUE
  Modes = {TRUE, FALSE}
  Faults = {"crash", "stop"}
  Results = {TRUE}
  Layouts <- OneIncident
  MaxAge = 0
  ReceiptTimeout = 1
INVARIANTS
  OneTransactionPerClaim
  SettledByFinality
PROPERTIES
  FinalizedOperationSettles
