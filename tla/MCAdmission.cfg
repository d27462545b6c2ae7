SPECIFICATION Spec
CONSTANTS
  Attempts <- SixAttempts
  Token <- TokenOf
  Event <- EventOf
  UnknownTokens = {"u1", "u2"}
  Window = 5
  RateWindow = 2
  RateLimit = 1
  MaxAttemptsPerToken = 2
  MaxAttemptsPerSourceEvent = 2
  MaxNewUnknownTokens = 1
  Capacity = 3
  MaxTime = 7
  MaxFaults = 1
  MaxRestarts = 1
INVARIANT RollingAdmission
INVARIANT CountersAgree
INVARIANT AdmittedRemembered
INVARIANT RetryAtHelps
