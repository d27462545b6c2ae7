CONSTANTS
  n1 = n1
  n2 = n2
  Networks = {n1, n2}
  AttemptCount = 3
  NetworkOf <- MCNetworkOf
  MaxRecords = 2
  GlobalLimits <- MCGlobalLimits
  NetworkLimits <- MCNetworkLimits
  TransactionOverhead <- MCOverhead
  EmergencySponsorReserve <- MCEmergency
  EstimatedNetworks = {n2}
  Quotes = {1, 2}
  Charges = {1, 2, 3}
  Balances = {4}
  Hashes = {h1, h2}
  NoHash = NoHash
  Times = {1, 2, 4}
  Hour = 1
  Day = 2
SYMMETRY HashSymmetry
SPECIFICATION Spec
INVARIANT TypeOK
INVARIANT AlwaysCollectable
INVARIANT RollingLimits
INVARIANT LedgerInv
PROPERTY OverrunDrains
PROPERTY Irrevocable
CHECK_DEADLOCK TRUE
