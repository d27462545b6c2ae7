SPECIFICATION FairSpec
CONSTANTS
  p1 = p1
  p2 = p2
  d1 = d1
  d2 = d2
  Procs <- TwoProcs
  Layouts <- Both
  NoProc = NoProc
  NetworkCount = 1
  TTL = 2
  MaxTime = 3
  MaxCrashes = 1
  MaxReplacements = 1
INVARIANTS
  OneOwner
  StaleOwnerSignsOnce
  TakeoverWaits
PROPERTIES
  OwnerReturns
