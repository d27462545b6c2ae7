SPECIFICATION FairSpec
CONSTANTS
  Callers = {c1, c2}
  Cooldown = 1
  MaxTime = 2
  MaxFaults = 1
  MaxCrashes = 1
INVARIANT SinkAgrees
INVARIANT LoadAccepts
PROPERTY PendingReachesSink
