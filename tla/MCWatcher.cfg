SPECIFICATION FairNetwork
CONSTANTS
  Providers = {"p", "q"}
  Blocks = {"b0", "b1", "b2", "c1", "c2"}
  NoBlock = "none"
  Number <- MCNumber
  Parent <- MCParent
  MaxNumber = 2
  Trunk = {"b0", "b1", "b2"}
  MaxMoves = 2
  Lookback = 2
  Modes = {TRUE, FALSE}
  MaxErrors = 1
  Helpers = {"consumer"}
INVARIANTS FastSeenUnbroken HealthyMeansSession
PROPERTIES CaughtUp
