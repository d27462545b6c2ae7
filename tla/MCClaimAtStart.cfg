SPECIFICATION FairWakePipeline
CONSTANTS
    Procs = {"scanner", "watcher", "consumer"}
    Claim = 2
    Candidates = {1, 2, 3}
    Info <- MCInfo
    Blocks = {"b1", "b2"}
    Number <- MCNumber
    Parent <- MCParent
    NoBlock = "none"
    NoToken = 0
    MaxPending = 1
    JournalCapacity = 1
    MaxDiscovered = 1
    TombstoneLimit = 1
    CanonicalBlockLimit = 1
    UnconfirmedBlockLimit = 1
    RetryTimes = {1}
    MaxTime = 1
    Finalized = {"b1", "b2"}
    FirstBlock = "b1"
    MaxStops = 1
PROPERTIES ClaimQueuedAtStart
CHECK_DEADLOCK FALSE
