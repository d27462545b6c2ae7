SPECIFICATION PipelineSpec
CONSTANTS
    Candidates = {1, 2, 3, 4, 5}
    Info <- MCInfo
    Blocks <- MCBlocks
    Number <- MCNumber
    Parent <- MCParent
    NoBlock = "none"
    NoToken = 0
    MaxPending = 1
    JournalCapacity = 3
    MaxDiscovered = 1
    TombstoneLimit = 1
    CanonicalBlockLimit = 1
    UnconfirmedBlockLimit = 2
    RetryTimes = {1, 2}
    MaxTime = 2
    Finalized <- MCFinalized
    FirstBlock = "b1"
    MaxStops = 2
INVARIANTS ReopenAccepts NoWorkLost OnlyFinalizedWork PromotionTakesTurns
PROPERTIES ImplementsJournal
