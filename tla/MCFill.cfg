SPECIFICATION FairSpec
CONSTANTS
    r1 = r1  r2 = r2
    h1 = h1  h2 = h2
    None = None
    Requests = {r1, r2}
    Handlers = {h1, h2}
    Homes <- SameOrOther
    Budget = 2
    MaxChunks = 1
    NamedStage = TRUE
    Stopping = {h1}
INVARIANTS FillOnlyWhenMissing PublishedWhole StagedIsCharged ShutdownQuiet NothingHeld
PROPERTY EveryRequestEnds
CHECK_DEADLOCK FALSE
