SPECIFICATION FairSpec
CONSTANTS
    i = i
    j = j
    t = t
    u = u
    None = None
    Items <- TwoItems
    Tasks <- TwoTasks
    MaxCalls = 4
CHECK_DEADLOCK FALSE
INVARIANTS
    OneDiffAtATime
    DiffFitsDisplay
    NothingLost
PROPERTY
    ShowsTheLatest
