SPECIFICATION LiveSpec
CONSTANTS
    a = a
    b = b
    v = v
    p = p
    None = None
    Media <- SongAndVideo
    Video <- OnlyVideo
    SubItems <- Leaves
    Loads <- SongVideoLists
    Shuffles = {FALSE}
    Repeats = {"none"}
    Alone = TRUE
    MaxList = 3
    MaxPrevious = 16
    MaxQueue = 2
    MaxStops = 2
    MaxCalls = 4
CHECK_DEADLOCK FALSE
PROPERTY
    PlaybackEnds
