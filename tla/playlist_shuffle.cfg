SPECIFICATION Spec
CONSTANTS
    a = a
    b = b
    v = v
    p = p
    None = None
    Media <- OneSong
    Video <- NoVideo
    SubItems <- Leaves
    Loads <- FourTimes
    Shuffles = {FALSE, TRUE}
    Repeats = {"none", "all"}
    Alone = FALSE
    MaxList = 4
    MaxPrevious = 3
    MaxQueue = 1
    MaxStops = 1
INVARIANT
    ShuffleNeverRepeats
    IndicesInRange
