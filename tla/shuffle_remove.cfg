SPECIFICATION Spec
CONSTANTS
    a = a
    b = b
    v = v
    p = p
    None = None
    Media <- TwoSongs
    Video <- NoVideo
    SubItems <- Leaves
    Loads <- FourSongs
    Shuffles = {FALSE, TRUE}
    Repeats = {"none", "one", "all"}
    Alone = FALSE
    MaxList = 4
    MaxPrevious = 2
    MaxQueue = 1
    MaxStops = 1
INVARIANT
    CurrentIsPlaying
