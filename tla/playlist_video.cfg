SPECIFICATION Spec
CONSTANTS
    a = a
    b = b
    v = v
    p = p
    None = None
    Media <- SongAndVideo
    Video <- OnlyVideo
    SubItems <- Leaves
    Loads <- SongVideoLists
    Shuffles = {FALSE}
    Repeats = {"none", "one", "all"}
    Alone = FALSE
    MaxList = 2
    MaxPrevious = 2
    MaxQueue = 2
    MaxStops = 1
INVARIANT
    TypeOK
    CurrentIsPlaying
    SongsGetTheirOwnEvents
