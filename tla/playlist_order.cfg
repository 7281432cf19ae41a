SPECIFICATION Spec
CONSTANTS
    a = a
    b = b
    v = v
    p = p
    None = None
    Media <- SongAndPlaylist
    Video <- NoVideo
    SubItems <- TwoInside
    Loads <- PlaylistLists
    Shuffles = {FALSE}
    Repeats = {"none", "one", "all"}
    Alone = FALSE
    MaxList = 3
    MaxPrevious = 3
    MaxQueue = 1
    MaxStops = 1
INVARIANT
    CurrentIsPlaying
    NextIsFresh
    InsertionsInRange
