SPECIFICATION ListFairSpec
CONSTANTS
    Media = {m1, m2, m3}
    None = None
    MaxQueue = 2
    MaxHeld = 1
    MaxOwners = 2
INVARIANTS
    ListTypeOK
    CacheMirrorsList
    CountsAreHeld
    EventsTellTheList
    QuietAfterRelease
    CallbackHasObject
    NothingLeaks
PROPERTY ReleaseEnds
CHECK_DEADLOCK FALSE
