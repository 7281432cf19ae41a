SPECIFICATION ListSpec
CONSTANTS
    Media = {m1, m2, m3}
    None = None
    MaxQueue = 2
    MaxHeld = 1
    MaxOwners = 2
INVARIANT RetainedStaysAlive
CHECK_DEADLOCK FALSE
