SPECIFICATION MCSpec
CONSTANTS
    MaxFrames = 3
    MaxSetups = 2
    MaxChanges = 2
    MaxUpdates = 2
    MaxLines = 1
    MaxRead = 4
    MaxSessions = 2
    MaxMessages = 2
    MaxMeta = 3
    MaxTasks = 3
INVARIANTS
    TypesOK
    PictureIsWhole
    KeptIsCurrent
    HeardOnce
    AnsweredOnce
    ReferenceGivenBack
    ReadyWithSurfaces
    TextureStays
    OwnLines
    ShownEndsWithLog
    CallIsRemembered
    WakeLockFollows
    NotificationIsFresh
PROPERTIES
    CallerReturns
    ParseReturns
    ParseIsHeard
    CancelledIsAnswered
    ReleasedByGl
    WaitEnds
CHECK_DEADLOCK FALSE
