SPECIFICATION FocusSpec
CONSTANT MaxMessages = 2
PROPERTY OnlyCallsResume
CHECK_DEADLOCK FALSE
