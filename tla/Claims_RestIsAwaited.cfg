CONSTANTS
    Nodes = 1
    Channels = 2
    Pattern = FALSE
    MaxEvents = 2
    MaxLate = 0
SPECIFICATION FairSpec
INVARIANT RestIsAwaited
CHECK_DEADLOCK FALSE
