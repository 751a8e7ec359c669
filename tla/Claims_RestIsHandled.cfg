CONSTANTS
    Nodes = 1
    Channels = 2
    Pattern = FALSE
    MaxEvents = 2
    MaxLate = 0
SPECIFICATION FairSpec
INVARIANT RestIsHandled
CHECK_DEADLOCK FALSE
