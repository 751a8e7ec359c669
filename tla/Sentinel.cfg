CONSTANTS
    Nodes = 2
    Channels = 1
    Pattern = TRUE
    MaxEvents = 2
    MaxLate = 2
    MaxCalls = 4
    MaxSwitches = 2
SPECIFICATION FairSentinel
INVARIANTS TypeOK MessagesInOrder WaitsEmptyHanded SentinelTypeOK AnswerIsCurrent KnowsMaster
PROPERTIES MessageIsHandled StopEndsRecvMsg HearsOfSwitch
CHECK_DEADLOCK FALSE
