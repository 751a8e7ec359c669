CONSTANTS
    Threads = {t1, t2}
    MaxFd = 3
    MaxOpens = 2
    Size = 2
    MaxErrors = 2
    None = None
SPECIFICATION FairSpec
INVARIANTS TypeOK CountIsSent NothingLeaks OwnDescriptor
PROPERTIES WriteEnds
CHECK_DEADLOCK FALSE
