CONSTANTS
    Threads = {t1}
    MaxFd = 1
    MaxOpens = 1
    Size = 2
    MaxErrors = 1
    None = None
SPECIFICATION Spec
INVARIANT WholeIsSent
CHECK_DEADLOCK FALSE
