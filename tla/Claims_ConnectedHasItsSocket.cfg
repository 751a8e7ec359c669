CONSTANTS
    Threads = {t1, t2}
    MaxFd = 2
    MaxOpens = 2
    Size = 1
    MaxErrors = 1
    None = None
SPECIFICATION PoolSpec
INVARIANT ConnectedHasItsSocket
CHECK_DEADLOCK FALSE
