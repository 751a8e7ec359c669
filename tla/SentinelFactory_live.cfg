CONSTANTS
    NumWorkers = 2
    Nodes = {n1, n2}
    Cmds = {}
    MaxTasks = 1
    Events = {"PsDown", "PoDown", "SwitchMaster"}
    Checking = FALSE
    None = None
    n1 = n1
    n2 = n2
SPECIFICATION FairSpec
PROPERTIES FollowsMaster StopReturns StopEndsReceiving
CHECK_DEADLOCK FALSE
