CONSTANTS
    NumWorkers = 1
    Nodes = {n1}
    Cmds = {}
    MaxTasks = 1
    Events = {"PsDown", "SsDown", "PoDown", "SoDown", "FailoverEnd", "SwitchMaster"}
    Checking = FALSE
    None = None
    n1 = n1
SPECIFICATION FairSpec
PROPERTY SubscriptionRecovers
CHECK_DEADLOCK FALSE
