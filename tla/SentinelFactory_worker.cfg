CONSTANTS
    NumWorkers = 1
    Nodes = {n1, n2}
    Cmds = {c1}
    MaxTasks = 2
    Events = {"PsDown", "SsDown", "PoDown", "SoDown", "FailoverEnd", "SwitchMaster"}
    Checking = TRUE
    None = None
    n1 = n1
    n2 = n2
    c1 = c1
SPECIFICATION FairSpec
INVARIANTS TypeOK UsableIsConnected SettledOnMaster
PROPERTY AcceptedIsTaken
CHECK_DEADLOCK FALSE
