CONSTANTS
    NumWorkers = 1
    Nodes = {n1}
    Cmds = {c1}
    MaxTasks = 2
    Events = {"PsDown", "SsDown", "PoDown", "SoDown", "FailoverEnd", "SwitchMaster"}
    Checking = TRUE
    None = None
    n1 = n1
    c1 = c1
SPECIFICATION Spec
INVARIANT BusyIsExecuting
CHECK_DEADLOCK FALSE
