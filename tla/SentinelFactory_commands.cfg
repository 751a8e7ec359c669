CONSTANTS
    NumWorkers = 2
    Nodes = {n1}
    Cmds = {c1, c2}
    MaxTasks = 1
    Events = {"PoDown"}
    Checking = TRUE
    None = None
    n1 = n1
    c1 = c1
    c2 = c2
SPECIFICATION Spec
INVARIANTS CommandInOnePlace OnlyStartedWorkersHoldCommands
PROPERTY KeepsLedger
CHECK_DEADLOCK FALSE
SYMMETRY Symmetry
