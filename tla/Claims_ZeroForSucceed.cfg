CONSTANTS
    MaxCommands = 2
    InitCap = 2
    Password = FALSE
SPECIFICATION WrapSpec
INVARIANT ZeroForSucceed
CHECK_DEADLOCK FALSE
