CONSTANTS
    MaxCommands = 2
    InitCap = 2
    Password = FALSE
SPECIFICATION PairedSpec
INVARIANT ResponseIsForCommand
CHECK_DEADLOCK FALSE
