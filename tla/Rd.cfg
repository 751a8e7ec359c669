CONSTANTS
    MaxCommands = 3
    InitCap = 1
    Password = TRUE
SPECIFICATION RdSpec
INVARIANTS TypeOK RdTypeOK FreshReply InStep HonestError SuccessIsOwn
PROPERTIES CallEnds IsRequestReply
CHECK_DEADLOCK FALSE
