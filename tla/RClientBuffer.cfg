CONSTANTS
    Bytes = {b1, b2}
    Junk = Junk
    b1 = b1
    b2 = b2
    InitSize = 2
    MaxSize = 4
    MaxTotal = 5
SPECIFICATION Spec
SYMMETRY Symmetry
INVARIANTS TypeOK HoldsLastReceived
PROPERTY IsByteStream
CHECK_DEADLOCK FALSE
