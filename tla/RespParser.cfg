CONSTANTS
    Letters = {"a", "b"}
    Replies <- Supported
    Values <- RepliesAndElements
    Encode <- Encoding
    MaxReplies = 2
    Resp3 = TRUE
    Stale = {"a"}
SPECIFICATION Spec
INVARIANTS TypeOK ReturnsWhatWasSent TakesWholeReplies HoldsNothingBack
CHECK_DEADLOCK FALSE
