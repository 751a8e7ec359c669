CONSTANTS
    Letters = {"a", "b"}
    Replies <- NilInside
    Values <- RepliesAndElements
    Encode <- Encoding
    MaxReplies = 1
    Resp3 = FALSE
    Stale = {"a"}
SPECIFICATION WholeSpec
INVARIANT ReturnsWhatWasSent
CHECK_DEADLOCK FALSE
