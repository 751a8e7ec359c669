CONSTANTS
    Letters = {"a", "b", "."}
    Replies <- Doubles
    Values <- RepliesAndElements
    Encode <- Encoding
    MaxReplies = 1
    Resp3 = TRUE
    Stale = {"a"}
SPECIFICATION WholeSpec
INVARIANT ReturnsWhatWasSent
CHECK_DEADLOCK FALSE
