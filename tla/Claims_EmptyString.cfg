CONSTANTS
    Letters = {"a", "b"}
    Replies <- Empty
    Values <- RepliesAndElements
    Encode <- Encoding
    MaxReplies = 2
    Resp3 = TRUE
    Stale = {"a"}
SPECIFICATION WholeSpec
INVARIANT TakesWholeReplies
CHECK_DEADLOCK FALSE
