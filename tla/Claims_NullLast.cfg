CONSTANTS
    Letters = {"a", "b"}
    Replies <- NilLast
    Values <- RepliesAndElements
    Encode <- Encoding
    MaxReplies = 1
    Resp3 = TRUE
    Stale = {"a"}
SPECIFICATION WholeSpec
INVARIANT HoldsNothingBack
CHECK_DEADLOCK FALSE
