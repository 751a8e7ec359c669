CONSTANTS
    Letters = {"a", "b"}
    Replies <- Blobs
    Values <- RepliesAndElements
    Encode <- Encoding
    MaxReplies = 1
    Resp3 = TRUE
    Stale = {"a", "-"}
SPECIFICATION Spec
INVARIANT ReturnsWhatWasSent
CHECK_DEADLOCK FALSE
