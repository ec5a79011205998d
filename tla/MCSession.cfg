\* Two concurrent calls, sinks of one reply so that they fill up, three replies.
CONSTANTS
    c1 = c1
    c2 = c2
    stray = stray
    Calls = {c1, c2}
    Replies <- MCReplies
    ReplyBuffer = 1
    MaxReplies = 3
    Nothing = Nothing
SPECIFICATION FairSpec
INVARIANTS SessionInv Isolation NothingAfterClose
PROPERTIES RouterNeverBlocks EveryCallReturns
CHECK_DEADLOCK FALSE
