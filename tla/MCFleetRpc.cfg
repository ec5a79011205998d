\* One FilterMatch, Query or status stream, or two dumps through one session; two daemons, one duplicate
\* anywhere, three replies.
CONSTANTS
    c1 = c1
    c2 = c2
    Nodes <- MCNodes
    Calls = {c1, c2}
    Asks <- MCAsks
    Replies <- FleetReplies
    ReplyBuffer = 2
    MaxReplies = 3
    MaxDups = 1
    Nothing = Nothing
SPECIFICATION FleetSpec
INVARIANTS OutcomeCountsNodes OutcomeIsWhatNodesSaw DumpIsOfTheNodeAsked
PROPERTIES ImplementsSession
CHECK_DEADLOCK FALSE
