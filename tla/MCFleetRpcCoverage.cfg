\* The same, and one property.  TLC finds a status stream that counts a node twice.
CONSTANTS
    c1 = c1
    c2 = c2
    Nodes <- MCNodes
    Calls = {c1, c2}
    Asks <- MCAsks
    Replies <- FleetReplies
    ReplyBuffer = 2
    MaxReplies = 3
    MaxDups = 1
    Nothing = Nothing
SPECIFICATION FleetSpec
INVARIANTS CoverageCountsNodes
CHECK_DEADLOCK FALSE
