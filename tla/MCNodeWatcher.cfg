\* Two daemons, each started at most twice, one unread message per topic.
CONSTANTS
    a = a
    b = b
    Hosts = {a, b}
    SlowClock = {}
    Announced = {TRUE, FALSE}
    MaxBoots <- MCBoots
    MaxTime = 1
    StaleAge = 0
    MaxFeed = 1
    Gone = Gone
    Junk = Junk
    Legacy = Legacy
SPECIFICATION WatcherFairSpec
INVARIANTS WatcherInv
PROPERTIES LiveIsActive
CHECK_DEADLOCK FALSE
