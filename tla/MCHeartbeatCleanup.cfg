\* Two daemons, each of at most two starts; the clock of the other one is stuck.
CONSTANTS
    a = a
    b = b
    Hosts = {a, b}
    Self = a
    SlowClock = {b}
    Announced = {TRUE}
    MaxBoots <- MCBoots
    MaxTime = 1
    MaxAge = 0
    MaxFeed = 1
    Gone = Gone
    Junk = Junk
    Legacy = Legacy
    None = None
SPECIFICATION MCFairSpec
INVARIANTS CleanupInv OwnPresenceStays
PROPERTIES AbandonedIsRemoved
