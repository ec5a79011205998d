\* PuppetState: the two workers of a daemon, and one rewrite of any file, so that one worker may
\* hold the old version while the other stores the new.
\* DiscoverOnce: two nodes, an initial wait of three ticks and an idle wait of two.
\* Daemon: with the downtime module, one ipset set and two HUPs.
\* HvmInfo: two hypervisors, so one migration, two steps that fail, and two lines on the way.
CONSTANTS
    Workers = {"New", "StartServer"}
    Bad = Bad
    Blank = Blank
    psMaxWrites = 1
    doHosts = {"n1", "n2"}
    doInitialWait = 3
    doIdleWait = 2
    dmSets = {"s1"}
    dmIcinga = "up"
    dmMaxHups = 2
    hvHosts = {"h1", "h2"}
    None = None
    Noise = Noise
    Nameless = Nameless
    hvMaxFaults = 2
    hvMaxLines = 2
SPECIFICATION FairSpec
INVARIANTS HealthIsHonest FactIsSound
PROPERTIES Converges DiscoveryEnds HupEndsIt ListenersComeBack FactFollows
CHECK_DEADLOCK FALSE
