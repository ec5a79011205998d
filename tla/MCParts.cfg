\* PuppetAnswer: the two workers of a daemon, one rewrite of any file, one request of any kind.
\* Downtime: two requests.  Ipset: two commands on two addresses.
\* SnapshotFile: three savers, one of them of an empty snapshot, and two loaders on one path.
\* ClusterBackend: two nodes of any version, two expressions one after the other.
\* Repl: sessions of up to three lines of any kind, with two data sets.
\* ReplOutput: three nodes and one place in the list, so that it overflows; three lines, so
\* that two queries have a change of settings between them.
\* Completion: expressions of four tokens.
CONSTANTS
    Workers = {w1, w2}
    Bad = Bad
    Blank = Blank
    None = None
    paMaxWrites = 1
    paMaxAnswers = 1
    dtMachines <- Machines
    dtMaxDowntime = 2
    dtMaxRequests = 2
    ipNodes = {"n1", "n2"}
    ipGroups = {"g1", "g2"}
    ipNames = {"s1", "s2"}
    ipAddrs = {"a1", "a2"}
    ipConfig <- TwoGroups
    ipMaxCommands = 2
    sfSavers = {"w1", "w2", "w3"}
    sfLoaders = {"r1", "r2"}
    sfBare = {"w3"}
    nobody = nobody
    cbNodes = {"n1", "n2"}
    cbMaxEvals = 2
    rlData = {"d1", "d2"}
    rlFactKeys = {"fqdn"}
    rlMetaKeys = {"fqdn", "role"}
    noData = noData
    rlMaxLines = 3
    roNodes = {"n1", "n2", "n3"}
    roHere = "here"
    roErrorTexts = {"e1"}
    roStreamLimit = 1
    roMaxLines = 3
    coFactTrees <- Trees
    coValues <- ValuesOfTrees
    coNames <- Typable
    coAtoi <- Numbers
    coIndexes <- Numerals
    coClasses <- ClassNames
    coMaxTokens = 4
SYMMETRY Symmetry
SPECIFICATION Spec
INVARIANTS AnswersAreSound OnlyItself InSync SavesAreSafe SummaryIsTrue ExitCodeTells
           BackendIsSound OutputAddsUp CompletionsResolve
CHECK_DEADLOCK FALSE
