\* Two nodes, every command, flag, destination, prefix and evaluation result; command lines
\* without a delay, with the assumed one and with a longer one.
CONSTANTS
    Nodes <- MCNodes
    Prefixes <- MCPrefixes
    All = All
    Pending = Pending
    Delays = {0, 1, 2}
SPECIFICATION CmdSpec
INVARIANTS RunsAsAsked CountedRequestsAreAnswered
CHECK_DEADLOCK FALSE
