\* Three requests: one runs, one is refused, one runs after the first is over.
CONSTANTS
    Requests = {q1, q2, q3}
    None = None
    Delays <- MCDelays
    DelayCap = 2
SPECIFICATION FairSpec
INVARIANTS RunInv OneRunAtATime
PROPERTIES ImplementsRunSlot SlotComesBack ListenerNeverWaits
CHECK_DEADLOCK FALSE
