\* One run that fails to start is enough.
CONSTANTS
    Requests = {q1, q2}
    None = None
    Delays <- MCDelays
    DelayCap = 2
SPECIFICATION Spec
INVARIANTS BusyMeansARun
CHECK_DEADLOCK FALSE
