\* One agent.  TLC finds the exit code 0 of a fencing that did not happen.
CONSTANTS
    Agents = {a1}
    Nobody = Nobody
    MayAsk <- FromTheCli
    MayConfigure <- Configs
SPECIFICATION Spec
INVARIANTS ExitZeroMeansFenced
CHECK_DEADLOCK FALSE
