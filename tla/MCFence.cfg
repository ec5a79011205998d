\* Two agents with any of the requests, against every configuration of the target.
CONSTANTS
    Agents = {a1, a2}
    Nobody = Nobody
    MayAsk <- SomeRequests
    MayConfigure <- Configs
SPECIFICATION FairSpec
INVARIANTS NoAccident SuccessMeansReadonly
PROPERTIES FencingGoesThrough
CHECK_DEADLOCK FALSE
