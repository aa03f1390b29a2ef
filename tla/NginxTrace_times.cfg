\* One request on the worker of one cycle; two clocks, of which one may be set.
CONSTANTS
    Requests = {r1}
    Workers = 1
    Configs <- Configured
    MaxCycle = 0
    MaxCrashes = 0
    MaxTime = 3
    MaxTries = 2
    Skew = 1
    Lag = 1
    Offsets <- SetBack
SPECIFICATION Spec
INVARIANTS
    EventFitsSpan
