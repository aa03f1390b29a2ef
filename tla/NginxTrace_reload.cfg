\* One request, a worker and a cache manager in each of two cycles, a crash; one clock.
CONSTANTS
    Requests = {r1}
    Workers = 1
    Configs <- Reconfigured
    MaxCycle = 1
    MaxCrashes = 1
    MaxTime = 1
    MaxTries = 1
    Skew = 0
    Lag = 0
    Offsets = {0}
SPECIFICATION FairSpec
INVARIANTS
    TypeOK
    TracedOnce
    AgentsWhereTraced
PROPERTIES
    OldCyclesEnd
