\* Chains of one call, on threads that do not run out.
CONSTANTS
    NoSpan = NoSpan
    Users = {u1}
    Depth <- CalledOnce
    PoolSize <- TwoThreads
    Commands = 1
    Registered = {"curl", "cpptrace", "redis", "mongo", "civetweb"}
    MaxCuts = 0
SPECIFICATION Spec
INVARIANTS
    FailureOnSpan
