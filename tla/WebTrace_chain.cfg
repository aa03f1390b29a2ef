\* A chain of up to three hops through programs with one thread each.
CONSTANTS
    NoSpan = NoSpan
    Users = {u1}
    Depth <- Relayed
    PoolSize <- OneThread
    Commands = 2
    Registered = {"curl", "redis", "mongo", "civetweb"}
    MaxCuts = 1
SPECIFICATION FairSpec
INVARIANTS
    TypeOK
    ChainIsOneTrace
    CallsNest
    RecordsAgree
    StopLosesNothing
PROPERTIES
    HopsEnd
    FollowsSpanProtocol
