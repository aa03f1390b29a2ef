\* Two requests at once on two workers and two server threads, one RPC each.
CONSTANTS
    Requests = {r1, r2}
    ClientThreads = {c1, c2}
    ServerThreads = {s1, s2}
    LastCall = 1
    MaxCrashes = 1
    NoRequest = NoRequest
    NoSpan = NoSpan
SPECIFICATION Spec
SYMMETRY MCSymmetry
INVARIANTS
    TypeOK
    ThreadSeesOwnSpan
    ServerSpanInsideCall
    AnsweredTraceIsWhole
PROPERTIES
    FollowsSpanProtocol
    ClosedRecordsFrozen
