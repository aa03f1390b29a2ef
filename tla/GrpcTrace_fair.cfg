\* One request with the three RPCs of the code, a crash and a restart, under
\* fairness.
CONSTANTS
    Requests = {r1}
    ClientThreads = {c1}
    ServerThreads = {s1}
    LastCall = 3
    MaxCrashes = 1
    NoRequest = NoRequest
    NoSpan = NoSpan
SPECIFICATION FairSpec
INVARIANTS
    ErrorsAgree
PROPERTIES
    RequestsEnd
    ServerSpansEnd
