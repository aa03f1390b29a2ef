\* Two demos on two workers; one outage or one stop, and any number of crashes
\* and restarts.
CONSTANTS
    NoSpan = NoSpan
    NoRequest = NoRequest
    Requests = {d1, d2}
    Demos = {d1, d2}
    Workers = {w1, w2}
    Statements <- ShortDemo
    SpanKind = "sampled"
    MaxFaults = 1
SPECIFICATION Spec
SYMMETRY Symmetry
INVARIANTS
    TypeOK
    LoneReportIsTrue
    
    InsertedByOneOfThem
    SessionNeverDangles
    UndefinedNeedsTwo
    LeakNeedsTwo
PROPERTIES
    FollowsSpanProtocol
