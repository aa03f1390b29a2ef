\* One worker and every statement of the source; the database may go away.
CONSTANTS
    NoSpan = NoSpan
    NoRequest = NoRequest
    Requests = {d1, s1}
    Demos = {d1}
    Workers = {w1}
    Statements <- RunDemoHandler
    SpanKind = "sampled"
    MaxFaults = 1
SPECIFICATION Spec
INVARIANTS
    ReportIsTrue
