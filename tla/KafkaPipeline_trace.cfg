\* Two messages, of which one may be written twice, and a consumer that stops once,
\* by a signal or a crash, and is started again.
CONSTANTS
    Messages = {m1, m2}
    Workers = {w1}
    Partitions = {p1}
    QueueLimit = 1
    MaxResends = 1
    MaxOutages = 0
    MaxKills = 0
    MaxStops = 1
    NoMessage = NoMessage
    NoSpan = NoSpan
SPECIFICATION Spec
SYMMETRY MCSymmetry
INVARIANTS
    TypeOK
    OneSkipPerStop
    OneLossPerStop
    ReadingsDescend
