\* Three requests on two workers, a queue of two places, an outage, a lost
\* acknowledgement and a stop of the process.
CONSTANTS
    Messages = {m1, m2, m3}
    Workers = {w1, w2}
    Partitions = {p1}
    QueueLimit = 2
    MaxResends = 1
    MaxOutages = 1
    MaxKills = 1
    NoMessage = NoMessage
    NoSpan = NoSpan
SPECIFICATION ProducerSpec
SYMMETRY MCSymmetry
INVARIANTS
    ProducerTypeOK
    AnswerTellsFate
PROPERTIES
    ClogsForGood
    ProducerFollowsSpanProtocol
