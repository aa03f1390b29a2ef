\* One message, perhaps written twice, with an outage and a stop of the
\* consumer, under fairness.
CONSTANTS
    Messages = {m1}
    Workers = {w1}
    Partitions = {p1}
    QueueLimit = 1
    MaxResends = 1
    MaxOutages = 1
    MaxKills = 0
    MaxStops = 1
    NoMessage = NoMessage
    NoSpan = NoSpan
SPECIFICATION FairSpec
PROPERTIES
    EveryRecordTraced
    StopsWhenAsked
    FollowsSpanProtocol
