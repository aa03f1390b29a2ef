\* The queue fills during an outage; then the broker is back.
CONSTANTS
    Messages = {m1, m2, m3}
    Workers = {w1, w2}
    Partitions = {p1}
    QueueLimit = 2
    MaxResends = 1
    MaxOutages = 1
    MaxKills = 1
    NoMessage = NoMessage
    NoSpan = NoSpan
SPECIFICATION ProducerSpec
PROPERTIES
    ProducesWhenBrokerReady
