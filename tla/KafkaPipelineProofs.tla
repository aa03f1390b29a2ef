------------------------ MODULE KafkaPipelineProofs ------------------------
(***************************************************************************)
(* Proofs about KafkaPipeline, for any number of messages, workers and     *)
(* partitions, and any number of duplicates, outages and stops.  What is   *)
(* proved of the producer is IInv of KafkaProducerProofs.                  *)
(***************************************************************************)
EXTENDS KafkaPipeline, KafkaProducerProofs

-----------------------------------------------------------------------------
(* The inductive invariant. *)

\* The messages that librdkafka will not send any more.
Settled == {m \in Messages : queue[m] \notin {"none", "queued"}}

\* A message that may be written has its headers, and the topic has a record for
\* each message that is not sent any more, at most, and one for each lost
\* acknowledgement.
TopicInv ==
    /\ \A m \in Messages : queue[m] # "none" => headers[m] = InjectedContext(m)
    /\ \A w \in Workers : worker[w].pc = "produce" =>
           headers[worker[w].msg] = InjectedContext(worker[w].msg)
    /\ \A p \in Partitions : Len(log[p]) <= Cardinality(Settled) + resends

ReadingRecords == SpanType(Spans, Events)

\* The type of the variables that TypeOK says less about.
Typed == /\ TypeOK
         /\ position \in [Partitions -> Nat]
         /\ committed \in [Partitions -> Nat]

\* The span of the reading x continues that of the message it read.
Descends(x) ==
    LET root == span[MessageOf(x)]
    IN  /\ root.phase # "none"
        /\ reading[x].kind # "noop" /\ root.kind # "noop"
           => /\ reading[x].kind = root.kind
              /\ reading[x].parent = IF root.kind = "sampled"
                                     THEN MessageOf(x) ELSE NoSpan

\* A reading is of a record that is there, in this life of the consumer or an
\* earlier one; and in this life, of a record before the consumer's position.
ReadingInv(x) ==
    /\ reading[x].phase = "none" => reading[x] = Unborn
    /\ reading[x].phase # "none" =>
          /\ x[2] <= Len(log[x[1]]) /\ x[3] <= life
          /\ x[3] = life => consumer.pc # "off" /\ x[2] <= position[x[1]]
          /\ Descends(x)

\* What the consumer holds: the last record before its position.
HoldInv ==
    LET x == consumer.at
    IN  consumer.pc \notin {"off", "loop", "waiting"} =>
        /\ x \in Readings /\ x[3] = life /\ x[2] = position[x[1]]
        /\ IF consumer.pc = "consumed" THEN reading[x].phase = "none"
           ELSE /\ reading[x].phase = "open"
                /\ reading[x].stack = IF consumer.pc = "process"
                                      THEN <<ProcessEvent>> ELSE <<>>

Slots == Partitions \X (1 .. Cardinality(Messages) + MaxResends)

\* The records the group or the consumer has moved past without having traced them
\* to their end, but for the one that the consumer has in hand.
Passed(r) == r[2] <= committed[r[1]] \/ r[2] <= position[r[1]]
InHand(r) == /\ consumer.pc \notin {"off", "loop", "waiting"}
             /\ r = <<consumer.at[1], consumer.at[2]>>
Missed == {r \in Slots : Passed(r) /\ ~Finished(r[1], r[2]) /\ ~InHand(r)}

SkipInv == IsFiniteSet(Missed) /\ Cardinality(Missed) <= life

PipeInv == /\ IInv /\ TopicInv /\ Typed
           /\ \A x \in Readings : ReadingInv(x)
           /\ HoldInv
           /\ SkipInv

-----------------------------------------------------------------------------
(* The topic. *)

\* A span that was born keeps its sampling decision.
KindsStay == \A m \in Messages : span[m].phase # "none" =>
                 span'[m].phase # "none" /\ span'[m].kind = span[m].kind

\* No record moves.
LogGrows == \A p \in Partitions :
    /\ Len(log[p]) <= Len(log'[p])
    /\ \A i \in 1 .. Len(log[p]) : log'[p][i] = log[p][i]

HeadersInv ==
    /\ \A m \in Messages : queue[m] # "none" => headers[m] = InjectedContext(m)
    /\ \A w \in Workers : worker[w].pc = "produce" =>
           headers[worker[w].msg] = InjectedContext(worker[w].msg)

\* A step that prepares no headers.
LEMMA HeadersStay ==
    ASSUME IInv, HeadersInv, KindsStay, headers' = headers,
           \A m \in Messages : queue'[m] # "none" =>
               \/ queue[m] # "none"
               \/ \E w \in Workers : worker[w].pc = "produce" /\ worker[w].msg = m,
           \A w \in Workers : worker'[w].pc = "produce" => worker'[w] = worker[w]
    PROVE  HeadersInv'
<1>1. ASSUME NEW m \in Messages, span[m].phase # "none"
      PROVE  InjectContext(span'[m], m) = InjectContext(span[m], m)
  BY <1>1 DEF KindsStay, InjectContext
<1>2. ASSUME NEW w \in Workers, worker[w].pc = "produce"
      PROVE  worker[w].msg \in Messages /\ span[worker[w].msg].phase # "none"
  BY <1>2, Busy DEF Progress
<1>3. ASSUME NEW m \in Messages, queue'[m] # "none"
      PROVE  headers'[m] = InjectContext(span'[m], m)
  <2>1. CASE queue[m] # "none"
    BY <2>1, <1>1 DEF IInv, MessageInv, HeadersInv, InjectedContext
  <2>2. CASE \E w \in Workers : worker[w].pc = "produce" /\ worker[w].msg = m
    BY <2>2, <1>1, <1>2 DEF HeadersInv, InjectedContext
  <2> QED BY <2>1, <2>2, <1>3
<1>4. ASSUME NEW w \in Workers, worker'[w].pc = "produce"
      PROVE  headers'[worker'[w].msg]
                = InjectContext(span'[worker'[w].msg], worker'[w].msg)
  BY <1>1, <1>2, <1>4 DEF HeadersInv, InjectedContext
<1> QED BY <1>3, <1>4 DEF HeadersInv, InjectedContext

\* There are no more settled messages than messages.
LEMMA FewSettled == IsFiniteSet(Settled) /\ Cardinality(Settled) \in Nat
                    /\ Cardinality(Messages) \in Nat
                    /\ Cardinality(Settled) <= Cardinality(Messages)
<1>1. Settled \subseteq Messages /\ IsFiniteSet(Messages)
  BY KafkaAssumption DEF Settled
<1> QED BY <1>1, FS_Subset, FS_CardinalityType

\* What is settled stays settled; one more message counts one more.
LEMMA SettledGrows ==
    ASSUME \A m \in Messages : queue[m] \notin {"none", "queued"} =>
                                   queue'[m] \notin {"none", "queued"}
    PROVE  /\ Cardinality(Settled) <= Cardinality(Settled')
           /\ Cardinality(Settled') \in Nat
           /\ \A m \in Settled' \ Settled :
                  Cardinality(Settled) + 1 <= Cardinality(Settled')
<1>1. Settled \subseteq Settled' /\ IsFiniteSet(Messages) /\ Settled' \subseteq Messages
  BY KafkaAssumption DEF Settled
<1>2. IsFiniteSet(Settled') /\ IsFiniteSet(Settled)
  BY <1>1, FS_Subset
<1>3. Cardinality(Settled) \in Nat /\ Cardinality(Settled') \in Nat
      /\ Cardinality(Settled) <= Cardinality(Settled')
  BY <1>1, <1>2, FS_Subset, FS_CardinalityType
<1>4. ASSUME NEW m \in Settled' \ Settled
      PROVE  Cardinality(Settled) + 1 <= Cardinality(Settled')
  <2>1. Cardinality(Settled \cup {m}) = Cardinality(Settled) + 1
    BY <1>2, <1>4, FS_AddElement
  <2>2. Settled \cup {m} \subseteq Settled'
    BY <1>1, <1>4
  <2>3. Cardinality(Settled \cup {m}) <= Cardinality(Settled')
    BY <1>2, <2>2, FS_Subset
  <2> QED BY <2>1, <2>3
<1> QED BY <1>3, <1>4

\* A step that writes no record.
LEMMA NoRecord ==
    ASSUME IInv, TopicInv, HeadersInv', KindsStay, log' = log, resends' = resends,
           \A m \in Messages : queue[m] \notin {"none", "queued"} =>
                                   queue'[m] \notin {"none", "queued"}
    PROVE  TopicInv' /\ KindsStay /\ LogGrows
<1>1. ASSUME NEW p \in Partitions
      PROVE  Len(log[p]) \in Nat /\ Len(log[p]) <= Cardinality(Settled') + resends
  <2>1. Len(log[p]) \in Nat /\ resends \in Nat
    BY DEF IInv, ProducerTypeOK
  <2>2. Len(log[p]) <= Cardinality(Settled) + resends
    BY DEF TopicInv
  <2> QED BY <2>1, <2>2, SettledGrows, FewSettled
<1>2. TopicInv'
  BY <1>1 DEF TopicInv, HeadersInv
<1>3. LogGrows
  BY <1>1 DEF LogGrows
<1> QED BY <1>2, <1>3

\* A record goes to the log: its message is settled, or its acknowledgement lost.
LEMMA WriteKeepsTopic ==
    ASSUME IInv, TopicInv, NEW m \in Messages, NEW p \in Partitions, WriteRecord(m, p)
    PROVE  TopicInv' /\ KindsStay /\ LogGrows
<1>1. /\ queue[m] = "queued" /\ log' = [log EXCEPT ![p] = Append(@, m)]
      /\ UNCHANGED <<span, worker, headers>>
  BY DEF WriteRecord, requestVars
<1>2. \/ queue' = [queue EXCEPT ![m] = "acked"] /\ resends' = resends
      \/ queue' = queue /\ resends' = resends + 1
  BY DEF WriteRecord
<1>3. queue \in [Messages -> Fates] /\ log \in [Partitions -> Seq(Messages)]
      /\ resends \in Nat
  BY DEF IInv, ProducerTypeOK
<1>4. KindsStay
  BY <1>1 DEF KindsStay
<1>5. HeadersInv'
  <2>1. HeadersInv
    BY DEF TopicInv, HeadersInv
  <2>2. \A x \in Messages : queue'[x] # "none" => queue[x] # "none"
    BY <1>1, <1>2, <1>3
  <2> QED BY <1>1, <1>4, <2>1, <2>2, HeadersStay
<1>6. \A q \in Partitions : log[q] \in Seq(Messages) /\ Len(log[q]) \in Nat
      /\ log'[q] = IF q = p THEN Append(log[p], m) ELSE log[q]
  BY <1>1, <1>3
<1>7. LogGrows
  <2>1. ASSUME NEW q \in Partitions
        PROVE  /\ Len(log[q]) <= Len(log'[q])
               /\ \A i \in 1 .. Len(log[q]) : log'[q][i] = log[q][i]
    <3>1. CASE q = p
      <4>1. log'[q] = Append(log[q], m) /\ log[q] \in Seq(Messages)
        BY <1>6, <3>1
      <4> QED BY <4>1
    <3>2. CASE q # p
      BY <1>6, <3>2
    <3> QED BY <3>1, <3>2
  <2> QED BY <2>1 DEF LogGrows
<1>8. Cardinality(Settled) + resends + 1 <= Cardinality(Settled') + resends'
  <2>1. CASE queue' = [queue EXCEPT ![m] = "acked"] /\ resends' = resends
    <3>1. \A x \in Messages : queue'[x] = IF x = m THEN "acked" ELSE queue[x]
      BY <2>1, <1>3
    <3>2. m \in Settled' \ Settled
      BY <3>1, <1>1 DEF Settled
    <3>3. Cardinality(Settled) + 1 <= Cardinality(Settled')
          /\ Cardinality(Settled') \in Nat
      BY <3>1, <3>2, SettledGrows
    <3> QED BY <2>1, <3>3, <1>3, FewSettled
  <2>2. CASE queue' = queue /\ resends' = resends + 1
    <3>1. Settled' = Settled
      BY <2>2 DEF Settled
    <3> QED BY <2>2, <3>1, <1>3, FewSettled
  <2> QED BY <2>1, <2>2, <1>2
<1>9. ASSUME NEW q \in Partitions
      PROVE  Len(log'[q]) <= Cardinality(Settled') + resends'
  <2>1. Len(log'[q]) = Len(log[q]) \/ Len(log'[q]) = Len(log[q]) + 1
    <3>1. CASE q = p
      <4>1. log'[q] = Append(log[q], m) /\ log[q] \in Seq(Messages)
        BY <1>6, <3>1
      <4> QED BY <4>1
    <3>2. CASE q # p
      BY <1>6, <3>2
    <3> QED BY <3>1, <3>2
  <2>2. Len(log[q]) <= Cardinality(Settled) + resends
    BY DEF TopicInv
  <2>3. Cardinality(Settled') \in Nat /\ resends' \in Nat
    <3>1. IsFiniteSet(Messages) /\ Settled' \subseteq Messages
      BY KafkaAssumption DEF Settled
    <3> QED BY <3>1, <1>2, <1>3, FS_Subset, FS_CardinalityType
  <2> QED BY <2>1, <2>2, <2>3, <1>3, <1>6, <1>8, FewSettled
<1> QED BY <1>4, <1>5, <1>7, <1>9 DEF TopicInv, HeadersInv

\* produce_message prepares the headers from the span of the request.
LEMMA BeginProduceKeepsTopic ==
    ASSUME IInv, TopicInv, NEW w \in Workers, BeginProduce(w)
    PROVE  TopicInv' /\ KindsStay /\ LogGrows
<1> DEFINE m == worker[w].msg
           s == NewSpanEvent(span[m], ProduceEvent)
           c == InjectContext(span[m], m)
<1>1. /\ worker[w].pc = "traced"
      /\ span' = [span EXCEPT ![m] = s]
      /\ headers' = [headers EXCEPT ![m] = c]
      /\ worker' = [worker EXCEPT ![w].pc = "produce"]
      /\ UNCHANGED <<queue, log, resends>>
  BY DEF BeginProduce, InjectedContext, brokerVars
<1>2. m \in Messages /\ span[m] \in SpanRecords /\ span[m].phase = "open"
      /\ worker[w] \in WorkerRecords /\ queue[m] = "none"
  BY <1>1, Busy DEF Progress
<1>3. s.kind = span[m].kind /\ s.phase = "open"
  BY <1>2 DEF NewSpanEvent, SpanRecords, SpanType
<1>4. InjectContext(s, m) = c
  BY <1>3 DEF InjectContext
<1> HIDE DEF s, c
<1>5. /\ span'[m] = s /\ headers'[m] = c
      /\ \A x \in Messages \ {m} : span'[x] = span[x] /\ headers'[x] = headers[x]
  BY <1>1, <1>2 DEF IInv, ProducerTypeOK
<1>6. KindsStay
  BY <1>2, <1>3, <1>5 DEF KindsStay
<1>7. /\ worker'[w].pc = "produce" /\ worker'[w].msg = m
      /\ \A u \in Workers \ {w} : worker'[u] = worker[u]
  BY <1>1, <1>2 DEF IInv, ProducerTypeOK, WorkerRecords
<1>8. ASSUME NEW x \in Messages, queue'[x] # "none"
      PROVE  headers'[x] = InjectContext(span'[x], x)
  <2>1. x # m /\ queue[x] # "none"
    BY <1>1, <1>2, <1>8
  <2> QED BY <2>1, <1>5 DEF TopicInv, InjectedContext
<1>9. ASSUME NEW u \in Workers, worker'[u].pc = "produce"
      PROVE  headers'[worker'[u].msg]
                = InjectContext(span'[worker'[u].msg], worker'[u].msg)
  <2>1. CASE u = w
    BY <2>1, <1>4, <1>5, <1>7
  <2>2. CASE u # w
    <3>1. worker'[u] = worker[u] /\ worker[u].pc = "produce"
      BY <2>2, <1>7, <1>9
    <3>2. worker[u].msg \in Messages /\ worker[u].msg # m
      BY <2>2, <3>1, <1>1, Busy DEF IInv, WorkersApart
    <3> QED BY <3>1, <3>2, <1>5 DEF TopicInv, InjectedContext
  <2> QED BY <2>1, <2>2
<1>10. HeadersInv'
  BY <1>8, <1>9 DEF HeadersInv, InjectedContext
<1> QED BY <1>1, <1>6, <1>10, NoRecord

\* Every step of the producer keeps the kinds of its spans and the records.
LEMMA ProducerKeepsTopic ==
    ASSUME IInv, TopicInv, [ProducerNext]_producerVars
    PROVE  TopicInv' /\ KindsStay /\ LogGrows
<1>f. /\ span \in [Messages -> SpanRecords] /\ worker \in [Workers -> WorkerRecords]
      /\ queue \in [Messages -> Fates] /\ HeadersInv
  BY DEF IInv, ProducerTypeOK, TopicInv, HeadersInv
<1>1. ASSUME NEW w \in Workers, NEW m \in Messages, HandleRequest(w, m)
      PROVE  TopicInv' /\ KindsStay /\ LogGrows
  <2>1. UNCHANGED <<headers, queue, log, resends>> /\ span[m].phase = "none"
    BY <1>1 DEF HandleRequest, brokerVars
  <2>2. \A x \in Messages \ {m} : span'[x] = span[x]
    BY <1>1, <1>f DEF HandleRequest
  <2>3. \A u \in Workers : worker'[u].pc = "produce" => worker'[u] = worker[u]
    BY <1>1, <1>f DEF HandleRequest, IdleWorker
  <2>4. KindsStay
    BY <2>1, <2>2 DEF KindsStay
  <2>5. HeadersInv'
    BY <2>1, <2>3, <2>4, <1>f, HeadersStay
  <2> QED BY <2>1, <2>4, <2>5, NoRecord
<1>2. ASSUME NEW w \in Workers, BeginProduce(w)
      PROVE  TopicInv' /\ KindsStay /\ LogGrows
  BY <1>2, BeginProduceKeepsTopic
<1>3. ASSUME NEW w \in Workers, Produce(w)
      PROVE  TopicInv' /\ KindsStay /\ LogGrows
  <2> DEFINE m == worker[w].msg
  <2>1. UNCHANGED <<span, headers, log, resends>> /\ worker[w].pc = "produce"
    BY <1>3 DEF Produce, brokerVars
  <2>2. m \in Messages /\ queue[m] = "none"
    BY <2>1, Busy DEF Progress
  <2>3. \A x \in Messages \ {m} : queue'[x] = queue[x]
    BY <1>3, <1>f, <2>2 DEF Produce
  <2>4. \A u \in Workers : worker'[u].pc = "produce" => worker'[u] = worker[u]
    BY <1>3, <1>f DEF Produce, WorkerRecords
  <2>5. KindsStay
    BY <2>1 DEF KindsStay
  <2>6. HeadersInv'
    BY <2>1, <2>2, <2>3, <2>4, <2>5, <1>f, HeadersStay
  <2>7. \A x \in Messages : queue[x] \notin {"none", "queued"} =>
                                queue'[x] \notin {"none", "queued"}
    BY <2>2, <2>3
  <2> QED BY <2>1, <2>5, <2>6, <2>7, NoRecord
<1>4. ASSUME NEW w \in Workers, FinishProduce(w)
      PROVE  TopicInv' /\ KindsStay /\ LogGrows
  <2> DEFINE m == worker[w].msg
             s == EndProduceEvent(span[m], worker[w].ok)
  <2>1. UNCHANGED <<headers, log, resends>> /\ worker[w].pc = "produced"
        /\ span' = [span EXCEPT ![m] = s]
    BY <1>4 DEF FinishProduce, brokerVars
  <2>2. m \in Messages /\ span[m] \in SpanRecords
    BY <2>1, Busy
  <2>3. s.kind = span[m].kind /\ s.phase = span[m].phase
    BY <2>2 DEF EndProduceEvent, EndEvent, SpanRecords, SpanType
  <2> HIDE DEF s
  <2>4. KindsStay
    BY <1>f, <2>1, <2>2, <2>3 DEF KindsStay
  <2>5. \A x \in Messages : queue'[x] = queue[x]
                            \/ (queue[x] # "none" /\ queue'[x] = "served")
    BY <1>4, <1>f DEF FinishProduce, Polled, ServedReports
  <2>6. \A u \in Workers : worker'[u].pc = "produce" => worker'[u] = worker[u]
    BY <1>4, <1>f DEF FinishProduce, WorkerRecords
  <2>7. HeadersInv'
    BY <2>1, <2>4, <2>5, <2>6, <1>f, HeadersStay
  <2>8. \A x \in Messages : queue[x] \notin {"none", "queued"} =>
                                queue'[x] \notin {"none", "queued"}
    BY <2>5
  <2> QED BY <2>1, <2>4, <2>7, <2>8, NoRecord
<1>5. ASSUME NEW w \in Workers, Respond(w)
      PROVE  TopicInv' /\ KindsStay /\ LogGrows
  <2> DEFINE m == worker[w].msg
             s == EndSpan(span[m], ~worker[w].ok)
  <2>1. UNCHANGED <<headers, queue, log, resends>> /\ worker[w].pc = "respond"
        /\ span' = [span EXCEPT ![m] = s]
    BY <1>5 DEF Respond, brokerVars
  <2>2. m \in Messages /\ span[m] \in SpanRecords
    BY <2>1, Busy
  <2>3. s.kind = span[m].kind /\ s.phase = "ended"
    BY <2>2 DEF EndSpan, SpanRecords, SpanType
  <2> HIDE DEF s
  <2>4. KindsStay
    BY <1>f, <2>1, <2>2, <2>3 DEF KindsStay
  <2>5. \A u \in Workers : worker'[u].pc = "produce" => worker'[u] = worker[u]
    BY <1>5, <1>f DEF Respond, IdleWorker
  <2>6. HeadersInv'
    BY <2>1, <2>4, <2>5, <1>f, HeadersStay
  <2> QED BY <2>1, <2>4, <2>6, NoRecord
<1>6. ASSUME NEW m \in Messages, Expire(m)
      PROVE  TopicInv' /\ KindsStay /\ LogGrows
  <2>1. UNCHANGED <<span, worker, headers, log, resends>> /\ queue[m] = "queued"
        /\ queue' = [queue EXCEPT ![m] = "expired"]
    BY <1>6 DEF Expire, requestVars, brokerVars
  <2>2. \A x \in Messages : queue'[x] = queue[x]
                            \/ (queue[x] # "none" /\ queue'[x] = "expired")
    BY <2>1, <1>f
  <2>3. KindsStay
    BY <2>1 DEF KindsStay
  <2>4. HeadersInv'
    BY <2>1, <2>2, <2>3, <1>f, HeadersStay
  <2> QED BY <2>1, <2>2, <2>3, <2>4, NoRecord
<1>7. CASE ProducerStops
  <2>1. /\ UNCHANGED <<headers, log, resends>>
        /\ span' = [m \in Messages |-> Lose(span[m])]
        /\ worker' = [w \in Workers |-> IdleWorker]
        /\ queue' = [m \in Messages |-> IF m \in Held THEN "dropped" ELSE queue[m]]
    BY <1>7 DEF ProducerStops, brokerVars
  <2>2. \A x \in Messages : queue'[x] = queue[x]
                            \/ (queue[x] # "none" /\ queue'[x] = "dropped")
    BY <2>1 DEF Held
  <2>3. ASSUME NEW m \in Messages
        PROVE  span'[m].kind = span[m].kind
               /\ (span[m].phase # "none" => span'[m].phase # "none")
    <3>1. span'[m] = Lose(span[m]) /\ span[m] \in SpanRecords
      BY <2>1, <1>f
    <3> QED BY <3>1 DEF Lose, SpanRecords, SpanType
  <2>4. KindsStay
    BY <2>3 DEF KindsStay
  <2>5. HeadersInv'
    BY <2>1, <2>2, <2>4, <1>f, HeadersStay DEF IdleWorker
  <2> QED BY <2>1, <2>2, <2>4, <2>5, NoRecord
<1>8. CASE \/ BrokerFails \/ BrokerReturns \/ ProducerRegisters \/ ProducerStarts
           \/ ProducerRests \/ UNCHANGED producerVars
  <2>1. UNCHANGED <<span, worker, headers, queue, log, resends>>
    BY <1>8 DEF BrokerFails, BrokerReturns, ProducerRegisters, ProducerStarts,
       ProducerRests, producerVars, requestVars, brokerVars
  <2>2. KindsStay
    BY <2>1 DEF KindsStay
  <2>3. HeadersInv'
    BY <2>1, <2>2, <1>f, HeadersStay
  <2> QED BY <2>1, <2>2, <2>3, NoRecord
<1> QED BY <1>1, <1>2, <1>3, <1>4, <1>5, <1>6, <1>7, <1>8, WriteKeepsTopic
        DEF ProducerNext, WorkerStep

-----------------------------------------------------------------------------
(* What the steps of the consumer have in common. *)

\* A reading is of a partition, of a place in it, in a life.
LEMMA ReadingParts ==
    /\ Cardinality(Messages) + MaxResends \in Nat /\ MaxStops \in Nat
    /\ \A x \in Readings : /\ x = <<x[1], x[2], x[3]>> /\ x[1] \in Partitions
                           /\ x[2] \in 1 .. Cardinality(Messages) + MaxResends
                           /\ x[3] \in 0 .. MaxStops
                           /\ <<x[1], x[2]>> \in Slots
    /\ \A p \in Partitions, i \in 1 .. Cardinality(Messages) + MaxResends,
          n \in 0 .. MaxStops : <<p, i, n>> \in Readings
<1>1. Cardinality(Messages) \in Nat /\ MaxResends \in Nat /\ MaxStops \in Nat
  BY FewSettled, KafkaAssumption, StopsAssumption
<1> QED BY <1>1 DEF Readings, Slots

\* A slot is a place in a partition.
LEMMA SlotParts ==
    \A r \in Slots : /\ r = <<r[1], r[2]>> /\ r[1] \in Partitions
                     /\ r[2] \in 1 .. Cardinality(Messages) + MaxResends
BY DEF Slots

\* The types that the proofs need, and the bound on the topic.
LEMMA Types ==
    ASSUME PipeInv
    PROVE  /\ reading \in [Readings -> ReadingRecords]
           /\ log \in [Partitions -> Seq(Messages)]
           /\ position \in [Partitions -> Nat] /\ committed \in [Partitions -> Nat]
           /\ life \in 0 .. MaxStops /\ life \in Nat
           /\ \A p \in Partitions : /\ Len(log[p]) \in Nat
                                    /\ position[p] \in 0 .. Len(log[p])
                                    /\ committed[p] \in 0 .. Len(log[p])
                                    /\ Len(log[p]) <= Cardinality(Messages) + MaxResends
<1>1. log \in [Partitions -> Seq(Messages)] /\ resends \in 0 .. MaxResends
      /\ MaxResends \in Nat
  BY KafkaAssumption DEF PipeInv, IInv, ProducerTypeOK
<1>2. ASSUME NEW p \in Partitions
      PROVE  Len(log[p]) \in Nat /\ Len(log[p]) <= Cardinality(Messages) + MaxResends
  <2>1. Len(log[p]) \in Nat
    BY <1>1
  <2>2. Len(log[p]) <= Cardinality(Settled) + resends
    BY DEF PipeInv, TopicInv
  <2> QED BY <2>1, <2>2, <1>1, FewSettled
<1>3. life \in 0 .. MaxStops /\ MaxStops \in Nat
  BY StopsAssumption DEF PipeInv, Typed, TypeOK
<1>4. life \in Nat
  BY <1>3
<1> QED BY <1>1, <1>2, <1>3, <1>4 DEF PipeInv, Typed, TypeOK, ReadingRecords

\* A reading that was started has a message, and so it will have.
LEMMA OfReading ==
    ASSUME PipeInv, IInv', LogGrows, NEW x \in Readings, reading[x].phase # "none"
    PROVE  /\ MessageOf(x) \in Messages /\ MessageOf(x) = log'[x[1]][x[2]]
           /\ x[2] <= Len(log'[x[1]])
<1>1. x[1] \in Partitions /\ x[2] \in Nat /\ x[2] >= 1 /\ x[2] <= Len(log[x[1]])
      /\ Len(log[x[1]]) \in Nat /\ log[x[1]] \in Seq(Messages)
  <2>1. x[1] \in Partitions /\ x[2] \in Nat /\ x[2] >= 1
    <3> DEFINE n == Cardinality(Messages) + MaxResends
    <3>1. n \in Nat /\ x[1] \in Partitions /\ x[2] \in 1 .. n
      BY ReadingParts
    <3> HIDE DEF n
    <3> QED BY <3>1
  <2>2. ReadingInv(x)
    BY DEF PipeInv
  <2> QED BY <2>1, <2>2, Types DEF ReadingInv
<1>2. x[2] \in 1 .. Len(log[x[1]])
  BY <1>1
<1>3. log[x[1]][x[2]] \in Messages
  BY <1>1, <1>2
<1>4. Len(log[x[1]]) <= Len(log'[x[1]]) /\ log'[x[1]][x[2]] = log[x[1]][x[2]]
  BY <1>1, <1>2 DEF LogGrows
<1>5. x[2] <= Len(log'[x[1]])
  <2>1. Len(log'[x[1]]) \in Nat
    BY <1>1 DEF IInv, ProducerTypeOK
  <2> QED BY <2>1, <1>1, <1>4
<1> QED BY <1>3, <1>4, <1>5 DEF MessageOf

\* A reading whose span goes on, or has not started.
LEMMA ReadingKept ==
    ASSUME PipeInv, IInv', KindsStay, LogGrows, NEW x \in Readings,
           reading[x].phase = "none" => reading'[x] = reading[x],
           reading[x].phase # "none" =>
              /\ reading'[x].phase # "none"
              /\ reading'[x].kind = reading[x].kind
              /\ reading'[x].parent = reading[x].parent
              /\ x[3] <= life'
              /\ x[3] = life' => consumer'.pc # "off" /\ x[2] <= position'[x[1]]
    PROVE  ReadingInv(x)'
<1>1. ReadingInv(x)
  BY DEF PipeInv
<1>2. CASE reading[x].phase = "none"
  BY <1>1, <1>2 DEF ReadingInv, Unborn
<1>3. CASE reading[x].phase # "none"
  <2> DEFINE m == MessageOf(x)
  <2>1. m \in Messages /\ m = log'[x[1]][x[2]] /\ x[2] <= Len(log'[x[1]])
    BY <1>3, OfReading
  <2>2. Descends(x)
    BY <1>1, <1>3 DEF ReadingInv
  <2>3. MessageOf(x)' = m
    BY <2>1 DEF MessageOf
  <2> HIDE DEF m
  <2>4. span'[m].phase # "none" /\ span'[m].kind = span[m].kind
    BY <2>1, <2>2 DEF KindsStay, Descends, m
  <2>5. Descends(x)'
    BY <1>3, <2>2, <2>3, <2>4 DEF Descends, m
  <2> QED BY <1>3, <2>1, <2>5 DEF ReadingInv
<1> QED BY <1>2, <1>3

\* Nothing more is missed.
LEMMA NoMoreMissed ==
    ASSUME SkipInv, Missed' \subseteq Missed, life \in Nat, life' \in Nat,
           life <= life'
    PROVE  SkipInv'
<1>1. IsFiniteSet(Missed') /\ Cardinality(Missed') <= Cardinality(Missed)
      /\ Cardinality(Missed) \in Nat /\ Cardinality(Missed') \in Nat
  BY FS_Subset, FS_CardinalityType DEF SkipInv
<1> QED BY <1>1 DEF SkipInv

\* The producer and the topic stay as they are.
LEMMA ProducerStays ==
    ASSUME PipeInv, UNCHANGED producerVars
    PROVE  IInv' /\ TopicInv' /\ KindsStay /\ LogGrows /\ ProducerTypeOK'
           /\ span' = span /\ log' = log /\ headers' = headers /\ brokerUp' = brokerUp
<1>1. IInv'
  BY NextInv DEF PipeInv
<1>2. TopicInv' /\ KindsStay /\ LogGrows
  BY ProducerKeepsTopic DEF PipeInv
<1> QED BY <1>1, <1>2 DEF IInv, producerVars, requestVars, brokerVars

-----------------------------------------------------------------------------
(* The steps. *)

\* A step of the producer, while the consumer does nothing.
LEMMA ProducerKeepsPipe ==
    ASSUME PipeInv, [ProducerNext]_producerVars, UNCHANGED consumerVars
    PROVE  PipeInv'
<1>1. IInv' /\ TopicInv' /\ KindsStay /\ LogGrows /\ ProducerTypeOK'
  BY NextInv, ProducerKeepsTopic DEF PipeInv, IInv
<1>2. UNCHANGED <<reading, consumerReady, consumer, run, position, committed, life>>
  BY DEF consumerVars
<1>3. ASSUME NEW x \in Readings PROVE ReadingInv(x)'
  <2>1. ReadingInv(x)
    BY DEF PipeInv
  <2> QED BY <1>1, <1>2, <2>1, ReadingKept DEF ReadingInv
<1>4. HoldInv'
  BY <1>2 DEF PipeInv, HoldInv
<1>5. Missed' \subseteq Missed
  BY <1>2 DEF Missed, Passed, Finished, InHand
<1>6. SkipInv'
  BY <1>2, <1>5, Types, NoMoreMissed DEF PipeInv
<1>7. ASSUME NEW p \in Partitions
      PROVE  position[p] \in 0 .. Len(log'[p]) /\ committed[p] \in 0 .. Len(log'[p])
  <2>1. Len(log[p]) <= Len(log'[p])
    BY <1>1 DEF LogGrows
  <2>2. Len(log'[p]) \in Nat /\ Len(log[p]) \in Nat
    BY <1>1, Types DEF ProducerTypeOK
  <2>3. position[p] \in 0 .. Len(log[p]) /\ committed[p] \in 0 .. Len(log[p])
    BY Types
  <2> QED BY <2>1, <2>2, <2>3
<1>8. Typed'
  BY <1>1, <1>2, <1>7 DEF PipeInv, Typed, TypeOK
<1> QED BY <1>1, <1>3, <1>4, <1>6, <1>8 DEF PipeInv

\* The consumer takes no record and starts or ends no life.
LEMMA ConsumerIdles ==
    ASSUME PipeInv, UNCHANGED <<producerVars, reading, position, committed, life>>,
           consumerReady' \in BOOLEAN, run' \in BOOLEAN,
           \/ consumer' = consumer
           \/ /\ consumer.pc \in {"loop", "waiting"}
              /\ \E pc \in {"loop", "waiting"} : consumer' = [consumer EXCEPT !.pc = pc]
    PROVE  PipeInv'
<1>1. IInv' /\ TopicInv' /\ KindsStay /\ LogGrows /\ ProducerTypeOK' /\ log' = log
  BY ProducerStays
<1>2. /\ consumer' \in [pc : {"off", "loop", "waiting", "consumed", "traced", "process",
                              "processed"}, at : Readings \cup {NoReading}]
      /\ consumer'.pc = "off" <=> consumer.pc = "off"
      /\ consumer' = consumer \/ (/\ consumer.pc \in {"loop", "waiting"}
                                  /\ consumer'.pc \in {"loop", "waiting"})
  BY DEF PipeInv, Typed, TypeOK
<1>3. ASSUME NEW x \in Readings PROVE ReadingInv(x)'
  <2>1. ReadingInv(x)
    BY DEF PipeInv
  <2> QED BY <1>1, <1>2, <2>1, ReadingKept DEF ReadingInv
<1>4. HoldInv'
  <2>1. HoldInv
    BY DEF PipeInv
  <2>2. CASE consumer' = consumer
    BY <2>1, <2>2 DEF HoldInv
  <2>3. CASE consumer'.pc \in {"loop", "waiting"}
    BY <2>3 DEF HoldInv
  <2> QED BY <2>2, <2>3, <1>2
<1>5. Missed' \subseteq Missed
  BY <1>2 DEF Missed, Passed, Finished, InHand
<1>6. SkipInv'
  BY <1>5, Types, NoMoreMissed DEF PipeInv
<1>7. Typed'
  BY <1>1, <1>2 DEF PipeInv, Typed, TypeOK
<1> QED BY <1>1, <1>3, <1>4, <1>6, <1>7 DEF PipeInv

\* The consumer starts over from the group's offsets.
LEMMA ConsumerStartsKeeps == ASSUME PipeInv, ConsumerStarts PROVE PipeInv'
<1>1. /\ consumer.pc = "off" /\ consumer' = [Off EXCEPT !.pc = "loop"] /\ run' = TRUE
      /\ position' = [p \in Partitions |-> committed[p]]
      /\ UNCHANGED <<producerVars, reading, consumerReady, committed, life>>
  BY DEF ConsumerStarts, StartOffset
<1>2. IInv' /\ TopicInv' /\ KindsStay /\ LogGrows /\ ProducerTypeOK' /\ log' = log
  BY <1>1, ProducerStays
<1>3. consumer' = [pc |-> "loop", at |-> NoReading]
  BY <1>1 DEF Off
<1>4. ASSUME NEW x \in Readings PROVE ReadingInv(x)'
  <2>1. ReadingInv(x)
    BY DEF PipeInv
  <2>2. reading[x].phase # "none" => x[3] <= life /\ x[3] # life
    BY <1>1, <2>1 DEF ReadingInv
  <2> QED BY <1>1, <1>2, <2>2, ReadingKept
<1>5. HoldInv'
  BY <1>3 DEF HoldInv
<1>6. Missed' \subseteq Missed
  <2> SUFFICES ASSUME NEW r \in Missed' PROVE r \in Missed
    OBVIOUS
  <2>1. r \in Slots /\ Passed(r)' /\ ~Finished(r[1], r[2])
    BY <1>1 DEF Missed, Finished, Slots
  <2>2. position'[r[1]] = committed[r[1]]
    BY <1>1, <2>1, SlotParts
  <2> QED BY <1>1, <2>1, <2>2 DEF Missed, Passed, InHand
<1>7. SkipInv'
  BY <1>1, <1>6, Types, NoMoreMissed DEF PipeInv
<1>8. Typed'
  <2>1. position' \in [Partitions -> Nat]
        /\ \A p \in Partitions : position'[p] \in 0 .. Len(log'[p])
                                 /\ committed[p] \in 0 .. Len(log'[p])
    BY <1>1, <1>2, Types
  <2>2. consumer' \in [pc : {"off", "loop", "waiting", "consumed", "traced", "process",
                             "processed"}, at : Readings \cup {NoReading}]
    BY <1>3
  <2> QED BY <1>1, <1>2, <2>1, <2>2 DEF PipeInv, Typed, TypeOK
<1> QED BY <1>2, <1>4, <1>5, <1>7, <1>8 DEF PipeInv

\* consume() returns the next record of p, for which there is no span yet.
LEMMA ConsumeKeeps ==
    ASSUME PipeInv, NEW p \in Partitions, Consume(p) PROVE PipeInv'
<1> DEFINE i == position[p] + 1
           x == <<p, i, life>>
<1>1. /\ consumer.pc = "waiting" /\ position[p] < Len(log[p])
      /\ position' = [position EXCEPT ![p] = i]
      /\ consumer' = [pc |-> "consumed", at |-> x]
      /\ UNCHANGED <<producerVars, reading, consumerReady, run, committed, life>>
  BY DEF Consume
<1>2. IInv' /\ TopicInv' /\ KindsStay /\ LogGrows /\ ProducerTypeOK' /\ log' = log
  BY <1>1, ProducerStays
<1>3. position[p] \in Nat /\ i \in Nat /\ i \in 0 .. Len(log[p])
      /\ i \in 1 .. Cardinality(Messages) + MaxResends /\ life \in 0 .. MaxStops
  <2> DEFINE n == Cardinality(Messages) + MaxResends
  <2>1. n \in Nat /\ Len(log[p]) <= n /\ Len(log[p]) \in Nat /\ position[p] \in Nat
        /\ life \in 0 .. MaxStops
    BY Types, ReadingParts
  <2> HIDE DEF n
  <2>2. i \in Nat /\ i \in 0 .. Len(log[p]) /\ i \in 1 .. n
    BY <2>1, <1>1
  <2> QED BY <2>1, <2>2 DEF n
<1>4. x \in Readings /\ x[1] = p /\ x[2] = i /\ x[3] = life
  BY <1>3, ReadingParts
<1>5. position' \in [Partitions -> Nat] /\ position'[p] = i
      /\ \A q \in Partitions : q # p => position'[q] = position[q]
  BY <1>1, <1>3, Types
<1>6. reading[x].phase = "none"
  <2>1. reading[x].phase # "none" => i <= position[p]
    BY <1>4 DEF PipeInv, ReadingInv
  <2> QED BY <2>1, <1>3
<1> HIDE DEF x
<1>7. ASSUME NEW y \in Readings PROVE ReadingInv(y)'
  <2>1. ReadingInv(y) /\ y[1] \in Partitions
    BY ReadingParts DEF PipeInv
  <2>2. ASSUME reading[y].phase # "none", y[3] = life
        PROVE  y[2] <= position'[y[1]]
    <3> DEFINE n == Cardinality(Messages) + MaxResends
    <3>1. y[2] <= position[y[1]]
      BY <2>1, <2>2 DEF ReadingInv
    <3>2. n \in Nat /\ y[2] \in 1 .. n
      BY ReadingParts
    <3> HIDE DEF n
    <3>3. y[2] \in Nat
      BY <3>2
    <3>4. CASE y[1] = p
      <4>1. y[2] <= i
        BY <3>1, <3>3, <3>4, <1>3
      <4> QED BY <4>1, <3>4, <1>5
    <3>5. CASE y[1] # p
      BY <2>1, <3>1, <3>5, <1>5
    <3> QED BY <3>4, <3>5
  <2>3. consumer'.pc # "off" /\ reading' = reading /\ life' = life
    BY <1>1
  <2> QED BY <1>2, <2>1, <2>2, <2>3, ReadingKept DEF ReadingInv
<1>8. HoldInv'
  <2>1. consumer'.pc = "consumed" /\ consumer'.at = x /\ life' = life
        /\ reading' = reading
    BY <1>1
  <2> QED BY <2>1, <1>4, <1>5, <1>6 DEF HoldInv
<1>9. Missed' \subseteq Missed
  <2> SUFFICES ASSUME NEW r \in Missed' PROVE r \in Missed
    OBVIOUS
  <2>1. r \in Slots /\ ~Finished(r[1], r[2]) /\ ~InHand(r)
        /\ Passed(r)' /\ ~InHand(r)'
    BY <1>1 DEF Missed, Finished, Slots, InHand
  <2>2. r # <<p, i>>
    BY <2>1, <1>1, <1>4 DEF InHand
  <2>3. r[1] \in Partitions /\ (r[1] # p \/ r[2] # i) /\ r[2] \in Nat
    <3> DEFINE n == Cardinality(Messages) + MaxResends
    <3>1. n \in Nat /\ r = <<r[1], r[2]>> /\ r[1] \in Partitions /\ r[2] \in 1 .. n
      BY <2>1, SlotParts, ReadingParts
    <3> HIDE DEF n, i
    <3>2. r[2] \in Nat
      BY <3>1
    <3> QED BY <3>1, <3>2, <2>2
  <2>4. r[2] <= position'[r[1]] => r[2] <= position[r[1]]
    <3>1. CASE r[1] = p
      <4>1. r[2] # i /\ position'[r[1]] = i /\ position[r[1]] = position[p]
        BY <2>3, <3>1, <1>5
      <4> QED BY <4>1, <2>3, <1>3
    <3>2. CASE r[1] # p
      BY <2>3, <3>2, <1>5
    <3> QED BY <3>1, <3>2
  <2>5. Passed(r)
    BY <1>1, <2>1, <2>4 DEF Passed
  <2> QED BY <2>1, <2>5 DEF Missed
<1>10. SkipInv'
  BY <1>1, <1>9, Types, NoMoreMissed DEF PipeInv
<1>11. Typed'
  <2>1. \A q \in Partitions : position'[q] \in 0 .. Len(log'[q])
                              /\ committed[q] \in 0 .. Len(log'[q])
    <3> TAKE q \in Partitions
    <3>1. CASE q = p
      BY <3>1, <1>2, <1>3, <1>5, Types
    <3>2. CASE q # p
      BY <3>2, <1>2, <1>5, Types
    <3> QED BY <3>1, <3>2
  <2>2. consumer'.pc = "consumed" /\ consumer'.at = x
        /\ consumer' \in [pc : {"off", "loop", "waiting", "consumed", "traced",
                                "process", "processed"}, at : Readings \cup {NoReading}]
    BY <1>1, <1>4
  <2> QED BY <1>1, <1>2, <1>5, <2>1, <2>2 DEF PipeInv, Typed, TypeOK
<1> QED BY <1>2, <1>7, <1>8, <1>10, <1>11 DEF PipeInv

\* NewSpan from the headers of the record continues the trace of its message.
LEMMA StartReadingKeeps == ASSUME PipeInv, StartReading PROVE PipeInv'
<1> DEFINE x == consumer.at
           m == MessageOf(x)
           c == headers[m]
<1>1. /\ consumer.pc = "consumed" /\ consumer' = [consumer EXCEPT !.pc = "traced"]
      /\ UNCHANGED <<producerVars, consumerReady, run, position, committed, life>>
  BY DEF StartReading
<1>2. PICK kind \in NewSpanKinds(consumerReady, c) :
        reading' = [reading EXCEPT ![x] = NewSpan(kind, c)]
  BY DEF StartReading, ReadContext
<1> DEFINE s == NewSpan(kind, c)
<1>3. IInv' /\ TopicInv' /\ KindsStay /\ LogGrows /\ ProducerTypeOK' /\ log' = log
      /\ span' = span
  BY <1>1, ProducerStays
<1>4. /\ x \in Readings /\ x[3] = life /\ x[2] = position[x[1]]
      /\ reading[x].phase = "none"
  BY <1>1 DEF PipeInv, HoldInv
<1>5. m \in Messages /\ m \in Written /\ x[2] <= Len(log[x[1]])
  <2> DEFINE n == Cardinality(Messages) + MaxResends
  <2>1. n \in Nat /\ x[1] \in Partitions /\ x[2] \in 1 .. n
    BY <1>4, ReadingParts
  <2>2. log[x[1]] \in Seq(Messages) /\ Len(log[x[1]]) \in Nat
        /\ position[x[1]] \in 0 .. Len(log[x[1]])
    BY <2>1, Types
  <2> HIDE DEF n, x
  <2>3. x[2] \in 1 .. Len(log[x[1]])
    BY <2>1, <2>2, <1>4 DEF x
  <2>4. log[x[1]][x[2]] \in Messages /\ log[x[1]][x[2]] \in Records(x[1])
    BY <2>2, <2>3 DEF Records
  <2> QED BY <2>1, <2>2, <2>3, <2>4 DEF MessageOf, Written
<1>6. queue[m] # "none" /\ span[m].phase # "none" /\ c = InjectContext(span[m], m)
      /\ span[m].kind \in Kinds /\ headers[m] \in Headers
  <2>1. MessageInv(m) /\ span[m] \in SpanRecords /\ headers[m] \in Headers
    BY <1>5 DEF PipeInv, IInv, ProducerTypeOK
  <2>2. queue[m] # "none"
    BY <2>1, <1>5 DEF MessageInv
  <2> QED BY <2>1, <2>2, <1>5
      DEF MessageInv, PipeInv, TopicInv, InjectedContext, SpanRecords, SpanType
<1> HIDE DEF m, c
<1>7. kind \in Kinds /\ c.from \in Spans \cup {NoSpan}
  <2>1. c \in Headers
    BY <1>6 DEF c
  <2> QED BY <2>1 DEF Headers, NewSpanKinds, Kinds, Spans
<1>8. s \in ReadingRecords /\ s.phase = "open" /\ s.stack = <<>>
  BY <1>7, NewSpanIsOpen DEF ReadingRecords
<1>9. kind # "noop" /\ span[m].kind # "noop" =>
        /\ kind = span[m].kind
        /\ s.parent = IF span[m].kind = "sampled" THEN m ELSE NoSpan
  <2>1. CASE span[m].kind = "unsampled"
    <3>1. c.kind = "unsampled"
      BY <2>1, <1>6 DEF InjectContext
    <3> QED BY <2>1, <3>1 DEF NewSpanKinds, NewSpan
  <2>2. CASE span[m].kind = "sampled"
    <3>1. c.kind = "sampled" /\ c.from = m
      BY <2>2, <1>6 DEF InjectContext
    <3> QED BY <2>2, <3>1 DEF NewSpanKinds, NewSpan
  <2> QED BY <2>1, <2>2, <1>6 DEF Kinds
<1>10. s.kind = kind
  BY DEF NewSpan
<1> HIDE DEF s
<1>11. /\ reading' = [reading EXCEPT ![x] = s]
       /\ reading' \in [Readings -> ReadingRecords]
       /\ reading'[x] = s
       /\ \A y \in Readings : y # x => reading'[y] = reading[y]
  BY <1>2, <1>4, <1>8, Types DEF s
<1>12. consumer' \in [pc : {"off", "loop", "waiting", "consumed", "traced", "process",
                            "processed"}, at : Readings \cup {NoReading}]
       /\ consumer'.pc = "traced" /\ consumer'.at = x
  BY <1>1 DEF PipeInv, Typed, TypeOK
<1> HIDE DEF x
<1>13. ASSUME NEW y \in Readings, y = x PROVE ReadingInv(y)'
  <2>1. MessageOf(y)' = m
    BY <1>3, <1>13 DEF MessageOf, m
  <2>2. Descends(y)'
    BY <2>1, <1>3, <1>6, <1>9, <1>10, <1>11, <1>13 DEF Descends
  <2>3. y[3] <= life' /\ life' = life /\ life \in Nat /\ y[2] <= position'[y[1]]
    <3>1. y[1] \in Partitions /\ life \in Nat /\ position[y[1]] \in Nat
      BY ReadingParts, Types
    <3> QED BY <3>1, <1>1, <1>4, <1>13
  <2> QED BY <2>2, <2>3, <1>3, <1>5, <1>8, <1>11, <1>12, <1>13 DEF ReadingInv
<1>14. ASSUME NEW y \in Readings PROVE ReadingInv(y)'
  <2>1. CASE y = x
    BY <2>1, <1>13
  <2>2. CASE y # x
    <3>1. ReadingInv(y) /\ reading'[y] = reading[y]
      BY <2>2, <1>11 DEF PipeInv
    <3>2. life' = life /\ position' = position /\ consumer'.pc # "off"
      BY <1>1, <1>12
    <3> QED BY <3>1, <3>2, <1>3, ReadingKept DEF ReadingInv
  <2> QED BY <2>1, <2>2
<1>15. HoldInv'
  BY <1>1, <1>4, <1>8, <1>11, <1>12 DEF HoldInv
<1>16. Missed' \subseteq Missed
  <2> SUFFICES ASSUME NEW r \in Missed' PROVE r \in Missed
    OBVIOUS
  <2>1. r \in Slots /\ ~Finished(r[1], r[2])' /\ Passed(r) /\ ~InHand(r)'
    BY <1>1 DEF Missed, Slots, Passed
  <2>2. ~InHand(r)
    BY <2>1, <1>12 DEF InHand, x
  <2>3. ~Finished(r[1], r[2])
    <3> SUFFICES ASSUME NEW n \in 0 .. MaxStops,
                        reading[<<r[1], r[2], n>>].phase = "ended"
                 PROVE  FALSE
      BY DEF Finished
    <3>1. <<r[1], r[2], n>> \in Readings
      BY <2>1, SlotParts, ReadingParts
    <3>2. reading'[<<r[1], r[2], n>>].phase = "ended"
      BY <3>1, <1>4, <1>11
    <3> QED BY <3>2, <2>1 DEF Finished
  <2> QED BY <2>1, <2>2, <2>3 DEF Missed
<1>17. SkipInv'
  BY <1>1, <1>16, Types, NoMoreMissed DEF PipeInv
<1>18. Typed'
  BY <1>1, <1>3, <1>11, <1>12 DEF PipeInv, Typed, TypeOK, ReadingRecords
<1> QED BY <1>3, <1>14, <1>15, <1>17, <1>18 DEF PipeInv

\* The span of the record in hand goes on: its event opens or ends, or it ends.
LEMMA HeldMoves ==
    ASSUME PipeInv,
           UNCHANGED <<producerVars, consumerReady, run, position, committed, life>>,
           consumer.pc \in {"traced", "process", "processed"},
           NEW s \in ReadingRecords, s.phase # "none",
           s.kind = reading[consumer.at].kind, s.parent = reading[consumer.at].parent,
           reading' = [reading EXCEPT ![consumer.at] = s],
           NEW pc \in {"loop", "process", "processed"},
           NEW at \in Readings \cup {NoReading},
           consumer' = [consumer EXCEPT !.pc = pc, !.at = at],
           pc = "loop" => s.phase = "ended",
           pc # "loop" =>
              /\ at = consumer.at /\ s.phase = "open"
              /\ s.stack = IF pc = "process" THEN <<ProcessEvent>> ELSE <<>>
    PROVE  PipeInv'
<1>1. IInv' /\ TopicInv' /\ KindsStay /\ LogGrows /\ ProducerTypeOK' /\ log' = log
  BY ProducerStays
<1>2. PICK x \in Readings :
        /\ x = consumer.at /\ x[3] = life /\ x[2] = position[x[1]]
        /\ reading[x].phase = "open"
  BY DEF PipeInv, HoldInv
<1>3. /\ reading' \in [Readings -> ReadingRecords] /\ reading'[x] = s
      /\ \A y \in Readings : y # x => reading'[y] = reading[y]
  BY <1>2, Types
<1>4. consumer'.pc = pc /\ consumer'.at = at
      /\ consumer' \in [pc : {"off", "loop", "waiting", "consumed", "traced", "process",
                              "processed"}, at : Readings \cup {NoReading}]
  BY DEF PipeInv, Typed, TypeOK
<1>5. ASSUME NEW y \in Readings PROVE ReadingInv(y)'
  <2>1. ReadingInv(y)
    BY DEF PipeInv
  <2>2. /\ reading[y].phase = "none" => reading'[y] = reading[y]
        /\ reading[y].phase # "none" =>
              /\ reading'[y].phase # "none"
              /\ reading'[y].kind = reading[y].kind
              /\ reading'[y].parent = reading[y].parent
    BY <1>2, <1>3
  <2>3. life' = life /\ position' = position /\ consumer'.pc # "off"
    BY <1>4
  <2> QED BY <2>1, <2>2, <2>3, <1>1, ReadingKept DEF ReadingInv
<1>6. HoldInv'
  BY <1>2, <1>3, <1>4 DEF HoldInv
<1>7. Missed' \subseteq Missed
  <2> SUFFICES ASSUME NEW r \in Missed' PROVE r \in Missed
    OBVIOUS
  <2>1. r \in Slots /\ ~Finished(r[1], r[2])' /\ Passed(r) /\ ~InHand(r)'
    BY DEF Missed, Slots, Passed
  <2>2. x = <<x[1], x[2], x[3]>> /\ x[3] \in 0 .. MaxStops
    BY ReadingParts
  <2>3. ~InHand(r)
    <3>1. CASE pc # "loop"
      BY <3>1, <2>1, <1>4 DEF InHand
    <3>2. CASE pc = "loop"
      <4>1. reading'[<<x[1], x[2], x[3]>>].phase = "ended"
        BY <3>2, <2>2, <1>3
      <4>2. r # <<x[1], x[2]>>
        BY <4>1, <2>1, <2>2 DEF Finished
      <4> QED BY <4>2, <1>2 DEF InHand
    <3> QED BY <3>1, <3>2
  <2>4. ~Finished(r[1], r[2])
    <3> SUFFICES ASSUME NEW n \in 0 .. MaxStops,
                        reading[<<r[1], r[2], n>>].phase = "ended"
                 PROVE  FALSE
      BY DEF Finished
    <3>1. <<r[1], r[2], n>> \in Readings
      BY <2>1, SlotParts, ReadingParts
    <3>2. reading'[<<r[1], r[2], n>>].phase = "ended"
      BY <3>1, <1>2, <1>3
    <3> QED BY <3>2, <2>1 DEF Finished
  <2> QED BY <2>1, <2>3, <2>4 DEF Missed
<1>8. SkipInv'
  BY <1>7, Types, NoMoreMissed DEF PipeInv
<1>9. Typed'
  BY <1>1, <1>3, <1>4 DEF PipeInv, Typed, TypeOK, ReadingRecords
<1> QED BY <1>1, <1>5, <1>6, <1>8, <1>9 DEF PipeInv

\* What the consumer's span is while it is processed.
LEMMA InProcess ==
    ASSUME PipeInv, consumer.pc \in {"traced", "process", "processed"}
    PROVE  /\ consumer.at \in Readings
           /\ reading[consumer.at] \in ReadingRecords
           /\ reading[consumer.at].phase = "open"
           /\ reading[consumer.at].stack = IF consumer.pc = "process"
                                           THEN <<ProcessEvent>> ELSE <<>>
           /\ consumer = [pc |-> consumer.pc, at |-> consumer.at]
           /\ ProcessEvent \in Events
<1>1. consumer = [pc |-> consumer.pc, at |-> consumer.at]
  BY DEF PipeInv, Typed, TypeOK
<1> QED BY <1>1, Types DEF PipeInv, HoldInv, Events

\* The scoped event opens.
LEMMA BeginProcessKeeps == ASSUME PipeInv, BeginProcess PROVE PipeInv'
<1> DEFINE x == consumer.at
           s == NewSpanEvent(reading[x], ProcessEvent)
<1>1. /\ consumer.pc = "traced" /\ consumer' = [consumer EXCEPT !.pc = "process"]
      /\ reading' = [reading EXCEPT ![x] = s]
      /\ UNCHANGED <<producerVars, consumerReady, run, position, committed, life>>
  BY DEF BeginProcess
<1>2. x \in Readings /\ reading[x] \in ReadingRecords /\ reading[x].phase = "open"
      /\ reading[x].stack = <<>> /\ ProcessEvent \in Events
      /\ consumer = [pc |-> consumer.pc, at |-> x]
  BY <1>1, InProcess
<1>3. s \in ReadingRecords
  BY <1>2, ApiTypes DEF ReadingRecords
<1>4. s.phase = "open" /\ s.stack = <<ProcessEvent>> /\ s.kind = reading[x].kind
      /\ s.parent = reading[x].parent
  BY <1>2, ShortStacks DEF NewSpanEvent, ReadingRecords, SpanType
<1>5. consumer' = [consumer EXCEPT !.pc = "process", !.at = x]
  BY <1>1, <1>2
<1> HIDE DEF s
<1> QED BY <1>1, <1>2, <1>3, <1>4, <1>5, HeldMoves

\* It ends.
LEMMA FinishProcessKeeps == ASSUME PipeInv, FinishProcess PROVE PipeInv'
<1> DEFINE x == consumer.at
           s == EndProcess(reading[x])
<1>1. /\ consumer.pc = "process" /\ consumer' = [consumer EXCEPT !.pc = "processed"]
      /\ reading' = [reading EXCEPT ![x] = s]
      /\ UNCHANGED <<producerVars, consumerReady, run, position, committed, life>>
  BY DEF FinishProcess
<1>2. x \in Readings /\ reading[x] \in ReadingRecords /\ reading[x].phase = "open"
      /\ reading[x].stack = <<ProcessEvent>> /\ ProcessEvent \in Events
      /\ consumer = [pc |-> consumer.pc, at |-> x]
  BY <1>1, InProcess
<1>3. s \in ReadingRecords
  BY <1>2, ApiTypes DEF ReadingRecords, EndProcess
<1>4. s.phase = "open" /\ s.stack = <<>> /\ s.kind = reading[x].kind
      /\ s.parent = reading[x].parent
  BY <1>2, ShortStacks DEF EndProcess, EndEvent, ReadingRecords, SpanType
<1>5. consumer' = [consumer EXCEPT !.pc = "processed", !.at = x]
  BY <1>1, <1>2
<1> HIDE DEF s
<1> QED BY <1>1, <1>2, <1>3, <1>4, <1>5, HeldMoves

\* The span ends, and the loop goes on.
LEMMA EndReadingKeeps == ASSUME PipeInv, EndReading PROVE PipeInv'
<1> DEFINE x == consumer.at
           s == EndSpan(reading[x], FALSE)
<1>1. /\ consumer.pc = "processed"
      /\ consumer' = [consumer EXCEPT !.pc = "loop", !.at = NoReading]
      /\ reading' = [reading EXCEPT ![x] = s]
      /\ UNCHANGED <<producerVars, consumerReady, run, position, committed, life>>
  BY DEF EndReading
<1>2. x \in Readings /\ reading[x] \in ReadingRecords /\ ProcessEvent \in Events
  BY <1>1, InProcess
<1>3. s \in ReadingRecords
  BY <1>2, ApiTypes DEF ReadingRecords
<1>4. s.phase = "ended" /\ s.kind = reading[x].kind /\ s.parent = reading[x].parent
  BY <1>2 DEF EndSpan, ReadingRecords, SpanType
<1> HIDE DEF s
<1> QED BY <1>1, <1>2, <1>3, <1>4, HeldMoves

\* A life ends.
LEMMA LifeEnds ==
    ASSUME PipeInv, UNCHANGED <<producerVars, run, position>>,
           life < MaxStops, life' = life + 1, consumer' = Off, consumerReady' = FALSE,
           \/ reading' = reading
           \/ reading' = [x \in Readings |-> Lose(reading[x])],
           committed' = position \/ committed' = committed
    PROVE  PipeInv'
<1>1. IInv' /\ TopicInv' /\ KindsStay /\ LogGrows /\ ProducerTypeOK' /\ log' = log
  BY ProducerStays
<1>2. ASSUME NEW x \in Readings
      PROVE  /\ reading'[x] \in ReadingRecords
             /\ reading[x].phase = "none" => reading'[x] = reading[x]
             /\ reading[x].phase # "none" => reading'[x].phase # "none"
             /\ reading[x].phase = "ended" => reading'[x].phase = "ended"
             /\ reading'[x].kind = reading[x].kind
             /\ reading'[x].parent = reading[x].parent
  <2>1. reading[x] \in ReadingRecords
    BY Types
  <2>2. CASE reading' = reading
    BY <2>1, <2>2
  <2>3. CASE reading' = [y \in Readings |-> Lose(reading[y])]
    <3>1. reading'[x] = Lose(reading[x])
      BY <2>3
    <3> QED BY <2>1, <3>1 DEF Lose, ReadingRecords, SpanType, Phases
  <2> QED BY <2>2, <2>3
<1>3. life \in Nat /\ life' \in 0 .. MaxStops
  <2>1. life \in 0 .. MaxStops /\ MaxStops \in Nat
    BY Types, ReadingParts
  <2> QED BY <2>1
<1>4. ASSUME NEW x \in Readings PROVE ReadingInv(x)'
  <2>1. reading[x].phase # "none" => x[3] <= life /\ x[3] \in Nat
    <3>1. ReadingInv(x) /\ x[3] \in 0 .. MaxStops /\ MaxStops \in Nat
      BY ReadingParts DEF PipeInv
    <3> QED BY <3>1 DEF ReadingInv
  <2>2. reading[x].phase # "none" => x[3] <= life' /\ x[3] # life'
    BY <2>1, <1>3
  <2> QED BY <1>1, <1>2, <2>2, ReadingKept
<1>5. HoldInv'
  BY DEF HoldInv, Off
<1>6. ASSUME NEW r \in Missed'
      PROVE  r \in Missed \/ r = <<consumer.at[1], consumer.at[2]>>
  <2>1. r \in Slots /\ ~Finished(r[1], r[2])' /\ Passed(r)'
    BY <1>6 DEF Missed, Slots
  <2>2. Passed(r)
    BY <2>1 DEF Passed
  <2>3. ~Finished(r[1], r[2])
    <3> SUFFICES ASSUME NEW n \in 0 .. MaxStops,
                        reading[<<r[1], r[2], n>>].phase = "ended"
                 PROVE  FALSE
      BY DEF Finished
    <3>1. <<r[1], r[2], n>> \in Readings
      BY <2>1, SlotParts, ReadingParts
    <3>2. reading'[<<r[1], r[2], n>>].phase = "ended"
      BY <3>1, <1>2
    <3> QED BY <3>2, <2>1 DEF Finished
  <2> QED BY <2>1, <2>2, <2>3 DEF Missed, InHand
<1>7. SkipInv'
  <2> DEFINE h == <<consumer.at[1], consumer.at[2]>>
             M == Missed \cup {h}
  <2>1. IsFiniteSet(Missed) /\ Cardinality(Missed) <= life /\ Cardinality(Missed) \in Nat
    BY FS_CardinalityType DEF PipeInv, SkipInv
  <2>2. IsFiniteSet(M) /\ Cardinality(M) <= Cardinality(Missed) + 1
        /\ Cardinality(M) \in Nat
    <3>1. IsFiniteSet(M) /\ Cardinality(M) = IF h \in Missed THEN Cardinality(Missed)
                                             ELSE Cardinality(Missed) + 1
      BY <2>1, FS_AddElement
    <3> QED BY <2>1, <3>1
  <2>3. Missed' \subseteq M
    BY <1>6
  <2> HIDE DEF M
  <2>4. IsFiniteSet(Missed') /\ Cardinality(Missed') <= Cardinality(M)
        /\ Cardinality(Missed') \in Nat
    BY <2>2, <2>3, FS_Subset, FS_CardinalityType
  <2> QED BY <2>1, <2>2, <2>4, <1>3 DEF SkipInv
<1>8. Typed'
  <2>1. consumer' \in [pc : {"off", "loop", "waiting", "consumed", "traced", "process",
                             "processed"}, at : Readings \cup {NoReading}]
    BY DEF Off
  <2>2. reading' \in [Readings -> ReadingRecords]
    <3>1. CASE reading' = reading
      BY <3>1, Types
    <3>2. CASE reading' = [x \in Readings |-> Lose(reading[x])]
      BY <3>2, <1>2
    <3> QED BY <3>1, <3>2
  <2>3. committed' \in [Partitions -> Nat] /\ position' \in [Partitions -> Nat]
        /\ \A p \in Partitions : committed'[p] \in 0 .. Len(log'[p])
                                 /\ position'[p] \in 0 .. Len(log'[p])
    BY <1>1, Types
  <2> QED BY <1>1, <1>3, <2>1, <2>2, <2>3
      DEF PipeInv, Typed, TypeOK, ReadingRecords
<1> QED BY <1>1, <1>4, <1>5, <1>7, <1>8 DEF PipeInv

\* Offsets are committed in the background.
LEMMA AutoCommitKeeps == ASSUME PipeInv, AutoCommit PROVE PipeInv'
<1>1. /\ committed' = position
      /\ UNCHANGED <<producerVars, reading, consumerReady, consumer, run, position, life>>
  BY DEF AutoCommit
<1>2. IInv' /\ TopicInv' /\ KindsStay /\ LogGrows /\ ProducerTypeOK' /\ log' = log
  BY <1>1, ProducerStays
<1>3. ASSUME NEW x \in Readings PROVE ReadingInv(x)'
  <2>1. ReadingInv(x)
    BY DEF PipeInv
  <2> QED BY <1>1, <1>2, <2>1, ReadingKept DEF ReadingInv
<1>4. HoldInv'
  BY <1>1 DEF PipeInv, HoldInv
<1>5. Missed' \subseteq Missed
  BY <1>1 DEF Missed, Passed, Finished, InHand, Slots
<1>6. SkipInv'
  BY <1>1, <1>5, Types, NoMoreMissed DEF PipeInv
<1>7. Typed'
  <2>1. \A p \in Partitions : position[p] \in 0 .. Len(log[p])
    BY Types
  <2> QED BY <1>1, <1>2, <2>1, Types DEF PipeInv, Typed, TypeOK
<1> QED BY <1>2, <1>3, <1>4, <1>6, <1>7 DEF PipeInv

-----------------------------------------------------------------------------
(* The invariant. *)

\* Nothing was produced or consumed.
LEMMA InitPipe == ASSUME Init PROVE PipeInv
<1>1. /\ ProducerInit /\ consumerReady = FALSE /\ run = TRUE /\ life = 0
      /\ reading = [x \in Readings |-> Unborn] /\ consumer = Off
      /\ position = [p \in Partitions |-> 0] /\ committed = [p \in Partitions |-> 0]
  BY DEF Init
<1>2. IInv
  BY <1>1, InitInv
<1>3. TopicInv
  <2>1. \A p \in Partitions : Len(log[p]) = 0
    BY <1>1 DEF ProducerInit
  <2>2. resends = 0
    BY <1>1 DEF ProducerInit
  <2>3. 0 <= Cardinality(Settled) + 0
    BY FewSettled
  <2> QED BY <1>1, <2>1, <2>2, <2>3 DEF TopicInv, ProducerInit, IdleWorker
<1>4. Typed
  <2>1. Unborn \in ReadingRecords
    BY DEF Unborn, ReadingRecords, SpanType, Phases, Kinds
  <2>2. \A p \in Partitions : 0 \in 0 .. Len(log[p])
    BY <1>1 DEF ProducerInit
  <2>3. 0 \in 0 .. MaxStops
    BY ReadingParts
  <2>4. consumer \in [pc : {"off", "loop", "waiting", "consumed", "traced", "process",
                            "processed"}, at : Readings \cup {NoReading}]
    BY <1>1 DEF Off
  <2>5. reading \in [Readings -> SpanType(Spans, Events)]
    BY <1>1, <2>1 DEF ReadingRecords
  <2> QED BY <1>1, <1>2, <2>2, <2>3, <2>4, <2>5 DEF Typed, TypeOK, IInv
<1>5. \A x \in Readings : ReadingInv(x)
  BY <1>1 DEF ReadingInv, Unborn
<1>6. HoldInv
  BY <1>1 DEF HoldInv, Off
<1>7. SkipInv
  <2>1. Missed = {}
    <3> SUFFICES ASSUME NEW r \in Missed PROVE FALSE
      OBVIOUS
    <3> DEFINE n == Cardinality(Messages) + MaxResends
    <3>1. n \in Nat /\ r[1] \in Partitions /\ r[2] \in 1 .. n /\ Passed(r)
      BY SlotParts, ReadingParts DEF Missed
    <3> HIDE DEF n
    <3>2. r[2] <= 0
      BY <1>1, <3>1 DEF Passed
    <3> QED BY <3>1, <3>2
  <2> QED BY <1>1, <2>1, FS_EmptySet DEF SkipInv
<1> QED BY <1>2, <1>3, <1>4, <1>5, <1>6, <1>7 DEF PipeInv

\* Every step keeps the invariant.
LEMMA NextPipe == ASSUME PipeInv, [Next]_vars PROVE PipeInv'
<1>1. CASE [ProducerNext]_producerVars /\ UNCHANGED consumerVars
  BY <1>1, ProducerKeepsPipe
<1>2. CASE UNCHANGED vars
  BY <1>2, ProducerKeepsPipe DEF vars
<1>3. ASSUME ConsumerRegisters \/ Sigterm PROVE PipeInv'
  BY <1>3, ConsumerIdles DEF ConsumerRegisters, Sigterm, PipeInv, Typed, TypeOK
<1>4. ASSUME LoopTurns \/ ConsumeFails PROVE PipeInv'
  BY <1>4, ConsumerIdles DEF LoopTurns, ConsumeFails, PipeInv, Typed, TypeOK
<1>5. ASSUME LoopExits PROVE PipeInv'
  BY <1>5, LifeEnds DEF LoopExits
<1>6. ASSUME ConsumerCrashes PROVE PipeInv'
  BY <1>6, LifeEnds DEF ConsumerCrashes
<1> QED BY <1>1, <1>2, <1>3, <1>4, <1>5, <1>6, ConsumerStartsKeeps, ConsumeKeeps,
           StartReadingKeeps, BeginProcessKeeps, FinishProcessKeeps, EndReadingKeeps,
           AutoCommitKeeps
        DEF Next, ConsumerLoop

\* PipeInv holds throughout.
THEOREM PipeInvariance == Spec => []PipeInv
BY InitPipe, NextPipe, PTL DEF Spec

\* Every variable keeps its type (kafka_consumer.cpp and the producer it reads).
THEOREM PipeTypeCorrect == Spec => []TypeOK
<1>1. PipeInv => TypeOK
  BY DEF PipeInv, Typed
<1> QED BY <1>1, PipeInvariance, PTL

\* The trace context crosses the topic: every reading of a record, first, repeated
\* or of a duplicate, continues the trace of the request that brought its message.
THEOREM TraceCrossesTheTopic == Spec => []ReadingsDescend
<1>1. PipeInv => ReadingsDescend
  BY DEF PipeInv, ReadingInv, Descends, ReadingsDescend
<1> QED BY <1>1, PipeInvariance, PTL

\* Missed, with the record in hand if there is one.
LEMMA MissedOrInHand ==
    ASSUME PipeInv, NEW held \in BOOLEAN, NEW S,
           S \subseteq IF held THEN Missed \cup {<<consumer.at[1], consumer.at[2]>>}
                      ELSE Missed
    PROVE  Cardinality(S) <= life + (IF held THEN 1 ELSE 0)
<1> DEFINE h == <<consumer.at[1], consumer.at[2]>>
           M == IF held THEN Missed \cup {h} ELSE Missed
           bound == life + (IF held THEN 1 ELSE 0)
<1>1. IsFiniteSet(Missed) /\ Cardinality(Missed) <= life
      /\ Cardinality(Missed) \in Nat /\ life \in Nat
  BY Types, FS_CardinalityType DEF PipeInv, SkipInv
<1>2. IsFiniteSet(M) /\ Cardinality(M) <= bound /\ Cardinality(M) \in Nat
      /\ bound \in Nat
  <2>1. CASE held
    <3>1. IsFiniteSet(Missed \cup {h})
          /\ Cardinality(Missed \cup {h}) = IF h \in Missed THEN Cardinality(Missed)
                                            ELSE Cardinality(Missed) + 1
      BY <1>1, FS_AddElement
    <3> QED BY <1>1, <2>1, <3>1
  <2>2. CASE ~held
    BY <1>1, <2>2
  <2> QED BY <2>1, <2>2
<1>3. S \subseteq M
  OBVIOUS
<1> HIDE DEF M, bound
<1>4. Cardinality(S) <= Cardinality(M) /\ Cardinality(S) \in Nat
  BY <1>2, <1>3, FS_Subset, FS_CardinalityType
<1> QED BY <1>2, <1>4 DEF bound

\* With the offset stored before the span starts (kafka_consumer.cpp), each stop of
\* the consumer makes the group pass at most one record that no span is for.
THEOREM AtMostOneSkipPerStop == Spec => []OneSkipPerStop
<1>1. ASSUME PipeInv PROVE OneSkipPerStop
  <2> DEFINE held == consumer.pc = "consumed"
  <2>1. ASSUME NEW r \in Skipped
        PROVE  r \in Missed \/ (held /\ r = <<consumer.at[1], consumer.at[2]>>)
    <3>1. r \in Slots /\ Passed(r) /\ ~Started(r[1], r[2])
      BY <2>1 DEF Skipped, Slots, Passed
    <3>2. ~Finished(r[1], r[2])
      BY <3>1 DEF Started, Finished
    <3>3. InHand(r) => held
      <4> SUFFICES ASSUME InHand(r), ~held PROVE FALSE
        OBVIOUS
      <4> DEFINE x == consumer.at
      <4>1. x \in Readings /\ reading[x].phase = "open"
        BY <1>1 DEF PipeInv, HoldInv, InHand
      <4>2. x = <<r[1], r[2], x[3]>> /\ x[3] \in 0 .. MaxStops
        BY <4>1, ReadingParts DEF InHand
      <4>3. reading[<<r[1], r[2], x[3]>>].phase # "none"
        BY <4>1, <4>2
      <4> QED BY <4>2, <4>3, <3>1 DEF Started
    <3> QED BY <3>1, <3>2, <3>3 DEF Missed, InHand
  <2>2. Skipped \subseteq IF held THEN Missed \cup {<<consumer.at[1], consumer.at[2]>>}
                         ELSE Missed
    BY <2>1
  <2>3. held \in BOOLEAN
    OBVIOUS
  <2> HIDE DEF held
  <2>4. Cardinality(Skipped) <= life + (IF held THEN 1 ELSE 0)
    BY <1>1, <2>2, <2>3, MissedOrInHand
  <2> QED BY <2>4 DEF OneSkipPerStop, held
<1> QED BY <1>1, PipeInvariance, PTL

\* However far the commits of librdkafka run ahead of the loop (kafka_consumer.cpp),
\* each stop costs at most one record the end of its span.
THEOREM AtMostOneLossPerStop == Spec => []OneLossPerStop
<1>1. ASSUME PipeInv PROVE OneLossPerStop
  <2> DEFINE held == consumer.pc \notin {"off", "loop", "waiting"}
  <2>1. Unfinished \subseteq IF held
                            THEN Missed \cup {<<consumer.at[1], consumer.at[2]>>}
                            ELSE Missed
    BY DEF Unfinished, Missed, Slots, Passed, InHand
  <2>2. held \in BOOLEAN
    OBVIOUS
  <2> HIDE DEF held
  <2>3. Cardinality(Unfinished) <= life + (IF held THEN 1 ELSE 0)
    BY <1>1, <2>1, <2>2, MissedOrInHand
  <2> QED BY <2>3 DEF OneLossPerStop, held
<1> QED BY <1>1, PipeInvariance, PTL

-----------------------------------------------------------------------------
(* The order of the readings. *)

Places == 1 .. Cardinality(Messages) + MaxResends
Begun(p, i, n) == reading[<<p, i, n>>].phase # "none"
Ended(p, i, n) == reading[<<p, i, n>>].phase = "ended"

\* TracedInOrder, and of this life: from the first record it has traced up to its
\* position, the consumer has traced each to the end, but for the one in hand.
OrderInv ==
    /\ TracedInOrder
    /\ \A p \in Partitions : \A i, j \in Places :
          Begun(p, i, life) /\ i <= j /\ j <= position[p]
          => Ended(p, j, life) \/ InHand(<<p, j>>)

\* Nothing begins, and what has ended stays so.
NothingBegins == \A x \in Readings :
    /\ reading'[x].phase # "none" => reading[x].phase # "none"
    /\ reading[x].phase = "ended" => reading'[x].phase = "ended"

\* A place in a partition, in a life, is a reading.
LEMMA PlaceIsReading ==
    ASSUME NEW p \in Partitions, NEW i \in Places, NEW n \in 0 .. MaxStops
    PROVE  <<p, i, n>> \in Readings
BY ReadingParts DEF Places

\* Places are counted from 1.
LEMMA PlacesAreNat == \A i \in Places : i \in Nat /\ i >= 1
<1> DEFINE c == Cardinality(Messages) + MaxResends
<1>1. c \in Nat /\ Places = 1 .. c
  BY ReadingParts DEF Places
<1> HIDE DEF c
<1> QED BY <1>1

\* Such a step keeps the order of what was traced.
LEMMA OrderStays == ASSUME TracedInOrder, NothingBegins PROVE TracedInOrder'
<1> SUFFICES ASSUME NEW p \in Partitions, NEW n \in 0 .. MaxStops,
                    NEW i \in Places, NEW j \in Places, NEW k \in Places,
                    i <= j, j < k, Begun(p, i, n)', Begun(p, k, n)'
             PROVE  Ended(p, j, n)'
  BY DEF TracedInOrder, Places, Begun, Ended
<1>1. <<p, i, n>> \in Readings /\ <<p, j, n>> \in Readings /\ <<p, k, n>> \in Readings
  BY PlaceIsReading
<1>2. Begun(p, i, n) /\ Begun(p, k, n)
  BY <1>1 DEF NothingBegins, Begun
<1>3. Ended(p, j, n)
  BY <1>2 DEF TracedInOrder, Places, Begun, Ended
<1> QED BY <1>1, <1>3 DEF NothingBegins, Ended

\* In this life no record after the position was begun; while the consumer is off,
\* none at all.
LEMMA BegunBefore ==
    ASSUME PipeInv, NEW p \in Partitions, NEW i \in Places, NEW n \in 0 .. MaxStops,
           Begun(p, i, n)
    PROVE  n <= life /\ (n = life => consumer.pc # "off" /\ i <= position[p])
<1> DEFINE x == <<p, i, n>>
<1>1. x \in Readings /\ x[1] = p /\ x[2] = i /\ x[3] = n
  BY PlaceIsReading
<1>2. ReadingInv(x) /\ reading[x].phase # "none"
  BY <1>1 DEF PipeInv, Begun
<1> HIDE DEF x
<1> QED BY <1>1, <1>2 DEF ReadingInv

\* A step in which nothing begins or is taken, and the record in hand stays in hand
\* until its span has ended.
LEMMA QuietOrder ==
    ASSUME PipeInv, OrderInv, NothingBegins, UNCHANGED <<position, life>>,
           \A p \in Partitions : \A j \in Places :
              InHand(<<p, j>>) => InHand(<<p, j>>)' \/ Ended(p, j, life)'
    PROVE  OrderInv'
<1>1. TracedInOrder'
  BY OrderStays DEF OrderInv
<1>2. ASSUME NEW p \in Partitions, NEW i \in Places, NEW j \in Places,
             Begun(p, i, life)', i <= j, j <= position[p]
      PROVE  Ended(p, j, life)' \/ InHand(<<p, j>>)'
  <2>1. life \in 0 .. MaxStops /\ life' = life
    BY Types
  <2>2. <<p, i, life>> \in Readings /\ <<p, j, life>> \in Readings
    BY <2>1, PlaceIsReading
  <2>3. Begun(p, i, life)
    BY <1>2, <2>1, <2>2 DEF NothingBegins, Begun
  <2>4. Ended(p, j, life) \/ InHand(<<p, j>>)
    BY <1>2, <2>3 DEF OrderInv
  <2>5. Ended(p, j, life) => Ended(p, j, life)'
    BY <2>1, <2>2 DEF NothingBegins, Ended
  <2> QED BY <2>4, <2>5
<1> QED BY <1>1, <1>2 DEF OrderInv

\* Nobody touches a reading, or the consumer while it has a record in hand.
LEMMA IdleOrder ==
    ASSUME PipeInv, OrderInv, UNCHANGED <<reading, position, life>>,
           consumer' = consumer \/ consumer.pc \in {"off", "loop", "waiting"}
    PROVE  OrderInv'
<1>1. NothingBegins
  BY DEF NothingBegins
<1>2. \A r : InHand(r) => InHand(r)'
  BY DEF InHand
<1> QED BY <1>1, <1>2, QuietOrder

\* The span of the record in hand goes on or ends.
LEMMA HeldOrder ==
    ASSUME PipeInv, OrderInv, UNCHANGED <<position, life>>,
           consumer.pc \in {"traced", "process", "processed"},
           NEW s, reading' = [reading EXCEPT ![consumer.at] = s],
           \/ s.phase = "ended"
           \/ consumer'.at = consumer.at /\ consumer'.pc \in {"process", "processed"}
    PROVE  OrderInv'
<1> DEFINE x == consumer.at
<1>1. x \in Readings /\ x = <<x[1], x[2], life>> /\ reading[x].phase = "open"
  BY ReadingParts DEF PipeInv, HoldInv
<1>2. /\ reading'[x] = s
      /\ \A y \in Readings : y # x => reading'[y] = reading[y]
  BY <1>1, Types
<1>3. NothingBegins
  BY <1>1, <1>2 DEF NothingBegins
<1>4. ASSUME NEW p \in Partitions, NEW j \in Places, InHand(<<p, j>>)
      PROVE  InHand(<<p, j>>)' \/ Ended(p, j, life)'
  <2>1. p = x[1] /\ j = x[2]
    BY <1>4 DEF InHand
  <2>2. CASE s.phase = "ended"
    <3>1. reading'[<<p, j, life>>].phase = "ended"
      BY <2>1, <2>2, <1>1, <1>2
    <3> QED BY <3>1 DEF Ended
  <2>3. CASE consumer'.at = x /\ consumer'.pc \in {"process", "processed"}
    BY <2>1, <2>3 DEF InHand
  <2> QED BY <2>2, <2>3
<1> QED BY <1>3, <1>4, QuietOrder

\* consume() returns the next record of p.
LEMMA ConsumeOrder ==
    ASSUME PipeInv, OrderInv, NEW p \in Partitions, Consume(p) PROVE OrderInv'
<1>1. /\ consumer.pc = "waiting" /\ consumer'.pc = "consumed"
      /\ consumer'.at = <<p, position[p] + 1, life>>
      /\ position' = [position EXCEPT ![p] = @ + 1]
      /\ reading' = reading /\ life' = life
  BY DEF Consume
<1>2. TracedInOrder'
  BY <1>1, OrderStays DEF OrderInv, NothingBegins
<1>3. ASSUME NEW q \in Partitions, NEW i \in Places, NEW j \in Places,
             Begun(q, i, life), i <= j, j <= position'[q]
      PROVE  Ended(q, j, life) \/ InHand(<<q, j>>)'
  <2>1. life \in 0 .. MaxStops /\ position[q] \in Nat /\ position \in [Partitions -> Nat]
    BY Types
  <2>2. j \in Nat
    BY PlacesAreNat
  <2>3. CASE j <= position[q]
    BY <1>1, <1>3, <2>3 DEF OrderInv, InHand
  <2>4. CASE ~(j <= position[q])
    <3>1. q = p
      BY <1>1, <1>3, <2>1, <2>4
    <3>2. position'[q] = position[q] + 1
      BY <1>1, <2>1, <3>1
    <3>3. j = position[q] + 1
      BY <1>3, <2>1, <2>2, <2>4, <3>2
    <3> QED BY <1>1, <3>1, <3>3 DEF InHand
  <2> QED BY <2>3, <2>4
<1>4. \A q \in Partitions : \A i, j \in Places :
         Begun(q, i, life)' /\ i <= j /\ j <= position'[q]
         => Ended(q, j, life)' \/ InHand(<<q, j>>)'
  BY <1>1, <1>3 DEF Begun, Ended
<1> QED BY <1>2, <1>4, <1>1 DEF OrderInv

\* NewSpan for the record in hand, which is the last before the position.
LEMMA StartReadingOrder == ASSUME PipeInv, OrderInv, StartReading PROVE OrderInv'
<1>1. /\ consumer.pc = "consumed" /\ consumer' = [consumer EXCEPT !.pc = "traced"]
      /\ position' = position /\ life' = life
      /\ \E s : reading' = [reading EXCEPT ![consumer.at] = s]
  BY DEF StartReading
<1>x. PICK x \in Readings : /\ x = consumer.at /\ x[3] = life /\ x[2] = position[x[1]]
                            /\ reading[x].phase = "none"
  BY <1>1 DEF PipeInv, HoldInv
<1>p. PICK p \in Partitions, m \in Places : x = <<p, m, x[3]>>
  BY ReadingParts DEF Places
<1>2. /\ x = <<p, m, life>> /\ m = position[p] /\ life \in 0 .. MaxStops /\ m \in Nat
      /\ x = consumer.at /\ reading[x].phase = "none"
  <2>1. x[1] = p /\ x[2] = m
    BY <1>p
  <2> QED BY <2>1, <1>x, <1>p, Types, PlacesAreNat
<1>3. \A y \in Readings : y # x => reading'[y] = reading[y]
  BY <1>1, <1>2, Types
<1>4. consumer'.pc = "traced" /\ consumer'.at = x
  BY <1>1, <1>2 DEF PipeInv, Typed, TypeOK
<1>5. ASSUME NEW q \in Partitions, NEW n \in 0 .. MaxStops,
             NEW i \in Places, Begun(q, i, n)', ~Begun(q, i, n)
      PROVE  q = p /\ n = life /\ i = m
  <2>1. <<q, i, n>> \in Readings
    BY PlaceIsReading
  <2>2. <<q, i, n>> = x
    BY <1>3, <1>5, <2>1 DEF Begun
  <2> QED BY <2>2, <1>2
<1>6. ASSUME NEW j \in Places, NEW i \in Places, i <= j, j < m, Begun(p, i, life)
      PROVE  Ended(p, j, life)'
  <2>1. j \in Nat /\ j # m /\ j <= position[p]
    BY <1>2, <1>6, PlacesAreNat
  <2>2. Ended(p, j, life) \/ InHand(<<p, j>>)
    BY <1>6, <2>1 DEF OrderInv
  <2>3. ~InHand(<<p, j>>)
    BY <1>2, <2>1 DEF InHand
  <2>4. <<p, j, life>> \in Readings /\ <<p, j, life>> # x
    BY <1>2, <2>1, PlaceIsReading
  <2> QED BY <2>2, <2>3, <2>4, <1>1, <1>3 DEF Ended
<1>7. TracedInOrder'
  <2> SUFFICES ASSUME NEW q \in Partitions, NEW n \in 0 .. MaxStops,
                      NEW i \in Places, NEW j \in Places, NEW k \in Places,
                      i <= j, j < k, Begun(q, i, n)', Begun(q, k, n)'
               PROVE  Ended(q, j, n)'
    BY DEF TracedInOrder, Places, Begun, Ended
  <2>1. i \in Nat /\ j \in Nat /\ k \in Nat /\ i < k
    BY PlacesAreNat
  <2>2. Begun(q, i, n)
    <3> SUFFICES ASSUME ~Begun(q, i, n) PROVE FALSE
      OBVIOUS
    <3>1. q = p /\ n = life /\ i = m
      BY <1>5
    <3>2. Begun(q, k, n)
      BY <1>5, <2>1, <3>1
    <3>3. k <= position[p]
      BY <3>1, <3>2, BegunBefore
    <3> QED BY <2>1, <3>1, <3>3, <1>2
  <2>3. CASE Begun(q, k, n)
    <3>1. Ended(q, j, n)
      BY <2>2, <2>3 DEF OrderInv, TracedInOrder, Places, Begun, Ended
    <3>2. <<q, j, n>> \in Readings /\ <<q, j, n>> # x
      BY <3>1, <1>2, PlaceIsReading DEF Ended
    <3> QED BY <3>1, <3>2, <1>3 DEF Ended
  <2>4. CASE ~Begun(q, k, n)
    <3>1. q = p /\ n = life /\ k = m
      BY <2>4, <1>5
    <3>2. Ended(p, j, life)'
      BY <3>1, <2>2, <1>6
    <3> QED BY <3>1, <3>2, <1>1 DEF Ended
  <2> QED BY <2>3, <2>4
<1>8. ASSUME NEW q \in Partitions, NEW i \in Places, NEW j \in Places,
             Begun(q, i, life)', i <= j, j <= position[q]
      PROVE  Ended(q, j, life)' \/ InHand(<<q, j>>)'
  <2>1. i \in Nat /\ j \in Nat /\ life' = life
    BY <1>1, PlacesAreNat
  <2>2. CASE q = p /\ j = m
    BY <2>2, <1>2, <1>4 DEF InHand
  <2>3. CASE ~(q = p /\ j = m)
    <3>1. <<q, j, life>> \in Readings /\ <<q, j, life>> # x
      BY <2>3, <1>2, PlaceIsReading
    <3>2. ~InHand(<<q, j>>)
      BY <2>3, <1>2 DEF InHand
    <3>3. Begun(q, i, life)
      <4> SUFFICES ASSUME ~Begun(q, i, life) PROVE FALSE
        OBVIOUS
      <4>1. q = p /\ i = m
        BY <1>2, <1>5, <1>8, <2>1
      <4>2. j <= m /\ m \in Nat
        BY <4>1, <1>2, <1>8
      <4> QED BY <4>1, <4>2, <2>1, <2>3, <1>8
    <3>4. Ended(q, j, life)
      BY <3>2, <3>3, <1>8 DEF OrderInv
    <3> QED BY <3>1, <3>4, <2>1, <1>3 DEF Ended
  <2> QED BY <2>2, <2>3
<1> QED BY <1>1, <1>7, <1>8 DEF OrderInv

\* A life ends: the next one has begun nothing.
LEMMA LifeOrder ==
    ASSUME PipeInv, OrderInv, life' = life + 1, life < MaxStops,
           \/ reading' = reading
           \/ reading' = [x \in Readings |-> Lose(reading[x])]
    PROVE  OrderInv'
<1>1. NothingBegins
  <2>1. CASE reading' = reading
    BY <2>1 DEF NothingBegins
  <2>2. CASE reading' = [x \in Readings |-> Lose(reading[x])]
    BY <2>2 DEF NothingBegins, Lose
  <2> QED BY <2>1, <2>2
<1>2. TracedInOrder'
  BY <1>1, OrderStays DEF OrderInv
<1>3. life \in Nat /\ life' \in 0 .. MaxStops
  <2>1. life \in 0 .. MaxStops /\ MaxStops \in Nat
    BY Types, ReadingParts
  <2> QED BY <2>1
<1>4. ASSUME NEW p \in Partitions, NEW i \in Places PROVE ~Begun(p, i, life)'
  <2> SUFFICES ASSUME Begun(p, i, life)' PROVE FALSE
    OBVIOUS
  <2>1. <<p, i, life'>> \in Readings
    BY <1>3, PlaceIsReading
  <2>2. Begun(p, i, life')
    BY <2>1, <1>1 DEF NothingBegins, Begun
  <2>3. life' <= life
    BY <2>2, <1>3, BegunBefore
  <2> QED BY <2>3, <1>3
<1> QED BY <1>2, <1>4 DEF OrderInv

\* Every step keeps the order.
LEMMA NextOrder == ASSUME PipeInv, OrderInv, [Next]_vars PROVE OrderInv'
<1>1. CASE UNCHANGED consumerVars \/ UNCHANGED vars
  <2>1. UNCHANGED <<reading, position, life, consumer>>
    BY <1>1 DEF vars, consumerVars
  <2> QED BY <2>1, IdleOrder
<1>2. CASE LoopTurns \/ ConsumeFails \/ ConsumerRegisters \/ Sigterm \/ AutoCommit
  <2>1. /\ UNCHANGED <<reading, position, life>>
        /\ consumer' = consumer \/ consumer.pc \in {"off", "loop", "waiting"}
    BY <1>2 DEF LoopTurns, ConsumeFails, ConsumerRegisters, Sigterm, AutoCommit
  <2> QED BY <2>1, IdleOrder
<1>3. CASE ConsumerStarts
  <2>1. UNCHANGED <<reading, life>> /\ consumer.pc = "off"
    BY <1>3 DEF ConsumerStarts
  <2>2. TracedInOrder'
    BY <2>1, OrderStays DEF OrderInv, NothingBegins
  <2>3. \A p \in Partitions, i \in Places : ~Begun(p, i, life)
    BY <2>1, Types, BegunBefore
  <2>4. \A p \in Partitions, i \in Places : ~Begun(p, i, life)'
    BY <2>1, <2>3 DEF Begun
  <2> QED BY <2>2, <2>4 DEF OrderInv
<1>4. CASE BeginProcess \/ FinishProcess
  <2>1. consumer.pc \in {"traced", "process"} /\ UNCHANGED <<position, life>>
    BY <1>4 DEF BeginProcess, FinishProcess
  <2>2. consumer'.at = consumer.at /\ consumer'.pc \in {"process", "processed"}
    BY <1>4 DEF BeginProcess, FinishProcess, PipeInv, Typed, TypeOK
  <2>3. \E s : reading' = [reading EXCEPT ![consumer.at] = s]
    BY <1>4 DEF BeginProcess, FinishProcess
  <2> QED BY <2>1, <2>2, <2>3, HeldOrder
<1>5. CASE EndReading
  <2>1. consumer.pc = "processed" /\ UNCHANGED <<position, life>>
    BY <1>5 DEF EndReading
  <2>2. /\ reading' = [reading EXCEPT ![consumer.at] =
                                  EndSpan(reading[consumer.at], FALSE)]
        /\ EndSpan(reading[consumer.at], FALSE).phase = "ended"
    <3>1. reading[consumer.at] \in ReadingRecords
      BY <2>1, InProcess
    <3>2. EndSpan(reading[consumer.at], FALSE).phase = "ended"
      BY <3>1 DEF EndSpan, ReadingRecords, SpanType
    <3> QED BY <3>2, <1>5 DEF EndReading
  <2> QED BY <2>1, <2>2, HeldOrder
<1>6. CASE LoopExits \/ ConsumerCrashes
  <2>1. /\ life' = life + 1 /\ life < MaxStops
        /\ \/ reading' = reading
           \/ reading' = [x \in Readings |-> Lose(reading[x])]
    BY <1>6 DEF LoopExits, ConsumerCrashes
  <2> QED BY <2>1, LifeOrder
<1> QED BY <1>1, <1>2, <1>3, <1>4, <1>5, <1>6, ConsumeOrder, StartReadingOrder
        DEF Next, ConsumerLoop

\* In one life of kafka_consumer the records of a partition are traced one after
\* the other, with none left out between: across restarts alone are records read
\* again or passed.
THEOREM TracesInOrder == Spec => []TracedInOrder
<1>1. Init => OrderInv
  <2>1. Init => \A p \in Partitions, i \in Places, n \in 0 .. MaxStops : ~Begun(p, i, n)
    <3> SUFFICES ASSUME Init, NEW p \in Partitions, NEW i \in Places,
                        NEW n \in 0 .. MaxStops
                 PROVE  ~Begun(p, i, n)
      OBVIOUS
    <3>1. <<p, i, n>> \in Readings
      BY PlaceIsReading
    <3> QED BY <3>1 DEF Init, Begun, Unborn
  <2>2. Init => life \in 0 .. MaxStops
    BY ReadingParts DEF Init
  <2> QED BY <2>1, <2>2 DEF OrderInv, TracedInOrder, Places, Begun
<1>2. PipeInv /\ OrderInv /\ [Next]_vars => OrderInv'
  BY NextOrder
<1>3. OrderInv => TracedInOrder
  BY DEF OrderInv
<1> QED BY <1>1, <1>2, <1>3, PipeInvariance, PTL DEF Spec

-----------------------------------------------------------------------------
(* KafkaPipeline contains KafkaProducer. *)

\* The consumer works on the topic from outside: with it beside the producer,
\* every behaviour of the producer's part is one of KafkaProducer.
THEOREM PipeImplementsProducer == Spec => ProducerSpec
<1>1. Init => ProducerInit
  BY DEF Init
<1>2. [Next]_vars => [ProducerNext]_producerVars
  <2>1. ConsumerLoop => UNCHANGED producerVars
    BY DEF ConsumerLoop, LoopTurns, ConsumeFails, Consume, StartReading, BeginProcess,
           FinishProcess, EndReading, LoopExits
  <2>2. UNCHANGED vars => UNCHANGED producerVars
    BY DEF vars
  <2> QED BY <2>1, <2>2 DEF Next, ConsumerStarts, ConsumerRegisters, Sigterm,
                            ConsumerCrashes, AutoCommit
<1> QED BY <1>1, <1>2, PTL DEF Spec, ProducerSpec

\* So what is promised of the producer alone holds of the two together: the answers
\* tell what becomes of the messages, and a consumer does not clear a clogged queue.
THEOREM PipeKeepsProducersPromises ==
    Spec => []AnswerTellsFate /\ ClogsForGood
BY PipeImplementsProducer, AnswerTells, ClogIsForGood, PTL

-----------------------------------------------------------------------------
(* KafkaPipeline implements SpanProtocol. *)

\* A field f of the producer's spans, with the field g of the readings.
Wide(f, g) == [s \in Spans |-> IF s \in Messages THEN f[s] ELSE g[s]]

\* The fields of all spans, from those of the producer's.
LEMMA AllAreWide ==
    ASSUME UNCHANGED reading
    PROVE  /\ All!PhaseOf = Wide(U!PhaseOf, [x \in Readings |-> reading[x].phase])
           /\ All!StackOf = Wide(U!StackOf, [x \in Readings |-> reading[x].stack])
           /\ All!ErrorOf = Wide(U!ErrorOf, [x \in Readings |-> reading[x].error])
           /\ All!FailedOf = Wide(U!FailedOf, [x \in Readings |-> reading[x].failed])
           /\ All!PhaseOf' = Wide(U!PhaseOf', [x \in Readings |-> reading[x].phase])
           /\ All!StackOf' = Wide(U!StackOf', [x \in Readings |-> reading[x].stack])
           /\ All!ErrorOf' = Wide(U!ErrorOf', [x \in Readings |-> reading[x].error])
           /\ All!FailedOf' = Wide(U!FailedOf', [x \in Readings |-> reading[x].failed])
           /\ DOMAIN U!PhaseOf = Messages /\ DOMAIN U!StackOf = Messages
           /\ DOMAIN U!ErrorOf = Messages /\ DOMAIN U!FailedOf = Messages
<1>1. \A s \in Spans : s \notin Messages => s \in Readings
  BY DEF Spans
<1> QED BY <1>1 DEF AllSpans, Wide, All!PhaseOf, All!StackOf, All!ErrorOf, All!FailedOf,
                U!PhaseOf, U!StackOf, U!ErrorOf, U!FailedOf

\* What the protocol allows among the producer's spans it allows among all.
LEMMA ProducerMaps ==
    ASSUME [U!P!Next]_(U!P!vars), UNCHANGED reading
    PROVE  [All!P!Next]_(All!P!vars)
<1> DEFINE gp == [x \in Readings |-> reading[x].phase]
           gs == [x \in Readings |-> reading[x].stack]
           ge == [x \in Readings |-> reading[x].error]
           gf == [x \in Readings |-> reading[x].failed]
<1>1. /\ All!PhaseOf = Wide(U!PhaseOf, gp) /\ All!PhaseOf' = Wide(U!PhaseOf', gp)
      /\ All!StackOf = Wide(U!StackOf, gs) /\ All!StackOf' = Wide(U!StackOf', gs)
      /\ All!ErrorOf = Wide(U!ErrorOf, ge) /\ All!ErrorOf' = Wide(U!ErrorOf', ge)
      /\ All!FailedOf = Wide(U!FailedOf, gf) /\ All!FailedOf' = Wide(U!FailedOf', gf)
      /\ DOMAIN U!PhaseOf = Messages /\ DOMAIN U!StackOf = Messages
      /\ DOMAIN U!ErrorOf = Messages /\ DOMAIN U!FailedOf = Messages
  BY AllAreWide
<1> HIDE DEF gp, gs, ge, gf
<1>2. /\ U!PhaseOf' = U!PhaseOf => All!PhaseOf' = All!PhaseOf
      /\ U!StackOf' = U!StackOf => All!StackOf' = All!StackOf
      /\ U!ErrorOf' = U!ErrorOf => All!ErrorOf' = All!ErrorOf
      /\ U!FailedOf' = U!FailedOf => All!FailedOf' = All!FailedOf
  BY <1>1
<1>3. ASSUME NEW m \in Messages, NEW v
      PROVE  /\ U!PhaseOf' = [U!PhaseOf EXCEPT ![m] = v] =>
                    All!PhaseOf' = [All!PhaseOf EXCEPT ![m] = v]
             /\ U!StackOf' = [U!StackOf EXCEPT ![m] = v] =>
                    All!StackOf' = [All!StackOf EXCEPT ![m] = v]
             /\ U!ErrorOf' = [U!ErrorOf EXCEPT ![m] = v] =>
                    All!ErrorOf' = [All!ErrorOf EXCEPT ![m] = v]
             /\ U!FailedOf' = [U!FailedOf EXCEPT ![m] = v] =>
                    All!FailedOf' = [All!FailedOf EXCEPT ![m] = v]
  <2>1. U!PhaseOf' = [U!PhaseOf EXCEPT ![m] = v] =>
           All!PhaseOf' = [All!PhaseOf EXCEPT ![m] = v]
    BY <1>1 DEF Wide, Spans
  <2>2. U!StackOf' = [U!StackOf EXCEPT ![m] = v] =>
           All!StackOf' = [All!StackOf EXCEPT ![m] = v]
    BY <1>1 DEF Wide, Spans
  <2>3. U!ErrorOf' = [U!ErrorOf EXCEPT ![m] = v] =>
           All!ErrorOf' = [All!ErrorOf EXCEPT ![m] = v]
    BY <1>1 DEF Wide, Spans
  <2>4. U!FailedOf' = [U!FailedOf EXCEPT ![m] = v] =>
           All!FailedOf' = [All!FailedOf EXCEPT ![m] = v]
    BY <1>1 DEF Wide, Spans
  <2> QED BY <2>1, <2>2, <2>3, <2>4
<1>4. ASSUME NEW m \in Messages
      PROVE  /\ All!PhaseOf[m] = U!PhaseOf[m] /\ All!StackOf[m] = U!StackOf[m]
             /\ All!ErrorOf[m] = U!ErrorOf[m] /\ All!FailedOf[m] = U!FailedOf[m]
             /\ m \in Spans
  BY <1>1 DEF Wide, Spans
<1>5. ASSUME NEW m \in Messages, U!P!Start(m) PROVE All!P!Next
  <2>1. All!P!Start(m)
    BY <1>2, <1>3, <1>4, <1>5 DEF U!P!Start, All!P!Start
  <2> QED BY <1>4, <2>1 DEF All!P!Next
<1>6. ASSUME NEW m \in Messages, NEW e \in {ProduceEvent}, U!P!StartEvent(m, e)
      PROVE  All!P!Next
  <2>1. All!P!StartEvent(m, e)
    BY <1>2, <1>3, <1>4, <1>6 DEF U!P!StartEvent, All!P!StartEvent
  <2>2. e \in Events
    BY DEF Events
  <2> QED BY <1>4, <2>1, <2>2 DEF All!P!Next
<1>7. ASSUME NEW m \in Messages, NEW bad \in BOOLEAN, U!P!EndTopEvent(m, bad)
      PROVE  All!P!Next
  <2>1. All!P!EndTopEvent(m, bad)
    BY <1>2, <1>3, <1>4, <1>7 DEF U!P!EndTopEvent, All!P!EndTopEvent
  <2> QED BY <1>4, <2>1 DEF All!P!Next
<1>8. ASSUME NEW m \in Messages, U!P!RecordError(m) PROVE All!P!Next
  <2>1. All!P!RecordError(m)
    BY <1>2, <1>3, <1>4, <1>8 DEF U!P!RecordError, All!P!RecordError
  <2> QED BY <1>4, <2>1 DEF All!P!Next
<1>9. ASSUME NEW m \in Messages, NEW bad \in BOOLEAN, U!P!End(m, bad) PROVE All!P!Next
  <2>1. All!P!End(m, bad)
    BY <1>2, <1>3, <1>4, <1>9 DEF U!P!End, All!P!End
  <2> QED BY <1>4, <2>1 DEF All!P!Next
<1>10. ASSUME NEW L \in SUBSET Messages, U!P!LoseAll(L) PROVE All!P!Next
  <2>1. \A m \in L : All!PhaseOf[m] = "open"
    BY <1>4, <1>10 DEF U!P!LoseAll
  <2>2. U!PhaseOf' = [s \in Messages |-> IF s \in L THEN "lost" ELSE U!PhaseOf[s]]
    BY <1>10 DEF U!P!LoseAll
  <2>3. All!PhaseOf' = [s \in Spans |-> IF s \in L THEN "lost" ELSE All!PhaseOf[s]]
    BY <1>1, <2>2 DEF Wide
  <2>4. All!P!LoseAll(L)
    BY <1>2, <1>10, <2>1, <2>3 DEF U!P!LoseAll, All!P!LoseAll
  <2>5. L \in SUBSET Spans
    BY DEF Spans
  <2> QED BY <2>4, <2>5 DEF All!P!Next
<1>11. CASE UNCHANGED U!P!vars
  BY <1>2, <1>11 DEF U!P!vars, All!P!vars
<1> QED BY <1>5, <1>6, <1>7, <1>8, <1>9, <1>10, <1>11 DEF U!P!Next

\* A reading changes: the record of a span, if it is not one of a message.
LEMMA ReadingBecomes ==
    ASSUME PipeInv, UNCHANGED span, NEW x \in Readings, NEW s,
           reading' = [reading EXCEPT ![x] = s]
    PROVE  \/ x \notin Messages /\ All!Becomes(x, s) /\ AllSpans[x] = reading[x]
           \/ UNCHANGED All!P!vars
<1>1. x \in Spans /\ \A y \in Spans : y \notin Messages => y \in Readings
  BY DEF Spans
<1>2. reading'[x] = s /\ \A y \in Readings : y # x => reading'[y] = reading[y]
  BY Types
<1>3. CASE x \in Messages
  <2>1. UNCHANGED AllSpans
    BY <1>1, <1>2, <1>3 DEF AllSpans
  <2> QED BY <2>1, All!SameRecords
<1>4. CASE x \notin Messages
  <2>1. AllSpans' = [AllSpans EXCEPT ![x] = s]
    BY <1>1, <1>2, <1>4 DEF AllSpans
  <2>2. AllSpans = [y \in Spans |-> AllSpans[y]] /\ AllSpans[x] = reading[x]
    BY <1>1, <1>4 DEF AllSpans
  <2> QED BY <1>1, <1>4, <2>1, <2>2 DEF All!Becomes
<1> QED BY <1>3, <1>4

\* Nothing was started.
LEMMA MapPipeInit == Init => All!P!Init
<1>1. Init => \A s \in Spans : All!Blank(AllSpans[s])
  BY DEF Init, ProducerInit, AllSpans, Spans, All!Blank, Unborn
<1> QED BY <1>1, All!BlankRecords

\* Every step of producer or consumer is a step of the protocol, or changes no span.
LEMMA MapPipeNext == PipeInv /\ [Next]_vars => [All!P!Next]_(All!P!vars)
<1> SUFFICES ASSUME PipeInv, [Next]_vars PROVE [All!P!Next]_(All!P!vars)
  OBVIOUS
<1> DEFINE x == consumer.at
<1>1. CASE [ProducerNext]_producerVars /\ UNCHANGED consumerVars
  <2>1. [U!P!Next]_(U!P!vars)
    BY <1>1, MapNext DEF PipeInv
  <2> QED BY <1>1, <2>1, ProducerMaps DEF consumerVars
<1>2. CASE StartReading
  <2> DEFINE c == headers[MessageOf(x)]
  <2>1. PICK kind \in NewSpanKinds(consumerReady, c) :
          reading' = [reading EXCEPT ![x] = NewSpan(kind, c)]
    BY <1>2 DEF StartReading, ReadContext
  <2>2. x \in Readings /\ reading[x] = Unborn
    BY <1>2 DEF StartReading, PipeInv, HoldInv, ReadingInv
  <2>3. UNCHANGED span
    BY <1>2 DEF StartReading, producerVars
  <2> DEFINE s == NewSpan(kind, c)
  <2>4. s.phase = "open" /\ s.stack = <<>> /\ s.error = FALSE /\ s.failed = {}
    BY DEF NewSpan
  <2> HIDE DEF s
  <2>5. reading' = [reading EXCEPT ![x] = s]
    BY <2>1 DEF s
  <2>6. CASE All!Becomes(x, s) /\ AllSpans[x] = reading[x]
    <3>1. /\ AllSpans[x].phase = "none" /\ AllSpans[x].stack = <<>>
          /\ AllSpans[x].error = FALSE /\ AllSpans[x].failed = {}
      BY <2>2, <2>6 DEF Unborn
    <3>2. All!Keeps(x, s, {"stack", "error", "failed"})
      BY <2>4, <3>1 DEF All!Keeps
    <3> QED BY <2>4, <2>6, <3>1, <3>2, All!MapStart
  <2> QED BY <2>2, <2>3, <2>5, <2>6, ReadingBecomes
<1>3. CASE BeginProcess
  <2> DEFINE s == NewSpanEvent(reading[x], ProcessEvent)
  <2>1. reading' = [reading EXCEPT ![x] = s] /\ UNCHANGED span /\ consumer.pc = "traced"
    BY <1>3 DEF BeginProcess, producerVars
  <2>2. x \in Readings /\ reading[x] \in ReadingRecords /\ reading[x].phase = "open"
        /\ ProcessEvent \in Events
    BY <2>1, InProcess
  <2>3. s.stack = Append(reading[x].stack, ProcessEvent)
        /\ s.phase = reading[x].phase /\ s.error = reading[x].error
        /\ s.failed = reading[x].failed
    BY <2>2 DEF NewSpanEvent, ReadingRecords, SpanType
  <2> HIDE DEF s
  <2>4. CASE All!Becomes(x, s) /\ AllSpans[x] = reading[x]
    <3>1. All!Keeps(x, s, {"phase", "error", "failed"})
      BY <2>3, <2>4 DEF All!Keeps
    <3> QED BY <2>2, <2>3, <2>4, <3>1, All!MapStartEvent
  <2> QED BY <2>1, <2>2, <2>4, ReadingBecomes
<1>4. CASE FinishProcess
  <2> DEFINE s == EndProcess(reading[x])
             st == reading[x].stack
  <2>1. reading' = [reading EXCEPT ![x] = s] /\ UNCHANGED span /\ consumer.pc = "process"
    BY <1>4 DEF FinishProcess, producerVars
  <2>2. x \in Readings /\ reading[x] \in ReadingRecords /\ reading[x].phase = "open"
        /\ st = <<ProcessEvent>>
    BY <2>1, InProcess
  <2>3. s.stack = SubSeq(st, 1, Len(st) - 1)
        /\ s.phase = reading[x].phase /\ s.error = reading[x].error
        /\ s.failed = reading[x].failed
    BY <2>2 DEF EndProcess, EndEvent, ReadingRecords, SpanType
  <2>4. st # <<>> /\ st[Len(st)] = ProcessEvent
    BY <2>2, ShortStacks
  <2> HIDE DEF s
  <2>5. CASE All!Becomes(x, s) /\ AllSpans[x] = reading[x]
    <3>1. All!Keeps(x, s, {"phase", "error"})
      BY <2>3, <2>5 DEF All!Keeps
    <3> QED BY <2>2, <2>3, <2>4, <2>5, <3>1, All!MapEndEvent
  <2> QED BY <2>1, <2>2, <2>5, ReadingBecomes
<1>5. CASE EndReading
  <2> DEFINE s == EndSpan(reading[x], FALSE)
  <2>1. reading' = [reading EXCEPT ![x] = s] /\ UNCHANGED span
        /\ consumer.pc = "processed"
    BY <1>5 DEF EndReading, producerVars
  <2>2. x \in Readings /\ reading[x] \in ReadingRecords /\ reading[x].phase = "open"
        /\ reading[x].stack = <<>>
    BY <2>1, InProcess
  <2>3. s.stack = reading[x].stack /\ s.phase = "ended"
        /\ s.error = (reading[x].error \/ FALSE) /\ s.failed = reading[x].failed
    BY <2>2 DEF EndSpan, ReadingRecords, SpanType
  <2> HIDE DEF s
  <2>4. CASE All!Becomes(x, s) /\ AllSpans[x] = reading[x]
    <3>1. All!Keeps(x, s, {"stack", "failed"})
      BY <2>3, <2>4 DEF All!Keeps
    <3> QED BY <2>2, <2>3, <2>4, <3>1, All!MapEnd
  <2> QED BY <2>1, <2>2, <2>4, ReadingBecomes
<1>6. CASE ConsumerCrashes
  <2> DEFINE L == {s \in Spans : s \notin Messages /\ reading[s].phase = "open"}
  <2>1. reading' = [y \in Readings |-> Lose(reading[y])] /\ UNCHANGED span
    BY <1>6 DEF ConsumerCrashes, producerVars
  <2>2. ASSUME NEW s \in Spans
        PROVE  /\ AllSpans'[s].phase = IF s \in L THEN "lost" ELSE AllSpans[s].phase
               /\ AllSpans'[s].stack = AllSpans[s].stack
               /\ AllSpans'[s].error = AllSpans[s].error
               /\ AllSpans'[s].failed = AllSpans[s].failed
    <3>1. CASE s \in Messages
      BY <2>1, <3>1 DEF AllSpans
    <3>2. CASE s \notin Messages
      <4>1. s \in Readings /\ AllSpans[s] = reading[s] /\ AllSpans'[s] = Lose(reading[s])
        BY <2>1, <3>2 DEF AllSpans, Spans
      <4>2. reading[s] \in ReadingRecords
        BY <4>1, Types
      <4> QED BY <3>2, <4>1, <4>2 DEF Lose, ReadingRecords, SpanType
    <3> QED BY <3>1, <3>2
  <2>3. L \in SUBSET Spans /\ \A s \in L : AllSpans[s].phase = "open"
    BY DEF AllSpans
  <2> HIDE DEF L
  <2> QED BY <2>2, <2>3, All!MapLose
<1>7. ASSUME \/ LoopTurns \/ ConsumeFails \/ LoopExits \/ ConsumerStarts
             \/ \E p \in Partitions : Consume(p)
             \/ ConsumerRegisters \/ Sigterm \/ AutoCommit \/ UNCHANGED vars
      PROVE  UNCHANGED All!P!vars
  <2>1. UNCHANGED <<span, reading>>
    BY <1>7 DEF LoopTurns, ConsumeFails, LoopExits, ConsumerStarts, Consume,
       ConsumerRegisters, Sigterm, AutoCommit, vars, producerVars, consumerVars
  <2>2. UNCHANGED AllSpans
    BY <2>1 DEF AllSpans
  <2> QED BY <2>2, All!SameRecords
<1> QED BY <1>1, <1>2, <1>3, <1>4, <1>5, <1>6, <1>7 DEF Next, ConsumerLoop

\* Producer and consumer together use the agent as SpanProtocol demands, through
\* duplicates, crashes and repeated readings: KafkaPipeline implements SpanProtocol.
THEOREM PipeImplementsSpanProtocol == Spec => FollowsSpanProtocol
BY PipeInvariance, MapPipeInit, MapPipeNext, PTL
   DEF Spec, FollowsSpanProtocol, All!FollowsProtocol, All!P!Spec

\* So a record read twice, or by a consumer started anew, gets a new span: none
\* that was delivered or lost is written to again, on either side of the topic.
THEOREM PipeRecordsAreFinal == Spec => []All!BalancedRecords /\ All!FinalRecords
BY PipeImplementsSpanProtocol, All!FollowingBalances, All!FollowingFreezes
   DEF FollowsSpanProtocol
=============================================================================
