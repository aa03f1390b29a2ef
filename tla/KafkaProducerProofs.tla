------------------------ MODULE KafkaProducerProofs ------------------------
(***************************************************************************)
(* Proofs about KafkaProducer, for any number of messages, workers and     *)
(* partitions, any queue limit, and any number of outages, lost            *)
(* acknowledgements and stops.                                             *)
(***************************************************************************)
EXTENDS KafkaProducer, AgentApiProofs, FiniteSetTheorems, TLAPS

-----------------------------------------------------------------------------
(* The inductive invariant. *)

\* The span, the answer and the fate of the message of the busy worker v.
Progress(v, s, answer, fate) ==
    /\ s.phase = "open" /\ ~s.error /\ answer = "none"
    /\ s.stack = IF v.pc \in {"traced", "respond"} THEN <<>> ELSE <<ProduceEvent>>
    /\ s.failed = IF v.pc = "respond" /\ ~v.ok THEN {ProduceEvent} ELSE {}
    /\ (fate # "none") <=> (v.pc \in {"produced", "respond"} /\ v.ok)

WorkerInv(w) ==
    LET m == worker[w].msg
    IN  IF worker[w].pc = "idle" THEN worker[w] = IdleWorker
        ELSE m \in Messages /\ Progress(worker[w], span[m], response[m], queue[m])

WorkersApart == \A v, w \in Workers :
    worker[v].pc # "idle" /\ worker[w].pc # "idle" /\ worker[v].msg = worker[w].msg
    => v = w

\* What is on record of a message, whoever works on it.
MessageInv(m) ==
    /\ span[m].phase = "none" => span[m] = Unborn /\ queue[m] = "none"
    /\ response[m] # "none" => span[m].phase = "ended"
    /\ m \in Written => queue[m] # "none"
    /\ response[m] = "200" => queue[m] # "none"
                              /\ ~span[m].error /\ span[m].failed = {}
    /\ response[m] = "500" => queue[m] = "none"
                              /\ span[m].error /\ span[m].failed = {ProduceEvent}

IInv == /\ ProducerTypeOK
        /\ \A w \in Workers : WorkerInv(w)
        /\ WorkersApart
        /\ \A m \in Messages : MessageInv(m)

-----------------------------------------------------------------------------

\* Nothing has happened yet.
LEMMA InitInv == ProducerInit => IInv
<1> SUFFICES ASSUME ProducerInit PROVE IInv
  OBVIOUS
<1>1. ProducerTypeOK
  <2>1. Unborn \in SpanRecords
    BY DEF Unborn, SpanRecords, SpanType, Phases, Kinds
  <2>2. span \in [Messages -> SpanRecords]
    BY <2>1 DEF ProducerInit
  <2>3. IdleWorker \in WorkerRecords
    BY DEF IdleWorker, WorkerRecords
  <2>4. worker \in [Workers -> WorkerRecords]
    BY <2>3 DEF ProducerInit
  <2>5. headers \in [Messages -> Headers]
    BY DEF ProducerInit, NoContext, Headers
  <2>6. log \in [Partitions -> Seq(Messages)]
    BY DEF ProducerInit
  <2>7. queue \in [Messages -> Fates]
    BY DEF ProducerInit, Fates
  <2>8. response \in [Messages -> {"none", "200", "500"}]
    BY DEF ProducerInit
  <2>9. ready \in BOOLEAN /\ up \in BOOLEAN /\ brokerUp \in BOOLEAN
    BY DEF ProducerInit
  <2>10. /\ outages \in 0 .. MaxOutages /\ resends \in 0 .. MaxResends
         /\ kills \in 0 .. MaxKills
    <3>1. MaxOutages \in Nat /\ MaxResends \in Nat /\ MaxKills \in Nat
      BY KafkaAssumption
    <3> QED BY <3>1, SMT DEF ProducerInit
  <2> QED BY <2>2, <2>4, <2>5, <2>6, <2>7, <2>8, <2>9, <2>10 DEF ProducerTypeOK
<1>2. \A w \in Workers : WorkerInv(w)
  BY DEF ProducerInit, WorkerInv, IdleWorker
<1>3. WorkersApart
  BY DEF ProducerInit, WorkersApart, IdleWorker
<1>4. Written = {}
  BY DEF ProducerInit, Written, Records
<1>5. \A m \in Messages : MessageInv(m)
  BY <1>4 DEF ProducerInit, MessageInv, Unborn
<1> QED BY <1>1, <1>2, <1>3, <1>5 DEF IInv

\* A step of the worker w that changes the records of its own message alone.
WorkerMove(w, v) ==
    /\ worker[w].pc # "idle" /\ v.pc # "idle" /\ v.msg = worker[w].msg
    /\ worker' = [worker EXCEPT ![w] = v]
    /\ UNCHANGED <<response, log>>
    /\ \A m \in Messages \ {v.msg} : span'[m] = span[m]
    /\ \A m \in Messages \ {v.msg} : (queue'[m] = "none") <=> (queue[m] = "none")
    /\ queue[v.msg] # "none" => queue'[v.msg] # "none"
    /\ Progress(v, span'[v.msg], response[v.msg], queue'[v.msg])

\* Such a step keeps the invariant.
LEMMA WorkerMoves ==
    ASSUME IInv, ProducerTypeOK', NEW w \in Workers, NEW v, WorkerMove(w, v)
    PROVE  IInv'
<1> DEFINE m == worker[w].msg
<1>1. WorkerInv(w) /\ m \in Messages /\ v.msg = m
  BY DEF IInv, WorkerMove, WorkerInv
<1>2. /\ worker'[w] = v
      /\ \A u \in Workers \ {w} : worker'[u] = worker[u]
  BY DEF WorkerMove, IInv, ProducerTypeOK
<1>3. \A u \in Workers : WorkerInv(u)'
  <2> SUFFICES ASSUME NEW u \in Workers PROVE WorkerInv(u)'
    OBVIOUS
  <2>1. CASE u = w
    BY <2>1, <1>1, <1>2 DEF WorkerMove, WorkerInv, Progress
  <2>2. CASE u # w
    <3>1. WorkerInv(u) /\ worker'[u] = worker[u]
      BY <2>2, <1>2 DEF IInv
    <3>2. worker[u].pc # "idle" => worker[u].msg # m
      BY <2>2 DEF IInv, WorkersApart, WorkerMove
    <3> QED BY <3>1, <3>2, <1>1 DEF WorkerInv, Progress, WorkerMove
  <2> QED BY <2>1, <2>2
<1>4. WorkersApart'
  BY <1>1, <1>2 DEF IInv, WorkersApart, WorkerMove
<1>5. Written' = Written
  BY DEF WorkerMove, Written, Records
<1>6. \A n \in Messages : MessageInv(n)'
  <2> SUFFICES ASSUME NEW n \in Messages PROVE MessageInv(n)'
    OBVIOUS
  <2>1. MessageInv(n) /\ response' = response
    BY DEF IInv, WorkerMove
  <2>2. CASE n = m
    BY <2>1, <2>2, <1>1, <1>5 DEF WorkerMove, MessageInv, Progress
  <2>3. CASE n # m
    BY <2>1, <2>3, <1>1, <1>5 DEF WorkerMove, MessageInv
  <2> QED BY <2>2, <2>3
<1> QED BY <1>3, <1>4, <1>6 DEF IInv

-----------------------------------------------------------------------------
(* The steps of a worker. *)

\* What the invariant says of a busy worker and its message.
LEMMA Busy ==
    ASSUME IInv, NEW w \in Workers, worker[w].pc # "idle"
    PROVE  /\ worker[w].msg \in Messages
           /\ Progress(worker[w], span[worker[w].msg], response[worker[w].msg],
                       queue[worker[w].msg])
           /\ span[worker[w].msg] \in SpanRecords
           /\ worker[w] \in WorkerRecords
BY DEF IInv, WorkerInv, ProducerTypeOK

\* produce_message opens the event of the message and prepares its headers.
LEMMA BeginProduceInv ==
    ASSUME IInv, NEW w \in Workers, BeginProduce(w) PROVE IInv'
<1> DEFINE m == worker[w].msg
           v == [worker[w] EXCEPT !.pc = "produce"]
           s == NewSpanEvent(span[m], ProduceEvent)
<1>1. worker[w].pc = "traced"
  BY DEF BeginProduce
<1>2. m \in Messages /\ Progress(worker[w], span[m], response[m], queue[m])
      /\ span[m] \in SpanRecords
      /\ worker[w] \in WorkerRecords
  BY <1>1, Busy
<1>3. /\ span' = [span EXCEPT ![m] = s]
      /\ headers' = [headers EXCEPT ![m] = InjectedContext(m)]
      /\ worker' = [worker EXCEPT ![w] = v]
      /\ UNCHANGED <<response, queue, brokerVars, processVars>>
  BY DEF BeginProduce
<1>4. s \in SpanRecords
  BY <1>2, ApiTypes DEF SpanRecords
<1>5. v \in WorkerRecords /\ v.pc = "produce" /\ v.msg = m
  BY <1>2 DEF WorkerRecords
<1>6. InjectedContext(m) \in Headers
  <2>1. span[m].kind \in Kinds
    BY <1>2 DEF SpanRecords, SpanType
  <2> QED BY <2>1, <1>2 DEF InjectedContext, InjectContext, NoContext, Headers, Kinds
<1>7. s.phase = "open" /\ ~s.error /\ s.failed = {} /\ s.stack = <<ProduceEvent>>
  BY <1>1, <1>2, ShortStacks DEF Progress, NewSpanEvent, SpanRecords, SpanType
<1> HIDE DEF s, v
<1>8. span' \in [Messages -> SpanRecords] /\ span'[m] = s
      /\ \A x \in Messages \ {m} : span'[x] = span[x]
  BY <1>2, <1>3, <1>4 DEF IInv, ProducerTypeOK
<1>9. worker' \in [Workers -> WorkerRecords]
  BY <1>3, <1>5 DEF IInv, ProducerTypeOK
<1>10. headers' \in [Messages -> Headers]
  BY <1>3, <1>6 DEF IInv, ProducerTypeOK
<1>11. ProducerTypeOK'
  BY <1>3, <1>8, <1>9, <1>10 DEF IInv, ProducerTypeOK, brokerVars, processVars
<1>12. WorkerMove(w, v)
  <2>1. queue' = queue /\ response' = response /\ log' = log
    BY <1>3 DEF brokerVars
  <2>2. Progress(v, span'[m], response[m], queue'[m])
    BY <1>1, <1>2, <1>5, <1>7, <1>8, <2>1 DEF Progress
  <2> QED BY <1>1, <1>3, <1>5, <1>8, <2>1, <2>2 DEF WorkerMove
<1> QED BY <1>11, <1>12, WorkerMoves

\* produce() takes the message or refuses it.
LEMMA ProduceInv ==
    ASSUME IInv, NEW w \in Workers, Produce(w) PROVE IInv'
<1> DEFINE m == worker[w].msg
<1>1. worker[w].pc = "produce"
  BY DEF Produce
<1>2. m \in Messages /\ Progress(worker[w], span[m], response[m], queue[m])
      /\ worker[w] \in WorkerRecords
  BY <1>1, Busy
<1>3. PICK ok \in BOOLEAN :
         /\ worker' = [worker EXCEPT ![w] = [@ EXCEPT !.pc = "produced", !.ok = ok]]
         /\ queue' = IF ok THEN [queue EXCEPT ![m] = "queued"] ELSE queue
         /\ UNCHANGED <<span, response, headers, brokerVars, processVars>>
  <2>1. CASE Cardinality(Held) < QueueLimit /\ worker' =
               [worker EXCEPT ![w].pc = "produced", ![w].ok = TRUE]
    BY <2>1 DEF Produce
  <2>2. CASE queue' = queue /\ worker' =
               [worker EXCEPT ![w].pc = "produced", ![w].ok = FALSE]
    BY <2>2 DEF Produce
  <2> QED BY <2>1, <2>2 DEF Produce
<1> DEFINE v == [worker[w] EXCEPT !.pc = "produced", !.ok = ok]
<1>4. v \in WorkerRecords /\ v.pc = "produced" /\ v.msg = m /\ v.ok = ok
  BY <1>2 DEF WorkerRecords
<1>5. worker' = [worker EXCEPT ![w] = v]
  BY <1>3
<1> HIDE DEF v
<1>6. worker' \in [Workers -> WorkerRecords]
  BY <1>4, <1>5 DEF IInv, ProducerTypeOK
<1>7. queue' \in [Messages -> Fates] /\ queue'[m] = (IF ok THEN "queued" ELSE queue[m])
      /\ \A x \in Messages \ {m} : queue'[x] = queue[x]
  BY <1>2, <1>3 DEF IInv, ProducerTypeOK, Fates
<1>8. ProducerTypeOK'
  BY <1>3, <1>6, <1>7 DEF IInv, ProducerTypeOK, brokerVars, processVars
<1>9. WorkerMove(w, v)
  <2>1. span' = span /\ response' = response /\ log' = log
    BY <1>3 DEF brokerVars
  <2>2. Progress(v, span'[m], response[m], queue'[m])
    BY <1>1, <1>2, <1>4, <1>7, <2>1 DEF Progress
  <2>3. queue[m] # "none" => queue'[m] # "none"
    BY <1>7
  <2> QED BY <1>1, <1>4, <1>5, <1>7, <2>1, <2>2, <2>3 DEF WorkerMove
<1> QED BY <1>8, <1>9, WorkerMoves

\* poll() serves the waiting reports, and the event ends.
LEMMA FinishProduceInv ==
    ASSUME IInv, NEW w \in Workers, FinishProduce(w) PROVE IInv'
<1> DEFINE m == worker[w].msg
           ok == worker[w].ok
           v == [worker[w] EXCEPT !.pc = "respond"]
           s == EndProduceEvent(span[m], ok)
<1>1. worker[w].pc = "produced"
  BY DEF FinishProduce
<1>2. m \in Messages /\ Progress(worker[w], span[m], response[m], queue[m])
      /\ span[m] \in SpanRecords
      /\ worker[w] \in WorkerRecords /\ ok \in BOOLEAN
  BY <1>1, Busy DEF WorkerRecords
<1>3. /\ span' = [span EXCEPT ![m] = s]
      /\ queue' = Polled(ok)
      /\ worker' = [worker EXCEPT ![w] = v]
      /\ UNCHANGED <<response, headers, brokerVars, processVars>>
  BY DEF FinishProduce
<1>4. s \in SpanRecords
  BY <1>2, ApiTypes DEF SpanRecords, EndProduceEvent
<1>5. v \in WorkerRecords /\ v.pc = "respond" /\ v.msg = m /\ v.ok = ok
  BY <1>2 DEF WorkerRecords
<1>6. s.phase = "open" /\ ~s.error /\ s.stack = <<>>
      /\ s.failed = IF ok THEN {} ELSE {ProduceEvent}
  BY <1>1, <1>2, ShortStacks
     DEF Progress, EndProduceEvent, EndEvent, SpanRecords, SpanType
<1> HIDE DEF s, v
<1>7. span' \in [Messages -> SpanRecords] /\ span'[m] = s
      /\ \A x \in Messages \ {m} : span'[x] = span[x]
  BY <1>2, <1>3, <1>4 DEF IInv, ProducerTypeOK
<1>8. worker' \in [Workers -> WorkerRecords]
  BY <1>3, <1>5 DEF IInv, ProducerTypeOK
<1>9. queue' \in [Messages -> Fates]
      /\ \A x \in Messages : (queue'[x] = "none") <=> (queue[x] = "none")
  BY <1>3 DEF IInv, ProducerTypeOK, Fates, Polled, ServedReports
<1>10. ProducerTypeOK'
  BY <1>3, <1>7, <1>8, <1>9 DEF IInv, ProducerTypeOK, brokerVars, processVars
<1>11. WorkerMove(w, v)
  <2>1. response' = response /\ log' = log
    BY <1>3 DEF brokerVars
  <2>2. Progress(v, span'[m], response[m], queue'[m])
    BY <1>1, <1>2, <1>5, <1>6, <1>7, <1>9, <2>1 DEF Progress
  <2> QED BY <1>1, <1>2, <1>3, <1>5, <1>7, <1>9, <2>1, <2>2 DEF WorkerMove
<1> QED BY <1>10, <1>11, WorkerMoves

\* The worker takes a request nobody has taken.
LEMMA HandleRequestInv ==
    ASSUME IInv, NEW w \in Workers, NEW m \in Messages, HandleRequest(w, m)
    PROVE  IInv'
<1> DEFINE v == [IdleWorker EXCEPT !.pc = "traced", !.msg = m]
<1>1. worker[w].pc = "idle" /\ span[m].phase = "none"
  BY DEF HandleRequest
<1>2. /\ worker' = [worker EXCEPT ![w] = v]
      /\ UNCHANGED <<response, headers, queue, brokerVars, processVars>>
  BY DEF HandleRequest
<1>3. PICK kind \in NewSpanKinds(ready, NoContext) :
         span' = [span EXCEPT ![m] = NewSpan(kind, NoContext)]
  BY DEF HandleRequest
<1> DEFINE s == NewSpan(kind, NoContext)
<1>4. kind \in Kinds
  BY DEF NewSpanKinds, Kinds, NoContext
<1>5. s \in SpanRecords /\ s.phase = "open" /\ s.stack = <<>> /\ ~s.error
      /\ s.failed = {}
  <2>1. NoContext.from \in Messages \cup {NoSpan}
    BY DEF NoContext
  <2> QED BY <1>4, <2>1, NewSpanIsOpen DEF SpanRecords
<1>6. v \in WorkerRecords /\ v.pc = "traced" /\ v.msg = m
  BY DEF IdleWorker, WorkerRecords
<1> HIDE DEF s, v
<1>7. span' \in [Messages -> SpanRecords] /\ span'[m] = s
      /\ \A x \in Messages \ {m} : span'[x] = span[x]
  BY <1>3, <1>5 DEF IInv, ProducerTypeOK, s
<1>8. worker' \in [Workers -> WorkerRecords] /\ worker'[w] = v
      /\ \A u \in Workers \ {w} : worker'[u] = worker[u]
  BY <1>2, <1>6 DEF IInv, ProducerTypeOK
<1>9. ProducerTypeOK'
  BY <1>2, <1>7, <1>8 DEF IInv, ProducerTypeOK, brokerVars, processVars
<1>10. UNCHANGED <<response, queue, log>>
  BY <1>2 DEF brokerVars
<1>11. queue[m] = "none" /\ response[m] = "none"
  BY <1>1 DEF IInv, MessageInv, ProducerTypeOK
<1>12. \A u \in Workers : worker[u].pc # "idle" => worker[u].msg # m
  BY <1>1, Busy DEF Progress
<1>13. \A u \in Workers : WorkerInv(u)'
  <2> SUFFICES ASSUME NEW u \in Workers PROVE WorkerInv(u)'
    OBVIOUS
  <2>1. CASE u = w
    <3>1. Progress(v, span'[m], response[m], queue[m])
      BY <1>5, <1>6, <1>7, <1>11 DEF Progress
    <3> QED BY <2>1, <3>1, <1>6, <1>8, <1>10 DEF WorkerInv
  <2>2. CASE u # w
    BY <2>2, <1>7, <1>8, <1>10, <1>12 DEF IInv, WorkerInv
  <2> QED BY <2>1, <2>2
<1>14. WorkersApart'
  BY <1>6, <1>8, <1>12 DEF IInv, WorkersApart
<1>15. \A n \in Messages : MessageInv(n)'
  <2> SUFFICES ASSUME NEW n \in Messages PROVE MessageInv(n)'
    OBVIOUS
  <2>1. MessageInv(n) /\ Written' = Written
    BY <1>10 DEF IInv, Written, Records
  <2>2. CASE n = m
    BY <2>1, <2>2, <1>5, <1>7, <1>10, <1>11 DEF MessageInv
  <2>3. CASE n # m
    BY <2>1, <2>3, <1>7, <1>10 DEF MessageInv
  <2> QED BY <2>2, <2>3
<1> QED BY <1>9, <1>13, <1>14, <1>15 DEF IInv

\* The worker answers, ends its span and is idle again.
LEMMA RespondInv ==
    ASSUME IInv, NEW w \in Workers, Respond(w) PROVE IInv'
<1> DEFINE m == worker[w].msg
           ok == worker[w].ok
           s == EndSpan(span[m], ~ok)
           answer == IF ok THEN "200" ELSE "500"
<1>1. worker[w].pc = "respond"
  BY DEF Respond
<1>2. m \in Messages /\ Progress(worker[w], span[m], response[m], queue[m])
      /\ span[m] \in SpanRecords /\ ok \in BOOLEAN
  BY <1>1, Busy DEF WorkerRecords
<1>3. /\ response' = [response EXCEPT ![m] = answer]
      /\ span' = [span EXCEPT ![m] = s]
      /\ worker' = [worker EXCEPT ![w] = IdleWorker]
      /\ UNCHANGED <<headers, queue, brokerVars, processVars>>
  BY DEF Respond
<1>4. s \in SpanRecords
  <2>1. ProduceEvent \in {ProduceEvent} /\ (~ok) \in BOOLEAN
    OBVIOUS
  <2> QED BY <1>2, <2>1, ApiTypes DEF SpanRecords
<1>5. s.phase = "ended" /\ s.error = ~ok
      /\ s.failed = IF ok THEN {} ELSE {ProduceEvent}
  BY <1>1, <1>2 DEF Progress, EndSpan, SpanRecords, SpanType
<1>6. (queue[m] # "none") <=> ok
  BY <1>1, <1>2 DEF Progress
<1> HIDE DEF s
<1>7. span' \in [Messages -> SpanRecords] /\ span'[m] = s
      /\ \A x \in Messages \ {m} : span'[x] = span[x]
  BY <1>2, <1>3, <1>4 DEF IInv, ProducerTypeOK
<1>8. worker' \in [Workers -> WorkerRecords] /\ worker'[w] = IdleWorker
      /\ \A u \in Workers \ {w} : worker'[u] = worker[u]
  BY <1>3 DEF IInv, ProducerTypeOK, IdleWorker, WorkerRecords
<1>9. response' \in [Messages -> {"none", "200", "500"}] /\ response'[m] = answer
      /\ \A x \in Messages \ {m} : response'[x] = response[x]
  BY <1>2, <1>3 DEF IInv, ProducerTypeOK
<1>10. ProducerTypeOK'
  BY <1>3, <1>7, <1>8, <1>9 DEF IInv, ProducerTypeOK, brokerVars, processVars
<1>11. queue' = queue /\ log' = log
  BY <1>3 DEF brokerVars
<1>12. \A u \in Workers \ {w} : worker[u].pc # "idle" => worker[u].msg # m
  BY <1>1 DEF IInv, WorkersApart
<1>13. \A u \in Workers : WorkerInv(u)'
  BY <1>7, <1>8, <1>9, <1>11, <1>12 DEF IInv, WorkerInv, IdleWorker
<1>14. WorkersApart'
  BY <1>8 DEF IInv, WorkersApart, IdleWorker
<1>15. \A n \in Messages : MessageInv(n)'
  <2> SUFFICES ASSUME NEW n \in Messages PROVE MessageInv(n)'
    OBVIOUS
  <2>1. MessageInv(n) /\ Written' = Written
    BY <1>11 DEF IInv, Written, Records
  <2>2. CASE n = m
    BY <2>1, <2>2, <1>5, <1>6, <1>7, <1>9, <1>11 DEF MessageInv
  <2>3. CASE n # m
    BY <2>1, <2>3, <1>7, <1>9, <1>11 DEF MessageInv
  <2> QED BY <2>2, <2>3
<1> QED BY <1>10, <1>13, <1>14, <1>15 DEF IInv

-----------------------------------------------------------------------------
(* The steps of librdkafka, the broker and the process. *)

\* A step of librdkafka on the message m, which it already has.
LEMMA QueueMove ==
    ASSUME IInv, ProducerTypeOK', NEW m \in Messages,
           queue[m] # "none", queue'[m] # "none",
           \A x \in Messages \ {m} : queue'[x] = queue[x],
           Written' \subseteq Written \cup {m},
           span' = span, worker' = worker, response' = response
    PROVE  IInv'
<1>1. \A x \in Messages : (queue'[x] = "none") <=> (queue[x] = "none")
  OBVIOUS
<1>2. \A u \in Workers : WorkerInv(u)'
  BY <1>1 DEF IInv, WorkerInv, Progress
<1>3. WorkersApart'
  BY DEF IInv, WorkersApart
<1>4. \A x \in Messages : MessageInv(x)'
  BY <1>1 DEF IInv, MessageInv
<1> QED BY <1>2, <1>3, <1>4 DEF IInv

\* A record goes to the log.
LEMMA WriteRecordInv ==
    ASSUME IInv, NEW m \in Messages, NEW p \in Partitions, WriteRecord(m, p)
    PROVE  IInv'
<1>1. /\ queue[m] = "queued"
      /\ log' = [log EXCEPT ![p] = Append(@, m)]
      /\ queue' = [queue EXCEPT ![m] = "acked"] \/ queue' = queue
      /\ UNCHANGED <<span, requestVars, brokerUp, outages, processVars>>
  BY DEF WriteRecord
<1>2. resends' \in 0 .. MaxResends
  <2>1. resends \in 0 .. MaxResends /\ MaxResends \in Nat
    BY KafkaAssumption DEF IInv, ProducerTypeOK
  <2>2. resends' = resends \/ (resends < MaxResends /\ resends' = resends + 1)
    BY DEF WriteRecord
  <2> QED BY <2>1, <2>2
<1>3. queue' \in [Messages -> Fates] /\ queue'[m] # "none"
      /\ \A x \in Messages \ {m} : queue'[x] = queue[x]
  BY <1>1 DEF IInv, ProducerTypeOK, Fates
<1>4. Append(log[p], m) \in Seq(Messages) /\ log[p] \in Seq(Messages)
  BY DEF IInv, ProducerTypeOK
<1>5. log' \in [Partitions -> Seq(Messages)]
  BY <1>1, <1>4 DEF IInv, ProducerTypeOK
<1>6. ProducerTypeOK'
  BY <1>1, <1>2, <1>3, <1>5 DEF IInv, ProducerTypeOK, requestVars, processVars
<1>7. Written' \subseteq Written \cup {m}
  <2> SUFFICES ASSUME NEW q \in Partitions, NEW i \in 1 .. Len(log'[q])
               PROVE  log'[q][i] \in Written \cup {m}
    BY DEF Written, Records
  <2>1. CASE q = p
    <3>1. log'[p] = Append(log[p], m)
      BY <1>1 DEF IInv, ProducerTypeOK
    <3>2. i \in 1 .. Len(log[p]) + 1
      BY <2>1, <3>1, <1>4
    <3>3. CASE i = Len(log[p]) + 1
      BY <2>1, <3>1, <3>3, <1>4
    <3>4. CASE i \in 1 .. Len(log[p])
      <4>1. log'[q][i] = log[p][i]
        BY <2>1, <3>1, <3>4, <1>4
      <4> QED BY <4>1, <3>4 DEF Written, Records
    <3> QED BY <3>2, <3>3, <3>4, <1>4
  <2>2. CASE q # p
    <3>1. log'[q] = log[q]
      BY <2>2, <1>1 DEF IInv, ProducerTypeOK
    <3> QED BY <3>1 DEF Written, Records
  <2> QED BY <2>1, <2>2
<1> QED BY <1>1, <1>3, <1>6, <1>7, QueueMove DEF requestVars

\* The message times out.
LEMMA ExpireInv ==
    ASSUME IInv, NEW m \in Messages, Expire(m) PROVE IInv'
<1>1. /\ queue[m] = "queued"
      /\ queue' = [queue EXCEPT ![m] = "expired"]
      /\ UNCHANGED <<span, requestVars, brokerVars, processVars>>
  BY DEF Expire
<1>2. queue' \in [Messages -> Fates] /\ queue'[m] # "none"
      /\ \A x \in Messages \ {m} : queue'[x] = queue[x]
  BY <1>1 DEF IInv, ProducerTypeOK, Fates
<1>3. ProducerTypeOK'
  BY <1>1, <1>2 DEF IInv, ProducerTypeOK, requestVars, brokerVars, processVars
<1>4. Written' = Written
  BY <1>1 DEF Written, Records, brokerVars
<1> QED BY <1>1, <1>2, <1>3, <1>4, QueueMove DEF requestVars

\* The process dies: open spans are lost, workers are gone, the queue is dropped.
LEMMA ProducerStopsInv ==
    ASSUME IInv, ProducerStops PROVE IInv'
<1>1. /\ kills < MaxKills /\ kills' = kills + 1
      /\ up' = FALSE /\ ready' = FALSE
      /\ span' = [m \in Messages |-> Lose(span[m])]
      /\ worker' = [w \in Workers |-> IdleWorker]
      /\ queue' = [m \in Messages |-> IF m \in Held THEN "dropped" ELSE queue[m]]
      /\ UNCHANGED <<response, headers, brokerVars>>
  BY DEF ProducerStops
<1>2. kills' \in 0 .. MaxKills
  <2>1. kills \in 0 .. MaxKills /\ MaxKills \in Nat
    BY KafkaAssumption DEF IInv, ProducerTypeOK
  <2> QED BY <1>1, <2>1
<1>3. \A m \in Messages : Lose(span[m]) \in SpanRecords
  <2> TAKE m \in Messages
  <2>1. span[m] \in SpanType(Messages, {ProduceEvent}) /\ ProduceEvent \in {ProduceEvent}
        /\ FALSE \in BOOLEAN
    BY DEF IInv, ProducerTypeOK, SpanRecords
  <2> QED BY <2>1, ApiTypes DEF SpanRecords
<1>4. IdleWorker \in WorkerRecords
  BY DEF IdleWorker, WorkerRecords
<1>5. /\ queue' \in [Messages -> Fates]
      /\ \A m \in Messages : (queue'[m] = "none") <=> (queue[m] = "none")
  BY <1>1 DEF IInv, ProducerTypeOK, Fates, Held
<1>6. span' \in [Messages -> SpanRecords]
  BY <1>1, <1>3
<1>7. worker' \in [Workers -> WorkerRecords]
  BY <1>1, <1>4
<1>8. ProducerTypeOK'
  BY <1>1, <1>2, <1>5, <1>6, <1>7 DEF IInv, ProducerTypeOK, brokerVars
<1>9. \A w \in Workers : WorkerInv(w)'
  BY <1>1 DEF WorkerInv, IdleWorker
<1>10. WorkersApart'
  BY <1>1 DEF WorkersApart, IdleWorker
<1>11. \A m \in Messages : MessageInv(m)'
  <2> SUFFICES ASSUME NEW m \in Messages PROVE MessageInv(m)'
    OBVIOUS
  <2>1. MessageInv(m) /\ Written' = Written /\ response' = response
    BY <1>1 DEF IInv, Written, Records, brokerVars
  <2>2. span'[m] = Lose(span[m]) /\ span[m] \in SpanRecords
    BY <1>1 DEF IInv, ProducerTypeOK
  <2>3. /\ span'[m].phase = IF span[m].phase = "open" THEN "lost" ELSE span[m].phase
        /\ span[m].phase # "open" => span'[m] = span[m]
    BY <2>2 DEF Lose, SpanRecords, SpanType
  <2> QED BY <2>1, <2>3, <1>5 DEF MessageInv
<1> QED BY <1>8, <1>9, <1>10, <1>11 DEF IInv

\* A step that leaves the requests, the queue and the log alone.
LEMMA QuietStep ==
    ASSUME IInv, ProducerTypeOK', UNCHANGED <<span, requestVars, queue, log>>
    PROVE  IInv'
<1>1. span' = span /\ worker' = worker /\ response' = response /\ queue' = queue
      /\ Written' = Written
  BY DEF requestVars, Written, Records
<1>2. \A u \in Workers : WorkerInv(u)'
  BY <1>1 DEF IInv, WorkerInv
<1>3. WorkersApart'
  BY <1>1 DEF IInv, WorkersApart
<1>4. \A x \in Messages : MessageInv(x)'
  BY <1>1 DEF IInv, MessageInv
<1> QED BY <1>2, <1>3, <1>4 DEF IInv

-----------------------------------------------------------------------------
(* The invariant of the specification. *)

\* Every step keeps the invariant.
LEMMA NextInv == IInv /\ [ProducerNext]_producerVars => IInv'
<1> SUFFICES ASSUME IInv, [ProducerNext]_producerVars PROVE IInv'
  OBVIOUS
<1>1. ASSUME NEW w \in Workers, NEW m \in Messages, HandleRequest(w, m) PROVE IInv'
  BY <1>1, HandleRequestInv
<1>2. ASSUME NEW w \in Workers, WorkerStep(w) PROVE IInv'
  BY <1>2, BeginProduceInv, ProduceInv, FinishProduceInv, RespondInv DEF WorkerStep
<1>3. ASSUME NEW m \in Messages, NEW p \in Partitions, WriteRecord(m, p) PROVE IInv'
  BY <1>3, WriteRecordInv
<1>4. ASSUME NEW m \in Messages, Expire(m) PROVE IInv'
  BY <1>4, ExpireInv
<1>5. CASE BrokerFails
  <2>1. outages \in 0 .. MaxOutages /\ MaxOutages \in Nat
    BY KafkaAssumption DEF IInv, ProducerTypeOK
  <2>2. outages' \in 0 .. MaxOutages
    BY <1>5, <2>1 DEF BrokerFails
  <2>3. ProducerTypeOK'
    BY <1>5, <2>2 DEF IInv, ProducerTypeOK, BrokerFails, requestVars, processVars
  <2> QED BY <1>5, <2>3, QuietStep DEF BrokerFails
<1>6. CASE BrokerReturns
  <2>1. ProducerTypeOK'
    BY <1>6 DEF IInv, ProducerTypeOK, BrokerReturns, requestVars, processVars
  <2> QED BY <1>6, <2>1, QuietStep DEF BrokerReturns
<1>7. CASE ProducerRegisters
  <2>1. ProducerTypeOK'
    BY <1>7 DEF IInv, ProducerTypeOK, ProducerRegisters, requestVars, brokerVars
  <2> QED BY <1>7, <2>1, QuietStep DEF ProducerRegisters, brokerVars
<1>8. CASE ProducerStops
  BY <1>8, ProducerStopsInv
<1>9. CASE ProducerStarts
  <2>1. ProducerTypeOK'
    BY <1>9 DEF IInv, ProducerTypeOK, ProducerStarts, requestVars, brokerVars
  <2> QED BY <1>9, <2>1, QuietStep DEF ProducerStarts, brokerVars
<1>10. CASE UNCHANGED producerVars
  <2>1. ProducerTypeOK'
    BY <1>10 DEF IInv, ProducerTypeOK, producerVars, requestVars, brokerVars, processVars
  <2> QED BY <1>10, <2>1, QuietStep DEF producerVars, brokerVars
<1>11. CASE ProducerRests
  BY <1>10, <1>11 DEF ProducerRests
<1> QED BY <1>1, <1>2, <1>3, <1>4, <1>5, <1>6, <1>7, <1>8, <1>9, <1>10, <1>11
        DEF ProducerNext

\* The invariant holds in every reachable state.
THEOREM Invariance == ProducerSpec => []IInv
BY InitInv, NextInv, PTL DEF ProducerSpec

\* Every variable keeps its type (kafka_web_producer.cpp, all of it).
THEOREM ProducerTypeCorrect == ProducerSpec => []ProducerTypeOK
<1>1. IInv => ProducerTypeOK
  BY DEF IInv
<1> QED BY <1>1, Invariance, PTL

\* What handle_run_producer answers, what it reports on its span and event, and
\* what becomes of the message agree.
THEOREM AnswerTells == ProducerSpec => []AnswerTellsFate
<1>1. IInv => AnswerTellsFate
  BY DEF IInv, MessageInv, AnswerTellsFate
<1> QED BY <1>1, Invariance, PTL

-----------------------------------------------------------------------------
(* A clogged queue. *)

\* A step that leaves the queue alone and brings no worker to poll().
LEMMA StaysClogged ==
    ASSUME Clogged, queue' = queue, up' = up,
           \A w \in Workers : ~(worker'[w].pc = "produced" /\ worker'[w].ok)
    PROVE  Clogged'
<1>1. Held' = Held
  BY DEF Held
<1> QED BY <1>1 DEF Clogged, Held

\* A clogged producer stays clogged until it is stopped.
LEMMA ClogStep == ASSUME IInv, Clogged, [ProducerNext]_producerVars
                  PROVE  Clogged' \/ ~up'
<1>1. up /\ \A m \in Messages : queue[m] # "queued"
  BY DEF Clogged, Held
<1>2. Cardinality(Held) \in Nat
  <2>1. Held \subseteq Messages /\ IsFiniteSet(Messages)
    BY KafkaAssumption DEF Held
  <2> QED BY <2>1, FS_Subset, FS_CardinalityType
<1>3. ~(Cardinality(Held) < QueueLimit)
  BY <1>2, KafkaAssumption DEF Clogged
<1>4. /\ worker \in [Workers -> WorkerRecords]
      /\ \A w \in Workers : ~(worker[w].pc = "produced" /\ worker[w].ok)
  BY DEF IInv, ProducerTypeOK, Clogged
<1>5. ASSUME NEW w \in Workers, NEW m \in Messages, HandleRequest(w, m)
      PROVE  Clogged'
  <2>1. queue' = queue /\ up' = up
    BY <1>5 DEF HandleRequest, processVars
  <2>2. \A u \in Workers : ~(worker'[u].pc = "produced" /\ worker'[u].ok)
    BY <1>4, <1>5 DEF HandleRequest, IdleWorker
  <2> QED BY <2>1, <2>2, StaysClogged
<1>6. ASSUME NEW w \in Workers, BeginProduce(w) PROVE Clogged'
  <2>1. queue' = queue /\ up' = up
    BY <1>6 DEF BeginProduce, processVars
  <2>2. \A u \in Workers : ~(worker'[u].pc = "produced" /\ worker'[u].ok)
    BY <1>4, <1>6 DEF BeginProduce, WorkerRecords
  <2> QED BY <2>1, <2>2, StaysClogged
<1>7. ASSUME NEW w \in Workers, Produce(w) PROVE Clogged'
  <2>1. /\ queue' = queue /\ up' = up
        /\ worker' = [worker EXCEPT ![w].pc = "produced", ![w].ok = FALSE]
    BY <1>3, <1>7 DEF Produce, processVars
  <2>2. \A u \in Workers : ~(worker'[u].pc = "produced" /\ worker'[u].ok)
    BY <1>4, <2>1 DEF WorkerRecords
  <2> QED BY <2>1, <2>2, StaysClogged
<1>8. ASSUME NEW w \in Workers, FinishProduce(w) PROVE Clogged'
  <2>1. queue' = queue /\ up' = up
    BY <1>4, <1>8 DEF FinishProduce, Polled, processVars
  <2>2. \A u \in Workers : ~(worker'[u].pc = "produced" /\ worker'[u].ok)
    BY <1>4, <1>8 DEF FinishProduce, WorkerRecords
  <2> QED BY <2>1, <2>2, StaysClogged
<1>9. ASSUME NEW w \in Workers, Respond(w) PROVE Clogged'
  <2>1. queue' = queue /\ up' = up
    BY <1>9 DEF Respond, processVars
  <2>2. \A u \in Workers : ~(worker'[u].pc = "produced" /\ worker'[u].ok)
    BY <1>4, <1>9 DEF Respond, IdleWorker
  <2> QED BY <2>1, <2>2, StaysClogged
<1>10. \A m \in Messages : ~Expire(m) /\ \A p \in Partitions : ~WriteRecord(m, p)
  BY <1>1 DEF Expire, WriteRecord
<1>11. CASE \/ BrokerFails \/ BrokerReturns \/ ProducerRegisters
            \/ UNCHANGED producerVars
  <2>1. queue' = queue /\ up' = up /\ worker' = worker
    BY <1>11 DEF BrokerFails, BrokerReturns, ProducerRegisters, producerVars,
                 requestVars, processVars
  <2> QED BY <2>1, <1>4, StaysClogged
<1>12. CASE ProducerRests
  BY <1>11, <1>12 DEF ProducerRests
<1>13. ProducerStops => ~up'
  BY DEF ProducerStops
<1>14. ~ProducerStarts
  BY <1>1 DEF ProducerStarts
<1> QED BY <1>5, <1>6, <1>7, <1>8, <1>9, <1>10, <1>11, <1>12, <1>13, <1>14
        DEF ProducerNext, WorkerStep

\* With poll() only behind a successful produce() (kafka_web_producer.cpp:73-80),
\* a queue full of reports is never served again.
THEOREM ClogIsForGood == ProducerSpec => ClogsForGood
<1>1. IInv /\ [ProducerNext]_producerVars
      => [Clogged => Clogged' \/ ~up']_producerVars
  BY ClogStep
<1> QED BY <1>1, Invariance, PTL DEF ProducerSpec, ClogsForGood

-----------------------------------------------------------------------------
(* KafkaProducer implements SpanProtocol. *)

\* Nothing is born at first.
LEMMA MapInit == ProducerInit => U!P!Init
<1>1. ProducerInit => \A m \in Messages : U!Blank(span[m])
  BY DEF ProducerInit, U!Blank, Unborn
<1> QED BY <1>1, U!BlankRecords

\* Every step is a step of the protocol, or changes no span.
LEMMA MapNext == IInv /\ [ProducerNext]_producerVars => [U!P!Next]_(U!P!vars)
<1> SUFFICES ASSUME IInv, [ProducerNext]_producerVars PROVE [U!P!Next]_(U!P!vars)
  OBVIOUS
<1>f. span = [m \in Messages |-> span[m]]
      /\ \A m \in Messages : span[m] \in SpanRecords
  BY DEF IInv, ProducerTypeOK
<1>1. ASSUME NEW w \in Workers, NEW m \in Messages, HandleRequest(w, m)
      PROVE  U!P!Next
  <2>1. PICK kind \in NewSpanKinds(ready, NoContext) :
           span' = [span EXCEPT ![m] = NewSpan(kind, NoContext)]
    BY <1>1 DEF HandleRequest
  <2> DEFINE v == NewSpan(kind, NoContext)
  <2>2. span[m] = Unborn
    BY <1>1 DEF IInv, MessageInv, HandleRequest
  <2>3. U!Becomes(m, v)
    BY <2>1, <1>f DEF U!Becomes
  <2>4. v.phase = "open" /\ span[m].phase = "none"
        /\ U!Keeps(m, v, {"stack", "error", "failed"})
    BY <2>2 DEF NewSpan, Unborn, U!Keeps
  <2> HIDE DEF v
  <2> QED BY <2>3, <2>4, U!MapStart
<1>2. ASSUME NEW w \in Workers, BeginProduce(w) PROVE U!P!Next
  <2> DEFINE m == worker[w].msg
             v == NewSpanEvent(span[m], ProduceEvent)
  <2>1. m \in Messages /\ span[m] \in SpanRecords /\ span[m].phase = "open"
    BY <1>2, Busy DEF BeginProduce, Progress
  <2>2. U!Becomes(m, v)
    BY <1>2, <2>1, <1>f DEF BeginProduce, U!Becomes
  <2>3. v.stack = Append(span[m].stack, ProduceEvent)
        /\ U!Keeps(m, v, {"phase", "error", "failed"})
    BY <2>1 DEF NewSpanEvent, SpanRecords, SpanType, U!Keeps
  <2> HIDE DEF v
  <2> QED BY <2>1, <2>2, <2>3, U!MapStartEvent
<1>3. ASSUME NEW w \in Workers, FinishProduce(w) PROVE U!P!Next
  <2> DEFINE m == worker[w].msg
             bad == ~worker[w].ok
             v == EndProduceEvent(span[m], worker[w].ok)
  <2>1. m \in Messages /\ span[m] \in SpanRecords /\ span[m].phase = "open"
        /\ span[m].stack = <<ProduceEvent>>
    BY <1>3, Busy DEF FinishProduce, Progress
  <2>2. U!Becomes(m, v)
    BY <1>3, <2>1, <1>f DEF FinishProduce, U!Becomes
  <2>3. /\ v.stack = SubSeq(span[m].stack, 1, Len(span[m].stack) - 1)
        /\ v.failed = IF bad THEN span[m].failed \cup {ProduceEvent} ELSE span[m].failed
        /\ U!Keeps(m, v, {"phase", "error"})
    BY <2>1 DEF EndProduceEvent, EndEvent, SpanRecords, SpanType, U!Keeps
  <2>4. span[m].stack # <<>> /\ span[m].stack[Len(span[m].stack)] = ProduceEvent
    BY <2>1, ShortStacks
  <2>5. bad \in BOOLEAN
    OBVIOUS
  <2> HIDE DEF v, bad
  <2> QED BY <2>1, <2>2, <2>3, <2>4, <2>5, U!MapEndEvent
<1>4. ASSUME NEW w \in Workers, Respond(w) PROVE U!P!Next
  <2> DEFINE m == worker[w].msg
             bad == ~worker[w].ok
             v == EndSpan(span[m], bad)
  <2>1. m \in Messages /\ span[m] \in SpanRecords /\ span[m].phase = "open"
        /\ span[m].stack = <<>>
    BY <1>4, Busy DEF Respond, Progress
  <2>2. U!Becomes(m, v)
    BY <1>4, <2>1, <1>f DEF Respond, U!Becomes
  <2>3. v.phase = "ended" /\ v.error = (span[m].error \/ bad)
        /\ U!Keeps(m, v, {"stack", "failed"})
    BY <2>1 DEF EndSpan, SpanRecords, SpanType, U!Keeps
  <2>4. bad \in BOOLEAN
    OBVIOUS
  <2> HIDE DEF v, bad
  <2> QED BY <2>1, <2>2, <2>3, <2>4, U!MapEnd
<1>5. CASE ProducerStops
  <2> DEFINE L == {m \in Messages : span[m].phase = "open"}
  <2>1. ASSUME NEW m \in Messages
        PROVE  /\ span'[m].phase = IF m \in L THEN "lost" ELSE span[m].phase
               /\ span'[m].stack = span[m].stack
               /\ span'[m].error = span[m].error
               /\ span'[m].failed = span[m].failed
    <3>1. span'[m] = Lose(span[m]) /\ span[m] \in SpanRecords
      BY <1>5, <1>f DEF ProducerStops
    <3> QED BY <3>1 DEF Lose, SpanRecords, SpanType
  <2>2. L \in SUBSET Messages /\ \A m \in L : span[m].phase = "open"
    OBVIOUS
  <2> HIDE DEF L
  <2> QED BY <2>1, <2>2, U!MapLose
<1>6. ASSUME \/ \E w \in Workers : Produce(w)
             \/ \E m \in Messages : \/ \E p \in Partitions : WriteRecord(m, p)
                                    \/ Expire(m)
             \/ BrokerFails \/ BrokerReturns \/ ProducerRegisters
             \/ ProducerStarts \/ ProducerRests \/ UNCHANGED producerVars
      PROVE  UNCHANGED U!P!vars
  <2>1. UNCHANGED span
    BY <1>6 DEF Produce, WriteRecord, Expire, BrokerFails, BrokerReturns,
       ProducerRegisters, ProducerStarts, ProducerRests, producerVars
  <2> QED BY <2>1, U!SameRecords
<1> QED BY <1>1, <1>2, <1>3, <1>4, <1>5, <1>6 DEF ProducerNext, WorkerStep

\* handle_run_producer and produce_message use the agent as SpanProtocol demands,
\* whatever is refused, expires or is lost in a stop: KafkaProducer implements
\* SpanProtocol.
THEOREM ImplementsSpanProtocol == ProducerSpec => ProducerFollowsSpanProtocol
BY Invariance, MapInit, MapNext, PTL
   DEF ProducerSpec, ProducerFollowsSpanProtocol, U!FollowsProtocol, U!P!Spec
=============================================================================
