--------------------------- MODULE KafkaProducer ---------------------------
(***************************************************************************)
(* kafka_web_producer: HTTP workers that run handle_run_producer, the      *)
(* queue of the librdkafka producer they share, and the topic.             *)
(*                                                                         *)
(* A produced message holds a place in the queue until its delivery report *)
(* has been served, and reports are served by poll() alone.  The broker    *)
(* comes and goes, an acknowledgement may be lost so that librdkafka sends *)
(* the message again, and the process may be stopped: nothing after        *)
(* listen() is reached then, neither flush() nor Shutdown().               *)
(***************************************************************************)
EXTENDS AgentApi, FiniteSets

CONSTANTS Messages,       \* one for each HTTP request GET /run_producer
          Workers,        \* worker threads of the HTTP server
          Partitions,     \* partitions of test-topic
          QueueLimit,     \* queue.buffering.max.messages
          MaxResends,     \* bound on lost acknowledgements
          MaxOutages,     \* bound on outages of the broker
          MaxKills,       \* bound on stops of the producer
          NoMessage

ASSUME KafkaAssumption ==
    /\ IsFiniteSet(Messages)
    /\ QueueLimit \in Nat \ {0}
    /\ MaxResends \in Nat /\ MaxOutages \in Nat /\ MaxKills \in Nat
    /\ NoMessage \notin Messages
    /\ NoSpan \notin Messages

VARIABLES span,        \* span[m]: the span of the request that brings m
          ready,       \* the producer's agent is registered
          up,          \* the producer process is running
          worker,      \* worker[w]: what an HTTP worker thread is doing
          response,    \* response[m]: the HTTP status, "none" before it is set
          headers,     \* headers[m]: trace context in the message's headers
          queue,       \* queue[m]: the message as librdkafka knows it
          brokerUp,    \* the broker is reachable
          outages,     \* its outages so far
          log,         \* log[p]: the records of a partition
          resends,     \* acknowledgements lost so far
          kills        \* stops of the producer so far

requestVars == <<worker, response, headers>>
brokerVars == <<brokerUp, outages, log, resends>>
processVars == <<ready, up, kills>>
producerVars == <<span, requestVars, queue, brokerVars, processVars>>

ProduceEvent == 0      \* the scoped event KafkaProduce

IdleWorker == [pc |-> "idle", msg |-> NoMessage, ok |-> TRUE]

ProducerInit == /\ span = [m \in Messages |-> Unborn]
                /\ ready = FALSE
                /\ up = TRUE
                /\ worker = [w \in Workers |-> IdleWorker]
                /\ response = [m \in Messages |-> "none"]
                /\ headers = [m \in Messages |-> NoContext]
                /\ queue = [m \in Messages |-> "none"]
                /\ brokerUp = TRUE
                /\ outages = 0
                /\ log = [p \in Partitions |-> <<>>]
                /\ resends = 0
                /\ kills = 0

-----------------------------------------------------------------------------
(* handle_run_producer and produce_message. *)

\* A worker takes a request: NewSpan.
HandleRequest(w, m) ==
    /\ up
    /\ worker[w].pc = "idle"
    /\ span[m].phase = "none"
    /\ \E kind \in NewSpanKinds(ready, NoContext) :
          span' = [span EXCEPT ![m] = NewSpan(kind, NoContext)]
    /\ worker' = [worker EXCEPT ![w] = [IdleWorker EXCEPT !.pc = "traced",
                                                          !.msg = m]]
    /\ UNCHANGED <<response, headers, queue, brokerVars, processVars>>

\* What the writer adds to the headers of the message.
InjectedContext(m) == InjectContext(span[m], m)

\* produce_message opens its scoped event and prepares the headers.
BeginProduce(w) ==
    LET m == worker[w].msg
    IN  /\ worker[w].pc = "traced"
        /\ span' = [span EXCEPT ![m] = NewSpanEvent(@, ProduceEvent)]
        /\ headers' = [headers EXCEPT ![m] = InjectedContext(m)]
        /\ worker' = [worker EXCEPT ![w].pc = "produce"]
        /\ UNCHANGED <<response, queue, brokerVars, processVars>>

\* The messages that hold a place in the queue.
Held == {m \in Messages : queue[m] \in {"queued", "acked", "expired"}}

\* produce(): the message is queued, or refused with QUEUE_FULL.
Produce(w) ==
    /\ worker[w].pc = "produce"
    /\ \/ /\ Cardinality(Held) < QueueLimit
          /\ queue' = [queue EXCEPT ![worker[w].msg] = "queued"]
          /\ worker' = [worker EXCEPT ![w].pc = "produced", ![w].ok = TRUE]
       \/ /\ Cardinality(Held) >= QueueLimit
          /\ worker' = [worker EXCEPT ![w].pc = "produced", ![w].ok = FALSE]
          /\ UNCHANGED queue
    /\ UNCHANGED <<span, response, headers, brokerVars, processVars>>

\* poll(0) runs dr_cb, which only logs, for every report that is waiting.
ServedReports_Erased ==                                             \* mutant
    [m \in {x \in Messages : queue[x] \notin {"acked", "expired"}} |-> queue[m]]
ServedReports == [m \in Messages |-> IF queue[m] \in {"acked", "expired"}
                                     THEN "served" ELSE queue[m]]

\* poll() runs when the message was queued, not when it was refused.
Polled_Always(ok) == ServedReports                                  \* mutant
Polled(ok) == IF ok THEN ServedReports ELSE queue

\* ScopedSpanEvent's destructor runs on both exits, after SetError on a refusal.
EndProduceEvent_Silent(s, ok) == EndEvent(s, ProduceEvent, FALSE)   \* mutant
EndProduceEvent_Leaked(s, ok) ==                                    \* mutant
    IF ok THEN EndEvent(s, ProduceEvent, FALSE) ELSE s
EndProduceEvent(s, ok) == EndEvent(s, ProduceEvent, ~ok)

\* The rest of produce_message: poll or SetError, then the event's destructor.
FinishProduce(w) ==
    /\ worker[w].pc = "produced"
    /\ queue' = Polled(worker[w].ok)
    /\ span' = [span EXCEPT ![worker[w].msg] = EndProduceEvent(@, worker[w].ok)]
    /\ worker' = [worker EXCEPT ![w].pc = "respond"]
    /\ UNCHANGED <<response, headers, brokerVars, processVars>>

\* The answer, SetError on the span after a refusal, and EndSpan.
Respond(w) ==
    LET m == worker[w].msg
    IN  /\ worker[w].pc = "respond"
        /\ response' = [response EXCEPT ![m] =
                          IF worker[w].ok THEN "200" ELSE "500"]
        /\ span' = [span EXCEPT ![m] = EndSpan(@, ~worker[w].ok)]
        /\ worker' = [worker EXCEPT ![w] = IdleWorker]
        /\ UNCHANGED <<headers, queue, brokerVars, processVars>>

-----------------------------------------------------------------------------
(* librdkafka's own threads, the broker and the process. *)

Records(p) == {log[p][i] : i \in 1 .. Len(log[p])}

Written == UNION {Records(p) : p \in Partitions}

\* A queued message is written to its partition, which librdkafka picks once.
\* When the acknowledgement is lost it will be sent again.
WriteRecord(m, p) ==
    /\ up /\ brokerUp
    /\ queue[m] = "queued"
    /\ \A q \in Partitions \ {p} : m \notin Records(q)
    /\ log' = [log EXCEPT ![p] = Append(@, m)]
    /\ \/ /\ queue' = [queue EXCEPT ![m] = "acked"]
          /\ UNCHANGED resends
       \/ /\ resends < MaxResends
          /\ resends' = resends + 1
          /\ UNCHANGED queue
    /\ UNCHANGED <<span, requestVars, brokerUp, outages, processVars>>

\* message.timeout.ms passes while the broker cannot be reached.
Expire(m) ==
    /\ up /\ ~brokerUp
    /\ queue[m] = "queued"
    /\ queue' = [queue EXCEPT ![m] = "expired"]
    /\ UNCHANGED <<span, requestVars, brokerVars, processVars>>

BrokerFails == /\ brokerUp
               /\ outages < MaxOutages
               /\ brokerUp' = FALSE
               /\ outages' = outages + 1
               /\ UNCHANGED <<span, requestVars, queue, log, resends, processVars>>

BrokerReturns == /\ ~brokerUp
                 /\ brokerUp' = TRUE
                 /\ UNCHANGED <<span, requestVars, queue, outages, log, resends,
                                processVars>>

ProducerRegisters == /\ up /\ ~ready
                     /\ ready' = TRUE
                     /\ UNCHANGED <<span, requestVars, queue, brokerVars, up, kills>>

\* A signal ends the process inside listen(): open spans and the queue are lost.
ProducerStops ==
    /\ up
    /\ kills < MaxKills
    /\ up' = FALSE
    /\ ready' = FALSE
    /\ kills' = kills + 1
    /\ span' = [m \in Messages |-> Lose(span[m])]
    /\ worker' = [w \in Workers |-> IdleWorker]
    /\ queue' = [m \in Messages |-> IF m \in Held THEN "dropped" ELSE queue[m]]
    /\ UNCHANGED <<response, headers, brokerVars>>

ProducerStarts == /\ ~up
                  /\ up' = TRUE
                  /\ UNCHANGED <<span, requestVars, queue, brokerVars, ready, kills>>

-----------------------------------------------------------------------------

WorkerStep(w) == \/ BeginProduce(w)
                 \/ Produce(w)
                 \/ FinishProduce(w)
                 \/ Respond(w)

\* Every request has had its turn: the program waits for more.
ProducerRests == /\ \A m \in Messages : span[m].phase \in {"ended", "lost"}
                 /\ UNCHANGED producerVars

ProducerNext == \/ \E w \in Workers : \/ \E m \in Messages : HandleRequest(w, m)
                                      \/ WorkerStep(w)
                \/ \E m \in Messages : \/ \E p \in Partitions : WriteRecord(m, p)
                                       \/ Expire(m)
                \/ BrokerFails
                \/ BrokerReturns
                \/ ProducerRegisters
                \/ ProducerStops
                \/ ProducerStarts
                \/ ProducerRests

ProducerSpec == ProducerInit /\ [][ProducerNext]_producerVars
-----------------------------------------------------------------------------
(* Properties. *)

SpanRecords == SpanType(Messages, {ProduceEvent})
WorkerRecords == [pc : {"idle", "traced", "produce", "produced", "respond"},
                  msg : Messages \cup {NoMessage}, ok : BOOLEAN]
Headers == [kind : Kinds \cup {"none"}, from : Messages \cup {NoSpan}]
Fates == {"none", "queued", "acked", "expired", "served", "dropped"}

ProducerTypeOK ==
    /\ span \in [Messages -> SpanRecords]
    /\ ready \in BOOLEAN /\ up \in BOOLEAN /\ brokerUp \in BOOLEAN
    /\ worker \in [Workers -> WorkerRecords]
    /\ response \in [Messages -> {"none", "200", "500"}]
    /\ headers \in [Messages -> Headers]
    /\ queue \in [Messages -> Fates]
    /\ log \in [Partitions -> Seq(Messages)]
    /\ outages \in 0 .. MaxOutages
    /\ resends \in 0 .. MaxResends
    /\ kills \in 0 .. MaxKills

\* The answer, the span, its event and the fate of the message agree: a request
\* answered 200 has a message that librdkafka took and a span without errors;
\* one answered 500 has errors on both and a message that reaches no partition,
\* then or later.
AnswerTellsFate ==
    \A m \in Messages :
        /\ response[m] = "200" => /\ queue[m] # "none"
                                  /\ ~span[m].error /\ span[m].failed = {}
        /\ response[m] = "500" => /\ queue[m] = "none" /\ m \notin Written
                                  /\ span[m].error
                                  /\ span[m].failed = {ProduceEvent}

\* The queue holds nothing but reports, to its last place, and no worker is on
\* its way to poll().
Clogged == /\ up
           /\ Cardinality(Held) >= QueueLimit
           /\ \A m \in Held : queue[m] # "queued"
           /\ \A w \in Workers : ~(worker[w].pc = "produced" /\ worker[w].ok)

\* poll() is reached only through a successful produce(), so a clogged producer
\* stays clogged whatever the broker does: only a stop of the process ends it.
ClogsForGood == [][Clogged => Clogged' \/ ~up']_producerVars

Refused(w) == worker[w].pc = "produce" /\ worker'[w].pc = "produced" /\ ~worker'[w].ok

\* GET /run_producer "produces the message to test-topic" (kafka/README.md:36):
\* with the broker there and no message waiting for it, nor a worker about to
\* poll, a message is not refused.  The code violates it.
ProducesWhenBrokerReady ==
    [][\A w \in Workers : Refused(w) => ~brokerUp \/ ~Clogged]_producerVars

U == INSTANCE SpanUse WITH Spans <- Messages, Events <- {ProduceEvent}

\* The producer uses the agent as SpanProtocol demands, refused messages and
\* stops included.
ProducerFollowsSpanProtocol == U!FollowsProtocol
=============================================================================
