--------------------------- MODULE KafkaPipeline ---------------------------
(***************************************************************************)
(* The Kafka example from end to end: kafka_web_producer, the topic, and   *)
(* kafka_consumer, which starts a span for each record it reads from the   *)
(* trace context in the record's headers.                                  *)
(*                                                                         *)
(* consume() stores the offset of the record it returns, and librdkafka    *)
(* commits stored offsets in the background: before, during or after the   *)
(* processing of the record.  The consumer may crash anywhere, or be asked *)
(* to stop by SIGINT or SIGTERM, and may be started again.                 *)
(***************************************************************************)
EXTENDS KafkaProducer

CONSTANT MaxStops        \* bound on stops of the consumer

ASSUME StopsAssumption == MaxStops \in Nat

VARIABLES reading,        \* reading[x]: the consumer's span of a record
          consumerReady,  \* the consumer's agent is registered
          consumer,       \* what the consumer's main thread is doing
          run,            \* the flag that the signal handler clears
          position,       \* position[p]: records of p the consumer has taken
          committed,      \* committed[p]: the group's offset at the broker
          life            \* stops of the consumer so far

consumerVars == <<reading, consumerReady, consumer, run, position, committed, life>>
vars == <<producerVars, consumerVars>>

\* A reading is the i-th record of partition p read in one life of the
\* consumer; it reads a record at most once in a life.
Readings == Partitions \X (1 .. Cardinality(Messages) + MaxResends)
                       \X (0 .. MaxStops)

Spans == Messages \cup Readings

ProcessEvent == 1      \* the scoped event ProcessMessage
Events == {ProduceEvent, ProcessEvent}

NoReading == NoSpan

Off == [pc |-> "off", at |-> NoReading]

Init == /\ ProducerInit
        /\ reading = [x \in Readings |-> Unborn]
        /\ consumerReady = FALSE
        /\ consumer = Off
        /\ run = TRUE
        /\ position = [p \in Partitions |-> 0]
        /\ committed = [p \in Partitions |-> 0]
        /\ life = 0

MessageOf(x) == log[x[1]][x[2]]

-----------------------------------------------------------------------------
(* The main loop of kafka_consumer. *)

\* auto.offset.reset is "earliest": a group without an offset starts at 0.
StartOffset_Next(p) == committed[p] + 1                             \* mutant
StartOffset_Latest(p) == Len(log[p])                                \* mutant
StartOffset(p) == committed[p]

ConsumerStarts ==
    /\ consumer.pc = "off"
    /\ consumer' = [Off EXCEPT !.pc = "loop"]
    /\ run' = TRUE
    /\ position' = [p \in Partitions |-> StartOffset(p)]
    /\ UNCHANGED <<producerVars, reading, consumerReady, committed, life>>

ConsumerRegisters == /\ consumer.pc # "off" /\ ~consumerReady
                     /\ consumerReady' = TRUE
                     /\ UNCHANGED <<producerVars, reading, consumer, run, position,
                                    committed, life>>

\* The loop's condition: run is volatile, so that every turn reads it again.
KeepsRunning_Hoisted == TRUE                                        \* mutant
KeepsRunning == run

\* while (run): consume(1000) is called; a signal that comes now is seen after it.
LoopTurns == /\ consumer.pc = "loop" /\ KeepsRunning
             /\ consumer' = [consumer EXCEPT !.pc = "waiting"]
             /\ UNCHANGED <<producerVars, reading, consumerReady, run, position,
                            committed, life>>

\* The next record of some partition is returned and its offset stored.
Consume(p) ==
    /\ consumer.pc = "waiting"
    /\ position[p] < Len(log[p])
    /\ position' = [position EXCEPT ![p] = @ + 1]
    /\ consumer' = [pc |-> "consumed", at |-> <<p, position[p] + 1, life>>]
    /\ UNCHANGED <<producerVars, reading, consumerReady, run, committed, life>>

\* Nothing came within the time, or the broker cannot be reached.
ConsumeFails ==
    /\ consumer.pc = "waiting"
    /\ brokerUp => \A p \in Partitions : position[p] = Len(log[p])
    /\ consumer' = [consumer EXCEPT !.pc = "loop"]
    /\ UNCHANGED <<producerVars, reading, consumerReady, run, position, committed,
                   life>>

\* The headers travel with their record.
ReadContext_OfLast(x) == headers[log[x[1]][Len(log[x[1]])]]         \* mutant
ReadContext(x) == headers[MessageOf(x)]

\* NewSpan with a reader over the record's headers.
StartReading ==
    LET x == consumer.at
    IN  /\ consumer.pc = "consumed"
        /\ \E kind \in NewSpanKinds(consumerReady, ReadContext(x)) :
              reading' = [reading EXCEPT ![x] = NewSpan(kind, ReadContext(x))]
        /\ consumer' = [consumer EXCEPT !.pc = "traced"]
        /\ UNCHANGED <<producerVars, consumerReady, run, position, committed, life>>

BeginProcess ==
    /\ consumer.pc = "traced"
    /\ reading' = [reading EXCEPT ![consumer.at] = NewSpanEvent(@, ProcessEvent)]
    /\ consumer' = [consumer EXCEPT !.pc = "process"]
    /\ UNCHANGED <<producerVars, consumerReady, run, position, committed, life>>

\* The inner scope ends the event before EndSpan.
EndProcess_AfterEndSpan(s) == s                                     \* mutant
EndProcess(s) == EndEvent(s, ProcessEvent, FALSE)

FinishProcess ==
    /\ consumer.pc = "process"
    /\ reading' = [reading EXCEPT ![consumer.at] = EndProcess(@)]
    /\ consumer' = [consumer EXCEPT !.pc = "processed"]
    /\ UNCHANGED <<producerVars, consumerReady, run, position, committed, life>>

EndReading_NoEndSpan ==                                             \* mutant
    /\ consumer.pc = "processed"
    /\ consumer' = [consumer EXCEPT !.pc = "loop", !.at = NoReading]
    /\ UNCHANGED <<producerVars, reading, consumerReady, run, position, committed, life>>
EndReading ==
    /\ consumer.pc = "processed"
    /\ reading' = [reading EXCEPT ![consumer.at] = EndSpan(@, FALSE)]
    /\ consumer' = [consumer EXCEPT !.pc = "loop", !.at = NoReading]
    /\ UNCHANGED <<producerVars, consumerReady, run, position, committed, life>>

\* The loop ends; close() commits the stored offsets if it reaches the broker.
LoopExits ==
    /\ consumer.pc = "loop" /\ ~KeepsRunning
    /\ life < MaxStops
    /\ life' = life + 1
    /\ consumer' = Off
    /\ consumerReady' = FALSE
    /\ committed' = IF brokerUp THEN position ELSE committed
    /\ UNCHANGED <<producerVars, reading, run, position>>

-----------------------------------------------------------------------------
(* Signals, crashes and the background commit. *)

Sigterm == /\ consumer.pc # "off" /\ run
           /\ life < MaxStops
           /\ run' = FALSE
           /\ UNCHANGED <<producerVars, reading, consumerReady, consumer, position,
                          committed, life>>

ConsumerCrashes ==
    /\ consumer.pc # "off"
    /\ life < MaxStops
    /\ life' = life + 1
    /\ consumer' = Off
    /\ consumerReady' = FALSE
    /\ reading' = [x \in Readings |-> Lose(reading[x])]
    /\ UNCHANGED <<producerVars, run, position, committed>>

\* enable.auto.commit
AutoCommit == /\ consumer.pc # "off" /\ brokerUp
              /\ committed # position
              /\ committed' = position
              /\ UNCHANGED <<producerVars, reading, consumerReady, consumer, run,
                             position, life>>

-----------------------------------------------------------------------------

ConsumerLoop == \/ LoopTurns
                \/ ConsumeFails
                \/ \E p \in Partitions : Consume(p)
                \/ StartReading
                \/ BeginProcess
                \/ FinishProcess
                \/ EndReading
                \/ LoopExits

Next == \/ ProducerNext /\ UNCHANGED consumerVars
        \/ ConsumerLoop
        \/ ConsumerStarts
        \/ ConsumerRegisters
        \/ Sigterm
        \/ ConsumerCrashes
        \/ AutoCommit

Spec == Init /\ [][Next]_vars

\* The consumer's main thread runs.  Nothing sends requests or signals, registers
\* an agent, brings the broker back or starts a consumer that stopped.
FairSpec == Spec /\ WF_vars(ConsumerLoop)
-----------------------------------------------------------------------------
(* Properties. *)

TypeOK ==
    /\ ProducerTypeOK
    /\ reading \in [Readings -> SpanType(Spans, Events)]
    /\ consumerReady \in BOOLEAN /\ run \in BOOLEAN
    /\ consumer \in [pc : {"off", "loop", "waiting", "consumed", "traced", "process",
                           "processed"},
                     at : Readings \cup {NoReading}]
    /\ \A p \in Partitions : position[p] \in 0 .. Len(log[p])
    /\ \A p \in Partitions : committed[p] \in 0 .. Len(log[p])
    /\ life \in 0 .. MaxStops

\* Every reading of a record, first, duplicate or repeated after a restart,
\* continues the trace of the request that brought its message: it keeps the
\* request's sampling decision, and its parent is that request's span.
ReadingsDescend ==
    \A x \in Readings : reading[x].phase # "none" =>
        LET root == span[MessageOf(x)]
        IN  /\ root.phase # "none"
            /\ reading[x].kind # "noop" /\ root.kind # "noop"
               => /\ reading[x].kind = root.kind
                  /\ reading[x].parent = IF root.kind = "sampled"
                                         THEN MessageOf(x) ELSE NoSpan

Started(p, i) == \E n \in 0 .. MaxStops : reading[<<p, i, n>>].phase # "none"

\* The records the group has moved past without a span for them.
Skipped == {r \in Partitions \X (1 .. Cardinality(Messages) + MaxResends) :
               r[2] <= committed[r[1]] /\ ~Started(r[1], r[2])}

\* A record can be skipped, because its offset may be committed before its span
\* starts; but no more than one for each stop of the consumer, and the one it
\* holds.
OneSkipPerStop == Cardinality(Skipped) <= life + (IF consumer.pc = "consumed"
                                                  THEN 1 ELSE 0)

\* The records the group has moved past and no life of the consumer has traced to
\* the end of their span.
Finished(p, i) == \E n \in 0 .. MaxStops : reading[<<p, i, n>>].phase = "ended"
Unfinished == {r \in Partitions \X (1 .. Cardinality(Messages) + MaxResends) :
                  r[2] <= committed[r[1]] /\ ~Finished(r[1], r[2])}

\* Commits run ahead of the processing, but the group never passes more than the
\* record in hand that is not traced: whatever is lost, by a crash in the middle of
\* a span or before it, is one record for each stop.
OneLossPerStop ==
    Cardinality(Unfinished) <= life + (IF consumer.pc \in {"off", "loop", "waiting"}
                                       THEN 0 ELSE 1)

\* Within a life the consumer traces the records of a partition in their order: it
\* leaves none out, and the span of each has ended before the next one's begins.
TracedInOrder ==
    \A p \in Partitions, n \in 0 .. MaxStops :
        \A i, j, k \in 1 .. Cardinality(Messages) + MaxResends :
            /\ i <= j /\ j < k
            /\ reading[<<p, i, n>>].phase # "none" /\ reading[<<p, k, n>>].phase # "none"
            => reading[<<p, j, n>>].phase = "ended"

AllSpans == [s \in Spans |-> IF s \in Messages THEN span[s] ELSE reading[s]]

All == INSTANCE SpanUse WITH span <- AllSpans

\* Producer and consumer use the agent as SpanProtocol demands: each reading has
\* a span of its own that ends once, with its event closed.
FollowsSpanProtocol == All!FollowsProtocol

\* A consumer that stays up with the broker in reach traces every record to its
\* end, unless the group's offset had passed the record in an earlier life.
EveryRecordTraced ==
    <>[](consumer.pc # "off" /\ run /\ brokerUp) =>
        \A p \in Partitions, i \in 1 .. Cardinality(Messages) + MaxResends :
            (i <= Len(log[p]))
                ~> \/ \E n \in 0 .. MaxStops : reading[<<p, i, n>>].phase = "ended"
                   \/ consumer.pc = "loop" /\ i <= committed[p]

\* A consumer asked to stop does stop, also when the signal comes in the middle
\* of a record, and leaves no span open.
StopsWhenAsked ==
    (~run /\ consumer.pc # "off")
        ~> (consumer.pc = "off" /\ \A x \in Readings : reading[x].phase # "open")
=============================================================================
