# TLA+ models of pinpoint-cpp-examples

The repository holds small demo programs that show how to instrument C and C++
servers with the Pinpoint tracing agent. The agent itself is a library outside
the repository. What the programs must get right is how they *use* it: which
span a piece of work is recorded on, that spans and their events open and close
in the right order on every path, that the trace context travels with each
outgoing call or message, and that what the traces say agrees with what the
programs answered.

Everything here is checked with `tlc` and `tlapm`:

    tlc -config GrpcTrace_concurrent.cfg MCGrpcTrace.tla
    tlapm GrpcTraceProofs.tla

`PROJECT.json` lists the runs, the theorems, the map from every definition to
the lines it models, the mutants that show each property can fail, and the
hazards of the code.

## 1. Inventory

### The agent API

`pinpoint/tracer.h` (`pt_*` in C): `StartAgent` returns at once and registers
with the collector on a background thread; until then spans are dropped
(README.md, "Troubleshooting"). `NewSpan` opens a span, from the trace context
a reader finds in the request's headers or as a new root. `NewSpanEvent` pushes
an event on the span's stack, `EndEvent` pops it, `InjectContext` writes the
trace context of an event into outgoing headers, `SetError` marks an event or
the span, `EndSpan` delivers it. `ScopedSpanEvent` is the RAII form of an event.

### The programs

| component | state | operations | interacts with |
|---|---|---|---|
| **gRPC** client (`grpc_client.cpp`, interceptors) | thread-local span per HTTP worker; per RPC the interceptor's `parent_span_`, `span_event_` | `wrap_handler`, `handle_run_client`, three RPC helpers, two client hooks | RPCs to grpc_server on one shared channel |
| **gRPC** server (`grpc_server.cpp`, interceptors) | thread-local span per server thread; per RPC the interceptor's `span_` | four service methods, two server hooks | metadata of the RPCs |
| **Kafka** producer / consumer | librdkafka queue and delivery reports; consumer position and committed offsets; `run` flag | `handle_run_producer`, `produce_message`, `dr_cb`; consume loop, signal handler | message headers through the topic |
| **nginx** module | per worker process an agent; per request the upstream states | `init_process`, `exit_process`, LOG-phase handler | nginx worker lifecycle |
| **MySQL** demo | one `session_` in a global `DatabaseDemo`; thread-local span; table `demo_users` | `connect`, `runDemoHandler`, query helpers, two HTTP handlers | concurrent requests share session and table |
| **CivetWeb** demo | the agent handle, the server's worker threads | two traced handlers, `main` | server starts before its handlers exist |
| **curl** and **cpptrace** demos | thread-local span; outgoing header list | `handle_run_request`, `perform_curl_request`, `handle_outgoing` | a traced call to another server |
| **Redis**, **MongoDB** demos | one connection per request; thread-local span | a fixed sequence of commands, an event each | a store that may be down |
| **header carriers** | none (pure) | `Get`, `ForEach`, `Set` | every program above |
| **driver scripts** (`scripts/_lib.sh`, `*/run.sh`) | pid files, logs, ports, containers | `up`, `test`, `down`, waits with timeouts | the processes they start and stop |

Five of the HTTP demos carry the same `trace_request` / `wrap_handler` /
`trace_response` frame around their handler.

### What is hard, and what correct means

* **Context through a thread-local.** Workers are pooled: the active span must
  be the one of the request being served, must be gone when the thread goes
  idle, and must never be a span that has been delivered.
* **Nesting across functions and hooks.** Three events per request are opened
  and closed from three functions and two interceptor hooks, on success and on
  failure. The stack must balance, or every later event is misattributed.
* **Two processes, two agents.** Each registers on its own time and decides
  whether it records; a trace that crosses the boundary must be linked to the
  right parent or to none.
* **Broken connections and crashes.** The client may close an event while the
  server still works on the RPC; the server may die with spans open.
* **One failure, many records.** HTTP status, span error, event errors and the
  callee's error must tell one story.
* **Queues and offsets** (Kafka). The answer is given when a message is queued,
  long before it is delivered; places in the queue are freed by `poll()` alone;
  offsets are committed apart from processing; acknowledgements get lost.
* **Shared sessions** (MySQL). Two workers that run demos at once share one session
  pointer and one table, without a lock and without a transaction.
* **Process lifecycles** (nginx). Processes of two cycles live side by side, each
  with an agent of its own that registers late and must be shut down last.
* **Chains of programs** (curl, cpptrace, and whom they call). The context must
  travel on through every hop, abandoned calls are served all the same, and bounded
  pools can fill with calls to themselves.
* **Answers before the end** (CivetWeb). The peer may be gone before the span ends;
  stopping must wait for it.

## 2. Plan

Each module is written without RECURSIVE operators, one action per operation, so
that it can be proved about.

1. `AgentApi`, `SpanProtocol`, `SpanUse` (the API and its protocol), `GrpcTrace`.
2. `KafkaProducer`, and `KafkaPipeline`, which extends it with the consumer.
3. `MysqlDemo` (shared session and table), `NginxTrace` (processes, reload, LOG-phase
   spans) and `WebTrace` (curl, cpptrace, Redis, MongoDB and CivetWeb calling each
   other).
4. For each of them a module of proofs: `GrpcTraceProofs`, `KafkaProducerProofs`,
   `KafkaPipelineProofs`, `MysqlDemoProofs`, `NginxTraceProofs`, `WebTraceProofs`.

All of it is done: every invariant that a run checks is also proved, and every module
of span records but nginx's, which makes its spans at once, is proved to implement
`SpanProtocol`. So are a few facts that say how records may change: an answer of the
HTTP programs is never rewritten, a session once closed is not opened again, the
readings of a life go through a partition in order. What could be added: rebalancing
among several consumers, gRPC streams message by message, the driver scripts (section 6).

## 3. Modules

### AgentApi

The agent as the programs see it: a span is a record (phase, kind, parent,
error, failed events, stack of open events) and each API call a function on it.
No operator is guarded, so a program that calls out of order produces a record
that the properties reject. External to the repository; modelled from its use.

### SpanProtocol

The abstract specification: what any of the programs promises the agent. A span
starts once; events open and close innermost-first while it is open; it ends
once, with no event open; nothing touches it afterwards. Only the death of its
process leaves a span open for ever (`LoseAll`).

### SpanUse

The refinement mapping, stated once: it reads a function of span records as the
state of `SpanProtocol`, and proves that each change of one record that the API
can make (`MapStart`, `MapStartEvent`, `MapEndEvent`, `MapSetError`, `MapEnd`,
`MapLose`) is a step of the protocol. A program's module instantiates it, and
states `FollowsProtocol` of the instance as its property. It also says what that is
worth: from `FollowsProtocol` alone follow `BalancedRecords` (a span that has ended has
no event open) and `FinalRecords` (a span that is over stays as it is).

### GrpcTrace

| variable | code |
|---|---|
| `span` | the span records in both agents; `<<r, 0>>` belongs to the HTTP request, `<<r, k>>` to the server's side of its k-th RPC |
| `clientReady`, `serverReady` | the agents' registration (`StartAgent`) |
| `client[t]` | the HTTP worker: place in `wrap_handler` / `handle_run_client`, RPC index, `parent_span_`, the `*_ok` flags |
| `current`, `srvCurrent` | `g_current_span` per thread of each process |
| `response` | `res.status` |
| `rpc`, `metadata` | an RPC's progress and the context in its metadata |
| `up`, `crashes` | the grpc_server process |
| `server[t]` | a server thread: place between the hooks, `span_`, status |

Client actions in code order: `TraceRequest`, `EnterHandler`, then per RPC
`StartCall` (client hook before metadata), `RecvStatus` (client hook after
status), `CallReturns` (the helper), then `Reply` and `TraceResponse`. Server
actions: `AcceptCall` (hook after metadata), `EnterMethod`, `LeaveMethod`,
`SendStatus` (hook before status). Environment: registration, `LoseConnection`,
`ServerCrash`, `ServerRestart`. A step is what a thread does between two points
where another thread or process can observe or affect it.

An RPC is modelled by its status, not message by message: the hooks and
helpers look at nothing else. The three helpers differ only in how they move
messages, and the four service methods only in what they compute, so each
group is one action. `client_context()` is never null in these programs and
`NewSpan` never returns null, so those branches are left out.

`Done` is the rest state, so deadlock is checked.

### KafkaProducer

| variable | code |
|---|---|
| `span[m]` | the span of the request that brings message `m` |
| `worker[w]` | an HTTP worker: place in `handle_run_producer` / `produce_message`, the result of `produce()` |
| `response`, `headers` | `res.status`; the trace context in the message's headers |
| `queue[m]` | librdkafka's view of the message: queued, acked or expired (a report waits), served, dropped |
| `brokerUp`, `log`, `resends` | the broker, the partitions of `test-topic`, lost acknowledgements |
| `ready`, `up`, `kills` | the agent's registration and the process |

`HandleRequest` (NewSpan), `BeginProduce` (event, headers), `Produce`
(`produce()`, which refuses when `QueueLimit` messages hold a place),
`FinishProduce` (`poll()` and the report callback, or `SetError`; the event's
destructor), `Respond` (status, `SetError`, `EndSpan`). librdkafka and the broker:
`WriteRecord`, with or without its acknowledgement, and `Expire`. `poll()` is the
only place where reports are served, because `main` starts no other poller.
`ProducerStops` is a signal: `listen()` does not return, so `flush()` and
`Shutdown()` are never reached.

A request's own trace context is left out: a span that continues a trace from
outside has no parent among the modelled spans, as a root has none, and may be
sampled or not, as a root may.

### KafkaPipeline

Extends `KafkaProducer` with the consumer.

| variable | code |
|---|---|
| `reading[x]` | the consumer's span for a record, `x` naming partition, offset and life of the consumer |
| `consumer` | place in the loop of `main`, and the record in hand |
| `run` | the flag that `sigterm` clears |
| `position`, `committed` | offsets stored by `consume()` and committed by librdkafka |
| `consumerReady`, `life` | registration of the agent; stops so far |

`LoopTurns` tests `run`, `Consume` or `ConsumeFails` is `consume(1000)`,
`StartReading` is NewSpan over the record's headers, `BeginProcess` and
`FinishProcess` the inner scope, `EndReading` EndSpan, `LoopExits` the end with
`close()`. `AutoCommit` may come at any moment, because `enable.auto.commit` and
`enable.auto.offset.store` keep their defaults. `ConsumerCrashes` may too.

### MysqlDemo

| variable | code |
|---|---|
| `span[r]`, `response[r]` | the span and `res.status` of a request |
| `worker[w]` | an HTTP worker: place in the handler, `connect()` and the demo, the session it replaces (`old`), the one its statement runs on (`on`), whether another thread touched that one meanwhile (`raced`) |
| `session`, `live`, `connected` | `session_`; the session objects that exist; those the database still answers |
| `table` | `demo_users`: does it exist, and who is in it |
| `effects`, `company` | history: what a request's statements did; what it met |
| `dbUp`, `up`, `faults` | database, process, bound on outages and stops |

`connect()` is three steps, because another worker can come in between: `OpenSession`
builds the new session and reads the old pointer, `WriteNew` stores, `CloseOld`
destroys. A statement is two, `BeginStatement` and `Execute`. What the C++ standard
leaves undefined (`Undefined`: a session used after its end, closed twice, or used
by two threads) may do anything: the statement has its effect or not, is reported as
done or failed, or the process ends (`Crash`). `Statements` is a constant, so that a
run can take fewer than the fifteen of `RunDemoHandler`; names and emails go
together, so a user is a name.

Threads and their `current_span` are the subject of `GrpcTrace`, which has the same
`wrap_handler`; here and in `WebTrace` a handler uses the span of its request.

### NginxTrace

| variable | code |
|---|---|
| `cycle`, `config` | nginx's current cycle; `pinpoint_enable` and `pinpoint_config_file` of each |
| `process[p]` | a process: forked, told to quit, and its `g_agent` with the settings it got |
| `request[r]` | worker, start time, its tries at an upstream |
| `now`, `drift`, `offset` | the monotonic clock (`ngx_current_msec`); the wall clock's lead over it by rounding, and by having been set (`Wall` is their sum, `ngx_timeofday`) |
| `busy[r]`, `moved[r]` | history: the time upstreams really took; how far the wall clock was set meanwhile |
| `handles[r]`, `spans[r]` | what the agent returned when asked for a span; what the LOG handler recorded |
| `crashes` | bound |

`Fork` is `init_process`, `Exit` is `exit_process`, `Register` the asynchronous part
of `pt_start_agent`, `Subrequest` and `Complete` the LOG handler, one step because a
worker runs one handler at a time. `Reload`, `Retire`, `Crash`, `Accept`, `BeginTry`
and `EndTry` are nginx. `NewSpan` is the LOG handler's request for a span: the agent may
return none (:350), an unsampled one or a sampled one, and only the last leaves a record.

Two clocks meet in the upstream's event. The tries are timed (`response_time`, :295) by
nginx's monotonic clock in the version the example builds (1.28, `nginx/run.sh:18`); the
request's start (:356) and the event's end (:377) are wall-clock time, and :301
subtracts the one from the other. `Skew` is what two readings of them may differ by from
rounding to milliseconds, `Offsets` what the wall clock may be set off by, at any
moment; `Lag` what nginx's cached time, refreshed once per turn of its event loop, may
be behind the time the agent reads at the end of event and span. So the event's start
may lie before the span's, and `EventFitsSpan` says by how much: by the rounding and by
what the clock was set back. That the clock is set while a LOG handler runs is left out.
The event takes the `Total` of the tries, which is written as the number of their
`Ticks`: a sum by recursion could not be reasoned about. `busy` counts the same time
independently. The event's place is another matter: it ends at the LOG phase, which for
a slow client is later than the upstream's answer (:375 calls that close enough).

### WebTrace

| variable | code |
|---|---|
| `hop[<<u, d>>]` | the d-th call in the chain that user `u` started: the program that serves it, the headers it brought, place in the handler, command, whether the redisContext is broken, whom it calls, what came of it |
| `span`, `response` | its span; the status written to the caller |
| `wrong` | history: the events during which something failed |
| `ready`, `civetweb` | registered agents; the place of civetweb's `main` |
| `cuts` | bound on broken connections |

`UserSends` and `BeginCall` create a hop that waits for one of `PoolSize` threads
(`HasThread`); `TraceRequest` takes it. What follows depends on the program:
`HandleUsers`; `BeginCall` and one of `CallAnswered`, `CallDropped`, `CallTimesOut` and
`CallCut`; or `Connect`, `BeginCommand` and `EndCommand`. `LeaveHandler` and
`TraceResponse` end event and span. The programs differ as their code does: curl has
no handler event, no timeout, answers 500 and marks the span; cpptrace times out,
marks the handler's event and not the span, as its README says (`FailureOnSpan`), and
answers 200; redis stays broken once broken, mongo does not; civetweb answers before
its event and span end. `CivetwebStarts` is `mg_start` and the setting of handlers, the
root's before the others; `ServeUntraced` what a request meets meanwhile.

A relay makes one call per request, so a chain is a sequence. A call to a server
that is none of the programs (`elsewhere`) may be answered or fail.

## 4. Runs

| run | instance | what it shows |
|---|---|---|
| `grpc_concurrent` | 2 requests, 2 workers, 2 server threads, 1 RPC, 1 crash; symmetry | thread-local discipline, nesting, whole traces, refinement of `SpanProtocol`, frozen records, under every interleaving, lost connection, registration order and crash |
| `grpc_fair` | 1 request, 3 RPCs as in the code, 1 server thread, 1 crash, `FairSpec` | every mix of outcomes of the three RPCs is recorded consistently; requests end, server spans end |
| `kafka_queue` | 3 requests, 2 workers, queue of 2, 1 outage, 1 lost acknowledgement, 1 stop | answers, records and fate of messages agree; a clogged queue stays clogged; refinement |
| `kafka_refusal` | the same instance | expected violation: a message is refused with the broker up and nothing waiting for it |
| `kafka_trace` | 2 messages, 1 partition, 1 lost acknowledgement, 1 stop of the consumer | a stop costs at most one record its span or the end of it; records read again, duplicated and reordered keep their trace |
| `kafka_fair` | 1 message, 1 lost acknowledgement, 1 outage, 1 stop, `FairSpec` | every record is traced to its end, a consumer asked to stop does; refinement, producer and consumer together |
| `mysql_sessions` | 2 demos, 2 workers, 3 statements, 1 outage or stop, any number of crashes; symmetry | only demos that overlap can misuse or leak a session, or take users from each other; a demo alone reports the truth whatever was left behind; the trace has every failed statement; refinement |
| `mysql_report` | 1 worker, all statements, 1 outage | expected violation: "3 users inserted" though none was |
| `nginx_reload` | 1 request, 1 worker and a cache manager per cycle, 2 cycles, 1 crash, 1 tick, 1 try, one clock, `FairSpec` | traced once, agents where they belong, old cycles end |
| `nginx_times` | 1 request, 1 worker, 3 ticks, 2 tries, clocks up to 1 apart, a lag of 1, the wall clock set back by 2 and forward again | how long the upstream event is and where it may begin |
| `web_cpptrace_error` | 1 user, 2 hops, 2 threads per program, 1 command | expected violation: a failed call leaves no error on cpptrace's span |
| `web_chain` | 1 user, 3 hops, 1 thread per program, 2 commands, 1 broken connection, cpptrace registering late, `FairSpec` | one trace, calls nested in their events or failed on record, agreeing records, an orderly stop, every hop ends; refinement |

Bounds. Two requests on two workers are what it takes for one request's span to reach
another's RPC, and for a worker to be reused while the other is busy; two server threads
let an abandoned RPC overlap with another request's. One RPC per request is enough
there, because RPCs of one request are sequential; their sequence is the subject of
`grpc_fair`, with the code's number and one server thread, for which an RPC may have to
wait. One crash gives every position of the server threads at the moment of the crash
and a life after it. For Kafka, a queue of two with three requests is the least where
the queue is full while one worker is still on its way to `poll()` and another comes to
be refused; one outage fills it. Two messages are what it takes to confuse the headers
of two records, one lost acknowledgement duplicates a record around another, and one
stop, at every position, gives a second life that starts from whatever was committed.
For MySQL two demos on two workers give every overlap of two `connect()`s and of a
`connect()` with a statement; create, clear and one INSERT are what two demos can spoil
for each other. The fifteen statements of the code and a status request, which does
nothing but open and close its records, are in `mysql_report` and in the proofs. For
nginx one request sees everything, as workers share nothing: one reload, a crash before
or after it. Times are a run of their own, because they depend on neither: two tries of
which any may be untimed, with a pause, and a clock that can be set back by more than
rounding explains. In `web_chain` one thread per program makes the pool full as soon as
a chain comes back to a program, which three hops can do at once or by way of another;
with two commands a connection is lost before, at and after one. The proved properties,
which are all but the liveness ones, hold for all values of the constants.

Fairness. `ClientStep` and `ServerStep` are weakly fair per thread: the threads
of a live process are scheduled, and no modelled step waits for a lock. `Accept`
is weakly fair per RPC: a sync gRPC server that is up takes pending calls when a
thread is free. An RPC to a server that stays down fails (`UNAVAILABLE`). Not
assumed: that requests arrive, agents register, connections break or the server
comes back. The code sets no deadline on its calls; that a service method ends
is justified by the methods' code (they wait only for their own client).

In `KafkaPipeline` only `ConsumerLoop`, the main thread of the consumer, is weakly
fair. `EveryRecordTraced` supposes a consumer that stays up, is not asked to stop
and has the broker in reach from some time on; it does not suppose that anything
commits, restarts or registers.

In `NginxTrace` nginx forks, signals and reaps its processes, upstreams end (nginx times
them out), requests complete, and `exit_process` returns: that `pt_agent_shutdown` is
bounded is the library's affair, as it is CivetWeb's that `mg_stop` waits for its
threads (`WebTrace`). Not assumed: that agents register, so `OldCyclesEnd` holds for
workers whose agent never did.

In `WebTrace` each hop's thread is weakly fair, and civetweb's `main` while it sets up.
That includes that a server elsewhere answers or fails, which for curl nothing in the
code enforces, and that a store answers or fails a command: `redis_example.cpp` sets a
timeout for connecting only, and the MongoDB demo leaves timeouts to its driver. That a
call among the programs is answered is not assumed, only that threads run. `HopsEnd`
rests on cpptrace's timeout (mutant `HasTimeout_No`) and excepts one state,
`CurlClogged`: every thread of curl waits for a request that only curl can serve.

What the gRPC liveness run rests on: the runtime gives every RPC a final status.
`RequestsEnd` fails if broken connections gave none (mutant `Final_NoTransport`).

### What `kafka_refusal` shows

`produce_message` calls `poll(0)` only after a `produce()` that succeeded
(`kafka_web_producer.cpp:73-80`), and a settled message leaves the queue only when
`poll` has served its report. TLC's trace: the broker goes down, two requests fill
the queue, the broker returns and acknowledges both, and the third request is
refused with QUEUE_FULL although the broker is there and nothing waits for it. By
`ClogIsForGood` (proved) nothing but a stop of the process ends that state: every
later `GET /run_producer`, which by `kafka/README.md:36` "produces the message to
`test-topic`", is answered 500. With librdkafka's default limit it takes 100000
requests during an outage.

### What `mysql_report` shows

TLC's trace has one request and one worker: `connect()` succeeds, the database goes
away, every statement fails, each failure is caught in the query helper and recorded on
its event, and the answer is 200 with `"insert_data", "success", "3 users inserted"`
(`mysql_example.cpp:364`). The trace tells the truth, the answer does not. What remains
of the report: without an outage and without a second demo it is right
(`LoneReportIsTrue`); without an outage, a user who is missing was inserted by a demo
that overlapped too (`InsertedByOneOfThem`); and always, undefined behaviour apart, the
failed events of the trace are the statements without effect (`EventsAreTrue`).
(`mysql/README.md` also speaks of a transaction; the code has none.)

### What `web_cpptrace_error` shows

TLC's trace has a request to cpptrace whose outgoing call fails. `handle_outgoing` calls
`handler_scoped_span_event->SetError` (`cpptrace_example.cpp:246`), so the error and its
call stack are on the handler's event; the span ends without one.
`cpptrace/README.md:24` says that a failure "attaches the cpptrace stack to the span via
`SetError`", its line 3 and the comment at `cpptrace_example.cpp:222` speak of the span
as well. `RecordsAgree` states what the code does do in each program.

## 5. Proofs

`AgentApiProofs` holds what all proofs need of the API (types, short stacks),
`SpanUse` the mapping to `SpanProtocol`. Each of the other modules proves an inductive
invariant of one specification, and from it the properties of the runs. The invariants
were first model-checked on the instances of the runs.

### gRPC

`GrpcTraceProofs` proves, for every number of requests, threads, RPCs per
request and crashes, from `GrpcAssumption` alone (there is at least one RPC, and
the two "none" values are not members of the sets they stand apart from):

* `TypeCorrect` — `TypeOK`
* `OwnSpan` — `ThreadSeesOwnSpan`
* `Nesting` — `ServerSpanInsideCall`
* `Frozen` — `ClosedRecordsFrozen`
* `ImplementsSpanProtocol` — `Spec => P!Spec`, the refinement
* `WholeTrace` — `AnsweredTraceIsWhole`
* `Agreement` — `ErrorsAgree`

None of these is inductive. A thread's span being open, for instance, needs that
no *other* thread ends it, hence that no two threads serve one request; that an
accepted RPC starts a fresh span needs that a span exists only once its RPC was
accepted. `IInv` adds: the exact stack of open events at each place in the code
(`OpenEvents`), the RPCs a worker has still to send (`Unsent`), that workers and
server threads are apart, that a server span keeps pace with its RPC and a
pending RPC has a waiting caller (`CallInv`), and that unborn spans are blank.
The argument: two frame lemmas (`WorkerMoves`, `MethodMoves`) show that a step
which touches one thread and its own span keeps everybody else's part; each
action is then shown to be such a step, except `TraceRequest`, `TraceResponse`,
`AcceptCall`, `SendStatus`, `LoseConnection` and `ServerCrash`, which are done in
full. For the refinement each agent call is mapped to the abstract action of the
same meaning by the lemmas of `SpanUse`, using only `IInv`.

The last two compare records that are written at different times by different
processes, so they need more: `RecordsInv`, a second layer that rests on `IInv`. At
each place in the code the worker's flags and the errors of its span are those of the
RPCs behind it (`Notes`); a request that is answered has all its RPCs over (`Answered`);
the metadata is what its caller's span injects (`Carried`); the server's span was made
from it, and its error is one the caller sees (`Followed`). The argument is that what a
record was copied from is final by then: a status, once there, stays (`StatusStays`),
and a span keeps its kind and parent (origin) for good. So each action has only to be
shown for the records it writes.

### Kafka

`KafkaProducerProofs` proves, for every number of messages, workers and partitions,
every queue limit and all bounds, from `KafkaAssumption` (finitely many messages, a
limit of at least one, "none" values apart from the messages):

* `ProducerTypeCorrect` — `ProducerTypeOK`
* `AnswerTells` — `AnswerTellsFate`
* `ClogIsForGood` — `ClogsForGood`
* `ImplementsSpanProtocol` — `ProducerSpec => U!P!Spec`, the refinement.

`AnswerTellsFate` is not inductive: the answer is written at the end from a flag set
two steps earlier, while librdkafka moves the message on and other workers use the
queue. `IInv` fixes for each busy worker the stack, the errors and whether its
message is in librdkafka's hands (`Progress`), keeps workers on different messages
(`WorkersApart`), and lets only messages that were taken be written (`MessageInv`).
`WorkerMoves` and `QueueMove` are the frame lemmas for steps of a worker and of
librdkafka. `ClogStep` goes through all actions: with `poll()` out of reach none
frees a place.

`KafkaPipelineProofs` proves, from the same assumption and `StopsAssumption` (the number
of stops is a natural number):

* `PipeTypeCorrect` — `TypeOK`
* `TraceCrossesTheTopic` — `ReadingsDescend`
* `AtMostOneSkipPerStop` — `OneSkipPerStop`
* `AtMostOneLossPerStop` — `OneLossPerStop`
* `TracesInOrder` — `TracedInOrder`, which no run checks: a life goes through a
  partition in order
* `PipeImplementsSpanProtocol` — `Spec => All!P!Spec`, the refinement
* `PipeImplementsProducer` — `Spec => ProducerSpec`: what is proved of the producer holds
  beside a consumer too (`PipeKeepsProducersPromises`).

The producer's `IInv` is kept by the consumer's steps, which leave its variables alone.
On top of it, `TopicInv` lets each message that may be written carry the context of its
own request, and bounds a partition by the messages that are settled and the lost
acknowledgements, which is why offsets stay within `Readings`. `ReadingInv` has each
reading descend from the message it read and, in the life of the consumer that is
running, lie before its position; `HoldInv` fixes the record in hand. `SkipInv` counts:
the records that commits or the position have passed, without a span that has ended and
not in hand (from `consume()` to EndSpan), are no more than the stops. A stop can add
one, the record in hand; a commit adds none, as it never goes beyond the position; the
end of a span adds none, as the record goes out of hand just then. Both counting
properties follow: a record without a span is one without an ended span.
`OrderInv`, on top of that, says of the life that is running what `TracedInOrder` needs
when the next span starts: from the first record it has traced up to the position, each
has been traced to its end or is in hand. The refinement widens that of the producer: a
step of the producer is the same step among the spans of both.

### MySQL

`MysqlDemoProofs` proves, for any requests, workers and statements, from
`MysqlAssumption` (the statements are a non-empty sequence of known ones):

* `TypeCorrect` — `TypeOK`
* `SessionIsLive` — `SessionNeverDangles`
* `UndefinedTakesTwo` — `UndefinedNeedsTwo`
* `LeakTakesTwo` — `LeakNeedsTwo`
* `LoneReport` — `LoneReportIsTrue`
* `EventsTellTheTruth` — `EventsAreTrue`
* `UsersAreShared` — `InsertedByOneOfThem`
* `SessionsGoForGood` — no run: a session of a demo that is past `connect()`, once
  replaced in `session_` or closed, never comes back
* `ImplementsSpanProtocol` — `Spec => U!P!Spec`, the refinement.

The invariant has layers, each resting on some before. `ServiceInv`: workers are on
different requests, the place in the code fixes the open events. `SessionInv`: a demo
stores its session once, so what a worker has read as the old session is one that was
stored and, when it is to be closed, replaced for good; nothing that is still to be
stored can be closed. `CompanyInv`: a demo that has met no other has `session_` to
itself from `connect()` to its last statement, and a session that is neither there nor
on its way in or out was leaked by two. `ReportsInv`: a demo that met neither another
demo nor an outage has had exactly the effects of the statements behind it, and finds
the table ready for those ahead (`TableReady`), whatever it looked like before.
`RecordsInv`: of a demo that met no undefined behaviour, the failed events are those of
the statements behind it without effect, whatever else it met. `ReachesInv`: while no
demo has met an outage, a demo past `connect()` reaches the database on the session that
`session_` holds, its own or that of a demo that replaced it. `SharesInv`: once such a
demo has cleared the table, every user in it was inserted by that demo or by another
with company (`InsertedAround`); an INSERT that fails then finds such a user, since only
a demo running at the same time can have put it there after the DELETE.

`ReportsInv` and `SharesInv` are true only of statements that create the table first,
clear it before they insert, and insert each user once (`SetsUpFirst`); `LoneReport` and
`UsersAreShared` assume it, and `LoneReportOfRunDemo` and `UsersAreSharedInRunDemo` show
that the fifteen statements of the code are such.

### nginx

`NginxTraceProofs` proves, for any number of cycles, workers, requests, tries and
crashes and any configurations, from `NginxAssumption`:

* `NginxTypeCorrect` — `TypeOK`
* `OnceTraced` — `TracedOnce`
* `EventFits` — `EventFitsSpan`
* `TracedByItsCycle` — `AgentsWhereTraced`

`ProcessInv` ties a process's agent and its settings to its own cycle. `RequestInv` has
a request served by a process that is up, with a ready agent if it began with one, and
describes what is there of a request that is done (`Logged`): at most one answer of the
agent, and one span, with its event (`Reports`), if that answer was a sampled one.
`TimeInv` says where the upstreams' time went: the ticks of the finished tries and what
has gone by of the one that runs (`Pending`) are no more than `busy`, and equal to it if
every try was timed. It is shown by what one more try adds to `Ticks`. Its part
`ClockInv` relates the two clocks: the wall clock has moved on since the request's start
by no less than `moved`, and the monotonic one, set right by `offset`, by no less than
`busy` and `moved` but for `Skew`. That the event lies inside the span does not follow
and is not claimed.

### The HTTP programs

`WebTraceProofs` proves, for chains of any depth, pools of any size and any number of
commands, from `WebAssumption`:

* `WebTypeCorrect` — `TypeOK`
* `NothingLost` — `StopLosesNothing`
* `OneTrace` — `ChainIsOneTrace`
* `CallsAreNested` — `CallsNest`
* `OneStory` — `RecordsAgree`
* `AnswersAreFinal` — no run: an answer that was given is never rewritten
* `WebImplementsSpanProtocol` — `Spec => U!P!Spec`, the refinement.

`WebInv` has two parts. `Says` is about one hop: the places of its own program, the open
events at each, the span's origin in the headers, what each program makes of a failure
(`Blames`) and what it answers. `Tied` is about a call: the headers are what the
caller's span injects, and a call that came back well was answered. With it a hop that
has not answered has a caller that still waits, within the event of the call, or one
that gave up, and `Blames` says where that is on record (`CallsNest`). An action changes
one hop or one hop and its callee; the frame lemmas leave all others as they were. That
civetweb loses nothing follows because its `main` shuts the agent down only when no
thread of it is left in a handler.

### What following the protocol gives

`PipeRecordsAreFinal`, and `RecordsAreFinal` and `WebRecordsAreFinal` of the MySQL and
HTTP programs, draw from their refinements what `SpanUse` proves of any program that
follows the protocol. `Frozen` of gRPC says as much of the whole record.

### Model-checked only

Liveness, which is out of the prover's reach: `RequestsEnd`, `ServerSpansEnd`,
`EveryRecordTraced`, `StopsWhenAsked`, `OldCyclesEnd` and `HopsEnd`. And the three
properties that the code or a document of it violates, `ProducesWhenBrokerReady`,
`ReportIsTrue` and `FailureOnSpan`. All other properties are proved, for every value of
the bounds (outages, crashes, stops, ticks) that the models have and the code has not;
what the models leave out is the next section.

## 6. Not modelled

The agent's internals (batching, the collector protocol); message contents, annotations,
URLs and other recorded text; the health and reflection services; `Shutdown` after
`listen` (the programs are stopped by signals they do not handle, so it is not reached);
crashes of the HTTP programs of `WebTrace`, whose frame around a handler is that of
`GrpcTrace` and `MysqlDemo`, where processes do end; rebalancing of a Kafka consumer
group, of which the demo starts one member; Kafka's own replication; the messages of a
gRPC stream one by one. Header lookup, call stacks, SQL and URLs are data that no
property tells apart. `runDemo` of the MySQL example is declared and never defined.
Build files, container definitions and `init.sql` are declarative. The driver scripts'
state is the operating system's (processes, ports, files); their hazards are listed in
`PROJECT.json`.
