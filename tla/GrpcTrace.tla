----------------------------- MODULE GrpcTrace -----------------------------
(***************************************************************************)
(* The distributed trace of the gRPC example.                              *)
(*                                                                         *)
(* grpc_client is an HTTP server whose worker threads run wrap_handler     *)
(* around handle_run_client; the handler makes its RPCs in order, each one *)
(* traced by PinpointClientInterceptor.  grpc_server runs every RPC on one *)
(* of its threads between the two hooks of PinpointServerInterceptor.      *)
(* Both sides pass the active span through a thread-local variable.  The   *)
(* two agents register with the collector at any time, connections break,  *)
(* and the gRPC server may crash and be restarted.                         *)
(***************************************************************************)
EXTENDS AgentApi

CONSTANTS Requests,        \* the HTTP requests GET /run_client
          ClientThreads,   \* worker threads of grpc_client's HTTP server
          ServerThreads,   \* threads that run grpc_server's RPCs
          LastCall,        \* RPCs per request: 3 in the code
          MaxCrashes,      \* bound on crashes of grpc_server
          NoRequest

ASSUME GrpcAssumption ==
    /\ LastCall \in Nat \ {0}
    /\ MaxCrashes \in Nat
    /\ NoRequest \notin Requests
    /\ NoSpan \notin Requests \X (0 .. LastCall)

Calls == Requests \X (1 .. LastCall)      \* the k-th RPC of a request

\* <<r, 0>> is the span of the HTTP request r, <<r, k>> the one the server
\* starts for its k-th RPC.
Spans == Requests \X (0 .. LastCall)

\* Event 0 is the handler's or the service method's scoped event; event k of
\* an HTTP span is the one the interceptor opens for RPC k.
Events == 0 .. LastCall

VARIABLES span,          \* span[s]: the span as the agents have recorded it
          clientReady,   \* the agent of grpc_client is registered
          serverReady,   \* the agent of grpc_server is registered
          client,        \* client[t]: what an HTTP worker thread is doing
          current,       \* current[t]: g_current_span of that thread
          response,      \* response[r]: the HTTP status, "none" before it is set
          rpc,           \* rpc[c]: progress and final status of an RPC
          metadata,      \* metadata[c]: trace context in the RPC's metadata
          up,            \* grpc_server is running
          crashes,       \* its crashes so far
          server,        \* server[t]: what a server thread is doing
          srvCurrent     \* srvCurrent[t]: g_current_span of that thread

clientVars == <<client, current, response>>
serverVars == <<server, srvCurrent>>
agentVars  == <<clientReady, serverReady>>
processVars == <<up, crashes>>
vars == <<span, agentVars, clientVars, rpc, metadata, processVars, serverVars>>

HttpSpan(r) == <<r, 0>>

\* An HTTP worker: the request it serves, the RPC it is at, the span held by
\* the interceptor of that RPC (parent_span_) and the RPCs that returned OK.
IdleClient == [pc |-> "idle", request |-> NoRequest, call |-> 0,
               parent |-> NoSpan, good |-> {}]

\* A server thread: the RPC it runs, its interceptor's span_ and the status.
IdleServer == [pc |-> "idle", call |-> NoSpan, held |-> NoSpan, ok |-> TRUE]

Init == /\ span = [s \in Spans |-> Unborn]
        /\ clientReady = FALSE
        /\ serverReady = FALSE
        /\ client = [t \in ClientThreads |-> IdleClient]
        /\ current = [t \in ClientThreads |-> NoSpan]
        /\ response = [r \in Requests |-> "none"]
        /\ rpc = [c \in Calls |-> "none"]
        /\ metadata = [c \in Calls |-> NoContext]
        /\ up = TRUE
        /\ crashes = 0
        /\ server = [t \in ServerThreads |-> IdleServer]
        /\ srvCurrent = [t \in ServerThreads |-> NoSpan]

-----------------------------------------------------------------------------
(* Registration completes on a background thread of each agent. *)

ClientRegisters == /\ ~clientReady
                   /\ clientReady' = TRUE
                   /\ UNCHANGED <<span, serverReady, clientVars, rpc, metadata,
                                  processVars, serverVars>>

ServerRegisters == /\ up
                   /\ ~serverReady
                   /\ serverReady' = TRUE
                   /\ UNCHANGED <<span, clientReady, clientVars, rpc, metadata,
                                  processVars, serverVars>>

-----------------------------------------------------------------------------
(* grpc_client: wrap_handler, handle_run_client and the client interceptor. *)

CallOf(t) == <<client[t].request, client[t].call>>

\* The thread-local span, for its own thread.
SetCurrentSpan_Shared(t, s) == [u \in ClientThreads |-> s]          \* mutant
SetCurrentSpan(t, s) == [current EXCEPT ![t] = s]
ClearCurrentSpan_Forgotten(t) == current                            \* mutant
ClearCurrentSpan(t) == [current EXCEPT ![t] = NoSpan]

\* ScopedSpanEvent's destructor, after SetError on the event when bad.
EndScopedEvent_Leaked(s, bad) == s                                  \* mutant
EndScopedEvent(s, bad) == EndEvent(s, 0, bad)

\* A worker takes a request: trace_request, then SetCurrentSpan.
TraceRequest(t, r) ==
    /\ client[t].pc = "idle"
    /\ span[HttpSpan(r)].phase = "none"
    /\ \E kind \in NewSpanKinds(clientReady, NoContext) :
          span' = [span EXCEPT ![HttpSpan(r)] = NewSpan(kind, NoContext)]
    /\ client' = [client EXCEPT ![t] = [IdleClient EXCEPT !.pc = "traced",
                                                          !.request = r]]
    /\ current' = SetCurrentSpan(t, HttpSpan(r))
    /\ UNCHANGED <<agentVars, response, rpc, metadata, processVars, serverVars>>

\* handle_run_client opens its scoped event on the thread's span.
EnterHandler(t) ==
    /\ client[t].pc = "traced"
    /\ span' = [span EXCEPT ![current[t]] = NewSpanEvent(@, 0)]
    /\ client' = [client EXCEPT ![t].pc = "ready", ![t].call = 1]
    /\ UNCHANGED <<agentVars, current, response, rpc, metadata, processVars,
                   serverVars>>

\* What the interceptor's writer adds to the metadata of an RPC.
InjectedContext_SampledOnly(parent) ==                              \* mutant
    IF span[parent].kind = "sampled" THEN InjectContext(span[parent], parent)
    ELSE NoContext
InjectedContext(parent) == InjectContext(span[parent], parent)

\* PRE_SEND_INITIAL_METADATA: the interceptor asserts that there is a parent,
\* opens an event on it and injects its context; then the call is sent.
StartCall(t) ==
    LET c == CallOf(t)
        parent == current[t]
    IN  /\ client[t].pc = "ready"
        /\ parent # NoSpan
        /\ span' = [span EXCEPT ![parent] = NewSpanEvent(@, client[t].call)]
        /\ metadata' = [metadata EXCEPT ![c] = InjectedContext(parent)]
        /\ rpc' = [rpc EXCEPT ![c] = "sent"]
        /\ client' = [client EXCEPT ![t].pc = "waiting", ![t].parent = parent]
        /\ UNCHANGED <<agentVars, current, response, processVars, serverVars>>

\* The states of an RPC whose status the client has.
Final_OnMetadata == {"ok", "error", "broken", "accepted"}           \* mutant
Final_NoTransport == {"ok", "error"}                                \* mutant
Final == {"ok", "error", "broken"}

\* POST_RECV_STATUS: the interceptor marks a failed event and ends it.
RecvStatus(t) ==
    /\ client[t].pc = "waiting"
    /\ rpc[CallOf(t)] \in Final
    /\ span' = [span EXCEPT ![client[t].parent] =
                  EndEvent(@, client[t].call, rpc[CallOf(t)] # "ok")]
    /\ client' = [client EXCEPT ![t].pc = "returned"]
    /\ UNCHANGED <<agentVars, current, response, rpc, metadata, processVars,
                   serverVars>>

HasMore_OffByOne(k) == k <= LastCall                                \* mutant
HasMore(k) == k < LastCall

\* CallUnary, CallServerStreaming and CallBidirectional after the RPC: a
\* failure is recorded on the span, and the handler goes on with the next.
CallReturns(t) ==
    LET ok == rpc[CallOf(t)] = "ok"
        k  == client[t].call
    IN  /\ client[t].pc = "returned"
        /\ span' = [span EXCEPT ![HttpSpan(client[t].request)] = SetError(@, ~ok)]
        /\ client' = [client EXCEPT
                        ![t].pc = IF HasMore(k) THEN "ready" ELSE "reply",
                        ![t].call = IF HasMore(k) THEN k + 1 ELSE 0,
                        ![t].parent = NoSpan,
                        ![t].good = IF ok THEN @ \cup {k} ELSE @]
        /\ UNCHANGED <<agentVars, current, response, rpc, metadata, processVars,
                       serverVars>>

\* unary_ok && stream_ok && bidi_ok
Success_Any(t) == client[t].good # {}                               \* mutant
Success(t) == client[t].good = 1 .. LastCall

\* The end of handle_run_client: the status, SetError on the scoped event
\* unless every RPC succeeded, and the event's destructor.
Reply(t) ==
    LET r == client[t].request
    IN  /\ client[t].pc = "reply"
        /\ response' = [response EXCEPT ![r] =
                          IF Success(t) THEN "200" ELSE "502"]
        /\ span' = [span EXCEPT ![HttpSpan(r)] = EndScopedEvent(@, ~Success(t))]
        /\ client' = [client EXCEPT ![t].pc = "respond"]
        /\ UNCHANGED <<agentVars, current, rpc, metadata, processVars, serverVars>>

\* trace_response ends the span, then ClearCurrentSpan.
TraceResponse(t) ==
    /\ client[t].pc = "respond"
    /\ span' = [span EXCEPT ![HttpSpan(client[t].request)] = EndSpan(@, FALSE)]
    /\ current' = ClearCurrentSpan(t)
    /\ client' = [client EXCEPT ![t] = IdleClient]
    /\ UNCHANGED <<agentVars, response, rpc, metadata, processVars, serverVars>>

-----------------------------------------------------------------------------
(* grpc_server: the service methods between the server interceptor's hooks. *)

\* The server sees an RPC once.
Deliverable(c) == rpc[c] = "sent"

\* POST_RECV_INITIAL_METADATA: NewSpan from the RPC's metadata, kept in span_,
\* and SetCurrentSpan.
AcceptCall(t, c) ==
    /\ up
    /\ server[t].pc = "idle"
    /\ Deliverable(c)
    /\ \E kind \in NewSpanKinds(serverReady, metadata[c]) :
          span' = [span EXCEPT ![c] = NewSpan(kind, metadata[c])]
    /\ server' = [server EXCEPT ![t] = [pc |-> "accepted", call |-> c,
                                        held |-> c, ok |-> TRUE]]
    /\ srvCurrent' = [srvCurrent EXCEPT ![t] = c]
    /\ rpc' = [rpc EXCEPT ![c] = "accepted"]
    /\ UNCHANGED <<agentVars, clientVars, metadata, processVars>>

\* A method of HelloServiceImpl opens its scoped event on the thread's span.
EnterMethod(t) ==
    /\ server[t].pc = "accepted"
    /\ span' = [span EXCEPT ![srvCurrent[t]] = NewSpanEvent(@, 0)]
    /\ server' = [server EXCEPT ![t].pc = "method"]
    /\ UNCHANGED <<agentVars, clientVars, rpc, metadata, processVars, srvCurrent>>

\* The method returns Status::OK and the event's destructor runs; gRPC turns
\* an exception that escapes the method into a status that is not OK.
LeaveMethod(t) ==
    /\ server[t].pc = "method"
    /\ span' = [span EXCEPT ![srvCurrent[t]] = EndScopedEvent(@, FALSE)]
    /\ \E ok \in BOOLEAN :
          server' = [server EXCEPT ![t].pc = "status", ![t].ok = ok]
    /\ UNCHANGED <<agentVars, clientVars, rpc, metadata, processVars, srvCurrent>>

\* The span the interceptor holds ends, if it holds one.
EndHeldSpan_NotIfCut(t) ==                                          \* mutant
    IF server[t].held = NoSpan \/ rpc[server[t].call] = "broken" THEN span
    ELSE [span EXCEPT ![server[t].held] = EndSpan(@, ~server[t].ok)]
EndHeldSpan(t) ==
    IF server[t].held = NoSpan THEN span
    ELSE [span EXCEPT ![server[t].held] = EndSpan(@, ~server[t].ok)]

\* PRE_SEND_STATUS: SetError if the status is not OK, EndSpan, span_.reset()
\* and ClearCurrentSpan; then the status goes out, on a connection that may
\* have been lost.
SendStatus(t) ==
    LET c == server[t].call
    IN  /\ server[t].pc = "status"
        /\ span' = EndHeldSpan(t)
        /\ server' = [server EXCEPT ![t] = IdleServer]
        /\ srvCurrent' = [srvCurrent EXCEPT ![t] = NoSpan]
        /\ rpc' = [rpc EXCEPT ![c] = IF @ = "broken" THEN @
                                     ELSE IF server[t].ok THEN "ok" ELSE "error"]
        /\ UNCHANGED <<agentVars, clientVars, metadata, processVars>>

-----------------------------------------------------------------------------
(* The connection and the server process. *)

\* The connection of a pending RPC breaks, or is refused by a server that is
\* down: the client's status is UNAVAILABLE.
LoseConnection(c) ==
    /\ rpc[c] \in {"sent", "accepted"}
    /\ rpc' = [rpc EXCEPT ![c] = "broken"]
    /\ UNCHANGED <<span, agentVars, clientVars, metadata, processVars, serverVars>>

\* Every span grpc_server holds is lost, every accepted RPC is cut.
ServerCrash ==
    /\ up
    /\ crashes < MaxCrashes
    /\ up' = FALSE
    /\ crashes' = crashes + 1
    /\ serverReady' = FALSE
    /\ span' = [s \in Spans |-> IF s \in Calls THEN Lose(span[s]) ELSE span[s]]
    /\ server' = [t \in ServerThreads |-> IdleServer]
    /\ srvCurrent' = [t \in ServerThreads |-> NoSpan]
    /\ rpc' = [c \in Calls |-> IF rpc[c] = "accepted" THEN "broken" ELSE rpc[c]]
    /\ UNCHANGED <<clientReady, clientVars, metadata>>

ServerRestart ==
    /\ ~up
    /\ up' = TRUE
    /\ UNCHANGED <<span, agentVars, clientVars, rpc, metadata, crashes, serverVars>>

-----------------------------------------------------------------------------

ClientStep(t) == \/ EnterHandler(t)
                 \/ StartCall(t)
                 \/ RecvStatus(t)
                 \/ CallReturns(t)
                 \/ Reply(t)
                 \/ TraceResponse(t)

ServerStep(t) == \/ EnterMethod(t)
                 \/ LeaveMethod(t)
                 \/ SendStatus(t)

Accept(c) == \E t \in ServerThreads : AcceptCall(t, c)

\* Every request is served and the server is at rest: the only rest state.
Done == /\ \A r \in Requests : span[HttpSpan(r)].phase = "ended"
        /\ \A t \in ServerThreads : server[t].pc = "idle"
        /\ UNCHANGED vars

Next == \/ ClientRegisters
        \/ ServerRegisters
        \/ \E t \in ClientThreads : \/ \E r \in Requests : TraceRequest(t, r)
                                    \/ ClientStep(t)
        \/ \E t \in ServerThreads : ServerStep(t)
        \/ \E c \in Calls : Accept(c) \/ LoseConnection(c)
        \/ ServerCrash
        \/ ServerRestart
        \/ Done

Spec == Init /\ [][Next]_vars

\* Threads of a live process run; a server that is up accepts what was sent;
\* an RPC sent to a server that stays down fails.  Nothing makes a request
\* arrive, an agent register, a connection break, or the server restart.
Fairness ==
    /\ \A t \in ClientThreads : WF_vars(ClientStep(t))
    /\ \A t \in ServerThreads : WF_vars(ServerStep(t))
    /\ \A c \in Calls : /\ WF_vars(Accept(c))
                        /\ WF_vars(~up /\ LoseConnection(c))

FairSpec == Spec /\ Fairness
-----------------------------------------------------------------------------
(* Properties. *)

WorkerType ==
    [pc : {"idle", "traced", "ready", "waiting", "returned", "reply", "respond"},
     request : Requests \cup {NoRequest}, call : Events,
     parent : Spans \cup {NoSpan}, good : SUBSET (1 .. LastCall)]

MethodType ==
    [pc : {"idle", "accepted", "method", "status"}, call : Calls \cup {NoSpan},
     held : Calls \cup {NoSpan}, ok : BOOLEAN]

ContextType == [kind : Kinds \cup {"none"}, from : Spans \cup {NoSpan}]

TypeOK ==
    /\ span \in [Spans -> SpanType(Spans, Events)]
    /\ clientReady \in BOOLEAN /\ serverReady \in BOOLEAN
    /\ client \in [ClientThreads -> WorkerType]
    /\ current \in [ClientThreads -> Spans \cup {NoSpan}]
    /\ response \in [Requests -> {"none", "200", "502"}]
    /\ rpc \in [Calls -> {"none", "sent", "accepted"} \cup Final]
    /\ metadata \in [Calls -> ContextType]
    /\ up \in BOOLEAN
    /\ crashes \in 0 .. MaxCrashes
    /\ server \in [ServerThreads -> MethodType]
    /\ srvCurrent \in [ServerThreads -> Calls \cup {NoSpan}]

\* The span a thread finds in its thread-local is the open span of the very
\* request or RPC it serves, and a thread that serves nothing holds none: no
\* span leaks from one request into the next on a pooled thread, and the
\* client interceptor's assertion never fires.
ThreadSeesOwnSpan ==
    /\ \A t \in ClientThreads :
          IF client[t].pc = "idle" THEN current[t] = NoSpan
          ELSE /\ current[t] = HttpSpan(client[t].request)
               /\ span[current[t]].phase = "open"
    /\ \A t \in ServerThreads :
          IF server[t].pc = "idle" THEN srvCurrent[t] = NoSpan
          ELSE /\ srvCurrent[t] = server[t].call
               /\ span[srvCurrent[t]].phase = "open"

\* While the server works on an RPC whose connection holds, the caller's event
\* for that RPC is open and innermost on the caller's span: a server span lies
\* within the client event it descends from.
ServerSpanInsideCall ==
    \A c \in Calls :
        span[c].phase = "open" /\ rpc[c] # "broken"
        => LET caller == span[HttpSpan(c[1])]
           IN  /\ caller.phase = "open"
               /\ caller.stack = <<0, c[2]>>

\* A request answered 200 has left one whole trace: every server span has
\* ended, and where both agents were registered it follows the caller's
\* sampling decision, linked to the span of its own request and of no other.
AnsweredTraceIsWhole ==
    \A r \in Requests : response[r] = "200" =>
        \A k \in 1 .. LastCall :
            LET root == span[HttpSpan(r)]
                callee == span[<<r, k>>]
            IN  /\ callee.phase = "ended"
                /\ root.kind # "noop" /\ callee.kind # "noop"
                   => /\ callee.kind = root.kind
                      /\ callee.parent = IF root.kind = "sampled"
                                         THEN HttpSpan(r) ELSE NoSpan

\* Every record of a failure agrees once the trace is closed: the HTTP status,
\* the error on the span, the one on the handler's event, and the one on the
\* event of each RPC; and no error the server recorded is missing at the caller.
ErrorsAgree ==
    \A r \in Requests : span[HttpSpan(r)].phase = "ended" =>
        LET root == span[HttpSpan(r)]
            bad == {k \in 1 .. LastCall : rpc[<<r, k>>] # "ok"}
        IN  /\ response[r] = IF bad = {} THEN "200" ELSE "502"
            /\ root.error = (bad # {})
            /\ root.failed = bad \cup (IF bad = {} THEN {} ELSE {0})
            /\ \A k \in 1 .. LastCall : span[<<r, k>>].error => k \in bad

\* A span that was delivered or lost never changes again, and the metadata of
\* an RPC is never rewritten under the server that reads it.
ClosedRecordsFrozen ==
    [][/\ \A s \in Spans : span[s].phase \in {"ended", "lost"} => span'[s] = span[s]
       /\ \A c \in Calls : rpc[c] # "none" => metadata'[c] = metadata[c]]_vars

\* The state of the agents that SpanProtocol speaks of.
U == INSTANCE SpanUse

\* Both programs use the agent as it is meant to be used (SpanProtocol): every
\* span starts once, its events nest, it ends once with no event left open.
FollowsSpanProtocol == U!FollowsProtocol

\* Every request that a worker has taken is answered and its span delivered,
\* whatever connections break and however the server crashes.
RequestsEnd ==
    \A r \in Requests :
        (span[HttpSpan(r)].phase = "open")
            ~> (span[HttpSpan(r)].phase = "ended" /\ response[r] # "none")

\* Every span the server starts is delivered, or lost with the server, also
\* when the client has given up on the RPC.
ServerSpansEnd ==
    \A c \in Calls :
        (span[c].phase = "open") ~> (span[c].phase \in {"ended", "lost"})
=============================================================================
