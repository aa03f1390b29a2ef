-------------------------- MODULE GrpcTraceProofs --------------------------
(***************************************************************************)
(* Proofs about GrpcTrace, for any number of requests, threads, RPCs per   *)
(* request and server crashes.                                             *)
(***************************************************************************)
EXTENDS GrpcTrace, AgentApiProofs, TLAPS

-----------------------------------------------------------------------------
(* The inductive invariant. *)

\* The events a worker has open on the span of its request.
OpenEvents(w) == IF w.pc \in {"traced", "respond"} THEN <<>>
                 ELSE IF w.pc = "waiting" THEN <<0, w.call>>
                 ELSE <<0>>

\* The RPCs a worker has still to send.
Unsent(w) == {k \in 1 .. LastCall :
                 \/ w.pc = "traced"
                 \/ w.pc = "ready" /\ k >= w.call
                 \/ w.pc \in {"waiting", "returned"} /\ k > w.call}

WorkerInv(t) ==
    LET w == client[t]
        s == HttpSpan(w.request)
    IN  IF w.pc = "idle" THEN w = IdleClient /\ current[t] = NoSpan
        ELSE /\ w.request \in Requests
             /\ current[t] = s
             /\ span[s].phase = "open"
             /\ span[s].stack = OpenEvents(w)
             /\ w.pc \in {"ready", "waiting", "returned"} => w.call \in 1 .. LastCall
             /\ w.pc = "waiting" => w.parent = s
             /\ \A k \in Unsent(w) : rpc[<<w.request, k>>] = "none"

\* No request is served twice, and one that is not yet served has sent nothing.
WorkersApart ==
    /\ \A t, u \in ClientThreads :
          client[t].pc # "idle" /\ client[u].pc # "idle"
          /\ client[t].request = client[u].request => t = u
    /\ \A r \in Requests : span[HttpSpan(r)].phase = "none" =>
          \A k \in 1 .. LastCall : rpc[<<r, k>>] = "none"

MethodInv(t) ==
    LET w == server[t]
    IN  IF w.pc = "idle" THEN w = IdleServer /\ srvCurrent[t] = NoSpan
        ELSE /\ w.call \in Calls
             /\ w.held = w.call
             /\ srvCurrent[t] = w.call
             /\ span[w.call].phase = "open"
             /\ span[w.call].stack = IF w.pc = "method" THEN <<0>> ELSE <<>>
             /\ rpc[w.call] \in {"accepted", "broken"}

MethodsApart == \A t, u \in ServerThreads :
    server[t].pc # "idle" /\ server[u].pc # "idle"
    /\ server[t].call = server[u].call => t = u

\* The server's span of an RPC keeps pace with the RPC, and one that is pending
\* has its caller waiting.
CallInv(c) ==
    /\ rpc[c] \in {"none", "sent"} => span[c].phase = "none"
    /\ rpc[c] \in {"ok", "error"} => span[c].phase = "ended"
    /\ rpc[c] \in {"sent", "accepted"} =>
          \E t \in ClientThreads : client[t].pc = "waiting" /\ CallOf(t) = c

UnbornInv == \A s \in Spans : span[s].phase = "none" => span[s] = Unborn

IInv == /\ TypeOK
        /\ \A t \in ClientThreads : WorkerInv(t)
        /\ WorkersApart
        /\ \A t \in ServerThreads : MethodInv(t)
        /\ MethodsApart
        /\ \A c \in Calls : CallInv(c)
        /\ UnbornInv

-----------------------------------------------------------------------------
(* Steps that move one worker, or one server thread, within its work. *)

\* The span of a request is never the span of an RPC, and names its request.
LEMMA SpanNames ==
    /\ \A r \in Requests : HttpSpan(r) \in Spans /\ HttpSpan(r) \notin Calls
    /\ \A q, r \in Requests : HttpSpan(q) = HttpSpan(r) => q = r
    /\ Calls \subseteq Spans
    /\ NoSpan \notin Spans
    /\ \A c \in Calls : c = <<c[1], c[2]>> /\ c[1] \in Requests /\ c[2] \in 1 .. LastCall
    /\ \A r \in Requests, k \in 1 .. LastCall : <<r, k>> \in Calls
BY GrpcAssumption DEF HttpSpan, Spans, Calls

\* A step of the busy worker t to w that changes no span but its own, and at
\* most sends the RPC it now waits for.
WorkerMove(t, w) ==
    /\ client[t].pc # "idle" /\ w.pc # "idle"
    /\ w.request = client[t].request
    /\ client' = [client EXCEPT ![t] = w]
    /\ UNCHANGED <<current, server, srvCurrent>>
    /\ client[t].pc = "waiting" => rpc[CallOf(t)] \in Final
    /\ span'[HttpSpan(w.request)].phase = "open"
    /\ span'[HttpSpan(w.request)].stack = OpenEvents(w)
    /\ \A x \in Spans : x # HttpSpan(w.request) => span'[x] = span[x]
    /\ w.pc \in {"ready", "waiting", "returned"} => w.call \in 1 .. LastCall
    /\ w.pc = "waiting" => w.parent = HttpSpan(w.request)
    /\ \A c \in Calls :
          \/ rpc'[c] = rpc[c]
          \/ /\ c = <<w.request, w.call>> /\ w.pc = "waiting"
             /\ rpc[c] = "none" /\ rpc'[c] = "sent"
    /\ \A k \in Unsent(w) : rpc'[<<w.request, k>>] = "none"

\* Such a step keeps the invariant.
LEMMA WorkerMoves ==
    ASSUME IInv, TypeOK', NEW t \in ClientThreads, NEW w, WorkerMove(t, w)
    PROVE  IInv'
<1> USE DEF WorkerMove
<1> DEFINE s == HttpSpan(w.request)
<1>1. w.request \in Requests /\ current[t] = s /\ span[s].phase = "open"
      /\ WorkersApart
  BY DEF IInv, WorkerInv
<1>2. client \in [ClientThreads -> WorkerType]
  BY DEF IInv, TypeOK
<1>3. client'[t] = w /\ \A u \in ClientThreads : u # t => client'[u] = client[u]
  BY <1>2
<1>4. \A u \in ClientThreads : WorkerInv(u)'
  <2> SUFFICES ASSUME NEW u \in ClientThreads PROVE WorkerInv(u)'
    OBVIOUS
  <2>1. CASE u = t
    BY <2>1, <1>1, <1>3 DEF WorkerInv
  <2>2. CASE u # t /\ client[u].pc = "idle"
    BY <2>2, <1>3 DEF IInv, WorkerInv
  <2>3. CASE u # t /\ client[u].pc # "idle"
    <3> DEFINE q == client[u].request
    <3>1. WorkerInv(u) /\ client'[u] = client[u] /\ q # w.request
      BY <2>3, <1>1, <1>3 DEF IInv, WorkersApart
    <3>2. q \in Requests /\ HttpSpan(q) # s /\ HttpSpan(q) \in Spans
      BY <2>3, <3>1, <1>1, SpanNames DEF WorkerInv
    <3>3. span'[HttpSpan(q)] = span[HttpSpan(q)]
      BY <3>2
    <3>4. \A k \in 1 .. LastCall : rpc'[<<q, k>>] = rpc[<<q, k>>]
      BY <3>1, <3>2, SpanNames
    <3>5. \A k \in Unsent(client[u]) : rpc'[<<q, k>>] = "none"
      BY <2>3, <3>1, <3>4 DEF WorkerInv, Unsent
    <3> QED BY <2>3, <3>1, <3>2, <3>3, <3>5 DEF WorkerInv
  <2> QED BY <2>1, <2>2, <2>3
<1>5. WorkersApart'
  <2>1. \A u, v \in ClientThreads :
           client'[u].pc # "idle" /\ client'[v].pc # "idle"
           /\ client'[u].request = client'[v].request => u = v
    BY <1>1, <1>3 DEF WorkersApart
  <2>2. \A r \in Requests : span'[HttpSpan(r)].phase = "none" =>
           \A k \in 1 .. LastCall : rpc'[<<r, k>>] = "none"
    <3> SUFFICES ASSUME NEW r \in Requests, span'[HttpSpan(r)].phase = "none",
                        NEW k \in 1 .. LastCall
                 PROVE  rpc'[<<r, k>>] = "none"
      OBVIOUS
    <3>1. r # w.request
      OBVIOUS
    <3>2. span'[HttpSpan(r)] = span[HttpSpan(r)]
      BY <3>1, <1>1, SpanNames
    <3>3. rpc[<<r, k>>] = "none"
      BY <3>2, <1>1 DEF WorkersApart
    <3>4. <<r, k>> \in Calls /\ <<r, k>> # <<w.request, w.call>>
      BY <3>1, SpanNames
    <3> QED BY <3>3, <3>4
  <2> QED BY <2>1, <2>2 DEF WorkersApart
<1>6. \A c \in Calls : span'[c] = span[c]
  BY <1>1, SpanNames
<1>7. \A u \in ServerThreads : MethodInv(u)'
  BY <1>6 DEF IInv, MethodInv
<1>8. MethodsApart'
  BY DEF IInv, MethodsApart
<1>9. \A c \in Calls : CallInv(c)'
  <2> SUFFICES ASSUME NEW c \in Calls PROVE CallInv(c)'
    OBVIOUS
  <2>1. CallInv(c) /\ span'[c] = span[c]
    BY <1>6 DEF IInv
  <2>2. CASE rpc'[c] # rpc[c]
    <3>1. c = <<w.request, w.call>> /\ rpc[c] = "none" /\ rpc'[c] = "sent"
          /\ w.pc = "waiting"
      BY <2>2
    <3> QED BY <3>1, <2>1, <1>3 DEF CallInv, CallOf
  <2>3. CASE rpc'[c] = rpc[c]
    <3>1. ASSUME rpc[c] \in {"sent", "accepted"}
          PROVE  \E u \in ClientThreads : client'[u].pc = "waiting"
                    /\ <<client'[u].request, client'[u].call>> = c
      <4>1. PICK u \in ClientThreads : client[u].pc = "waiting" /\ CallOf(u) = c
        BY <3>1, <2>1 DEF CallInv
      <4>2. u # t
        BY <3>1, <4>1 DEF Final
      <4> QED BY <4>1, <4>2, <1>3 DEF CallOf
    <3> QED BY <2>1, <2>3, <3>1 DEF CallInv, CallOf
  <2> QED BY <2>2, <2>3
<1>10. UnbornInv'
  BY DEF IInv, UnbornInv
<1> QED BY <1>4, <1>5, <1>7, <1>8, <1>9, <1>10 DEF IInv

\* A step of the busy server thread t to w that changes no span but that of its
\* RPC, and no RPC.
MethodMove(t, w) ==
    /\ server[t].pc # "idle" /\ w.pc # "idle"
    /\ w.call = server[t].call /\ w.held = w.call
    /\ server' = [server EXCEPT ![t] = w]
    /\ UNCHANGED <<client, current, rpc, srvCurrent>>
    /\ span'[w.call].phase = "open"
    /\ span'[w.call].stack = IF w.pc = "method" THEN <<0>> ELSE <<>>
    /\ \A x \in Spans : x # w.call => span'[x] = span[x]

\* Such a step keeps the invariant.
LEMMA MethodMoves ==
    ASSUME IInv, TypeOK', NEW t \in ServerThreads, NEW w, MethodMove(t, w)
    PROVE  IInv'
<1> USE DEF MethodMove
<1>1. w.call \in Calls /\ srvCurrent[t] = w.call /\ span[w.call].phase = "open"
      /\ rpc[w.call] \in {"accepted", "broken"} /\ MethodsApart
  BY DEF IInv, MethodInv
<1>2. server \in [ServerThreads -> MethodType]
  BY DEF IInv, TypeOK
<1>3. server'[t] = w /\ \A u \in ServerThreads : u # t => server'[u] = server[u]
  BY <1>2
<1>4. \A r \in Requests : span'[HttpSpan(r)] = span[HttpSpan(r)]
  BY <1>1, SpanNames
<1>5. \A u \in ClientThreads : WorkerInv(u)'
  BY <1>4 DEF IInv, WorkerInv
<1>6. WorkersApart'
  BY <1>4 DEF IInv, WorkersApart
<1>7. \A u \in ServerThreads : MethodInv(u)'
  <2> SUFFICES ASSUME NEW u \in ServerThreads PROVE MethodInv(u)'
    OBVIOUS
  <2>1. CASE u = t
    BY <2>1, <1>1, <1>3 DEF MethodInv
  <2>2. CASE u # t
    <3>1. MethodInv(u) /\ server'[u] = server[u]
      BY <2>2, <1>3 DEF IInv
    <3>2. server[u].pc # "idle" => server[u].call # w.call
      BY <2>2, <1>1 DEF MethodsApart
    <3> QED BY <3>1, <3>2, SpanNames DEF MethodInv
  <2> QED BY <2>1, <2>2
<1>8. MethodsApart'
  BY <1>1, <1>3 DEF MethodsApart
<1>9. \A c \in Calls : CallInv(c)'
  BY <1>1, SpanNames DEF IInv, CallInv, CallOf
<1>10. UnbornInv'
  BY DEF IInv, UnbornInv
<1> QED BY <1>5, <1>6, <1>7, <1>8, <1>9, <1>10 DEF IInv

-----------------------------------------------------------------------------
(* Types. *)

\* Every step from a state of the invariant leads to a well-typed state.
LEMMA TypeStep == IInv /\ [Next]_vars => TypeOK'
<1> SUFFICES ASSUME IInv, [Next]_vars PROVE TypeOK'
  OBVIOUS
<1>t. TypeOK
  BY DEF IInv
<1>n. LastCall \in Nat \ {0} /\ 0 \in Events /\ 1 \in Events
      /\ (1 .. LastCall) \subseteq Events
  BY GrpcAssumption DEF Events
<1>c. ASSUME NEW kind \in Kinds
      PROVE  NewSpan(kind, NoContext) \in SpanType(Spans, Events)
  BY NewSpanIsOpen DEF NoContext
<1>1. CASE ClientRegisters
  BY <1>1, <1>t DEF ClientRegisters, TypeOK, clientVars, serverVars, processVars
<1>2. CASE ServerRegisters
  BY <1>2, <1>t DEF ServerRegisters, TypeOK, clientVars, serverVars, processVars
<1>3. ASSUME NEW t \in ClientThreads, NEW r \in Requests, TraceRequest(t, r)
      PROVE  TypeOK'
  <2>1. \A kind \in NewSpanKinds(clientReady, NoContext) : kind \in Kinds
    BY DEF NewSpanKinds, NoContext, Kinds
  <2>2. span' \in [Spans -> SpanType(Spans, Events)]
    BY <1>3, <1>t, <1>c, <2>1 DEF TraceRequest, TypeOK
  <2>3. HttpSpan(r) \in Spans
    BY SpanNames
  <2>9. client' \in [ClientThreads -> WorkerType]
    BY <1>3, <1>t, <1>n DEF TraceRequest, TypeOK, WorkerType, IdleClient
  <2> QED BY <1>3, <1>t, <1>n, <2>2, <2>3, <2>9 DEF TraceRequest, TypeOK,
       SetCurrentSpan, agentVars, processVars, serverVars
<1>4. ASSUME NEW t \in ClientThreads, EnterHandler(t) PROVE TypeOK'
  <2>1. span' \in [Spans -> SpanType(Spans, Events)]
    BY <1>4, <1>t, <1>n, ApiTypes DEF EnterHandler, TypeOK
  <2>9. client' \in [ClientThreads -> WorkerType]
    <3> DEFINE w == [client[t] EXCEPT !.pc = "ready", !.call = 1]
    <3>1. client[t] \in WorkerType /\ client' = [client EXCEPT ![t] = w]
      BY <1>4, <1>t DEF EnterHandler, TypeOK
    <3>2. w \in WorkerType
      BY <3>1, <1>n DEF WorkerType
    <3> QED BY <1>t, <3>1, <3>2 DEF TypeOK
  <2> QED BY <1>4, <1>t, <1>n, <2>1, <2>9 DEF EnterHandler, TypeOK, agentVars,
       processVars, serverVars
<1>5. ASSUME NEW t \in ClientThreads, StartCall(t) PROVE TypeOK'
  <2>1. client[t].call \in Events /\ current[t] \in Spans
        /\ CallOf(t) \in Calls
    BY <1>5, <1>t, <1>n, SpanNames DEF StartCall, TypeOK, IInv, WorkerInv, CallOf
  <2>2. span' \in [Spans -> SpanType(Spans, Events)]
    BY <1>5, <1>t, <2>1, ApiTypes DEF StartCall, TypeOK
  <2>3. InjectedContext(current[t]) \in ContextType
    BY <1>t, <2>1 DEF ContextType, InjectedContext, InjectContext, NoContext,
       TypeOK, SpanType, Kinds
  <2>9. client' \in [ClientThreads -> WorkerType]
    <3> DEFINE w == [client[t] EXCEPT !.pc = "waiting", !.parent = current[t]]
    <3>1. client[t] \in WorkerType /\ client' = [client EXCEPT ![t] = w]
      BY <1>5, <1>t DEF StartCall, TypeOK
    <3>2. w \in WorkerType
      BY <3>1, <2>1 DEF WorkerType
    <3> QED BY <1>t, <3>1, <3>2 DEF TypeOK
  <2> QED BY <1>5, <1>t, <2>1, <2>2, <2>3, <2>9 DEF StartCall, TypeOK, Final, agentVars,
       processVars, serverVars
<1>6. ASSUME NEW t \in ClientThreads, RecvStatus(t) PROVE TypeOK'
  <2>1. client[t].call \in Events
    BY <1>t DEF TypeOK, WorkerType
  <2>2. span' \in [Spans -> SpanType(Spans, Events)]
    BY <1>6, <1>t, <2>1, ApiTypes DEF RecvStatus, TypeOK
  <2>9. client' \in [ClientThreads -> WorkerType]
    BY <1>6, <1>t DEF RecvStatus, TypeOK, WorkerType
  <2> QED BY <1>6, <1>t, <2>2, <2>9 DEF RecvStatus, TypeOK, agentVars, processVars,
       serverVars
<1>7. ASSUME NEW t \in ClientThreads, CallReturns(t) PROVE TypeOK'
  <2>1. client[t].call \in 1 .. LastCall
    BY <1>7 DEF CallReturns, IInv, WorkerInv
  <2>2. span' \in [Spans -> SpanType(Spans, Events)]
    BY <1>7, <1>t, <1>n, ApiTypes DEF CallReturns, TypeOK
  <2>3. (IF HasMore(client[t].call) THEN client[t].call + 1 ELSE 0) \in Events
    BY <2>1, <1>n DEF HasMore, Events
  <2>9. client' \in [ClientThreads -> WorkerType]
    BY <1>7, <1>t, <2>1, <2>3 DEF CallReturns, TypeOK, WorkerType
  <2> QED BY <1>7, <1>t, <2>1, <2>2, <2>3, <2>9 DEF CallReturns, TypeOK, agentVars,
       processVars, serverVars
<1>8. ASSUME NEW t \in ClientThreads, Reply(t) PROVE TypeOK'
  <2>1. span' \in [Spans -> SpanType(Spans, Events)]
    BY <1>8, <1>t, <1>n, ApiTypes DEF Reply, EndScopedEvent, Success, TypeOK
  <2>9. client' \in [ClientThreads -> WorkerType]
    BY <1>8, <1>t DEF Reply, TypeOK, WorkerType
  <2> QED BY <1>8, <1>t, <2>1, <2>9 DEF Reply, TypeOK, agentVars, processVars, serverVars
<1>9. ASSUME NEW t \in ClientThreads, TraceResponse(t) PROVE TypeOK'
  <2>1. span' \in [Spans -> SpanType(Spans, Events)]
    BY <1>9, <1>t, <1>n, ApiTypes DEF TraceResponse, TypeOK
  <2>9. client' \in [ClientThreads -> WorkerType]
    BY <1>9, <1>t, <1>n DEF TraceResponse, TypeOK, WorkerType, IdleClient
  <2> QED BY <1>9, <1>t, <1>n, <2>1, <2>9 DEF TraceResponse, TypeOK, ClearCurrentSpan,
       agentVars, processVars, serverVars
<1>10. ASSUME NEW t \in ServerThreads, NEW c \in Calls, AcceptCall(t, c)
       PROVE  TypeOK'
  <2>1. \A kind \in NewSpanKinds(serverReady, metadata[c]) : kind \in Kinds
    BY <1>t DEF NewSpanKinds, TypeOK, ContextType, Kinds
  <2>2. metadata[c].from \in Spans \cup {NoSpan}
    BY <1>t DEF TypeOK, ContextType
  <2>3. \A kind \in Kinds : NewSpan(kind, metadata[c]) \in SpanType(Spans, Events)
    BY <2>2, NewSpanIsOpen
  <2>4. span' \in [Spans -> SpanType(Spans, Events)]
    BY <1>10, <1>t, <2>1, <2>3 DEF AcceptCall, TypeOK
  <2>5. server' \in [ServerThreads -> MethodType]
    BY <1>10, <1>t DEF AcceptCall, TypeOK, MethodType
  <2>6. rpc' \in [Calls -> {"none", "sent", "accepted"} \cup Final]
    BY <1>10, <1>t DEF AcceptCall, TypeOK
  <2>7. srvCurrent' \in [ServerThreads -> Calls \cup {NoSpan}]
    BY <1>10, <1>t DEF AcceptCall, TypeOK
  <2>8. UNCHANGED <<clientReady, serverReady, client, current, response, metadata,
                    up, crashes>>
    BY <1>10 DEF AcceptCall, agentVars, clientVars, processVars
  <2>9. /\ clientReady' \in BOOLEAN /\ serverReady' \in BOOLEAN
        /\ client' \in [ClientThreads -> WorkerType]
        /\ current' \in [ClientThreads -> Spans \cup {NoSpan}]
        /\ response' \in [Requests -> {"none", "200", "502"}]
        /\ metadata' \in [Calls -> ContextType]
        /\ up' \in BOOLEAN /\ crashes' \in 0 .. MaxCrashes
    BY <1>t, <2>8 DEF TypeOK
  <2> QED BY <2>4, <2>5, <2>6, <2>7, <2>9 DEF TypeOK
<1>11. ASSUME NEW t \in ServerThreads, EnterMethod(t) PROVE TypeOK'
  <2>1. span' \in [Spans -> SpanType(Spans, Events)]
    BY <1>11, <1>t, <1>n, ApiTypes DEF EnterMethod, TypeOK
  <2> QED BY <1>11, <1>t, <2>1 DEF EnterMethod, TypeOK, MethodType, agentVars, clientVars,
       processVars
<1>12. ASSUME NEW t \in ServerThreads, LeaveMethod(t) PROVE TypeOK'
  <2>1. span' \in [Spans -> SpanType(Spans, Events)]
    BY <1>12, <1>t, <1>n, ApiTypes DEF LeaveMethod, EndScopedEvent, TypeOK
  <2>2. server' \in [ServerThreads -> MethodType]
    <3>1. PICK ok \in BOOLEAN :
             server' = [server EXCEPT ![t].pc = "status", ![t].ok = ok]
      BY <1>12 DEF LeaveMethod
    <3> DEFINE w == [server[t] EXCEPT !.pc = "status", !.ok = ok]
    <3>2. server[t] \in MethodType /\ server' = [server EXCEPT ![t] = w]
      BY <3>1, <1>t DEF TypeOK
    <3>3. w \in MethodType
      BY <3>2 DEF MethodType
    <3> QED BY <1>t, <3>2, <3>3 DEF TypeOK
  <2> QED BY <1>12, <1>t, <2>1, <2>2 DEF LeaveMethod, TypeOK, agentVars, clientVars,
       processVars
<1>13. ASSUME NEW t \in ServerThreads, SendStatus(t) PROVE TypeOK'
  <2>1. span' \in [Spans -> SpanType(Spans, Events)]
    BY <1>13, <1>t, <1>n, ApiTypes DEF SendStatus, EndHeldSpan, TypeOK
  <2> QED BY <1>13, <1>t, <2>1 DEF SendStatus, TypeOK, MethodType, Final,
       IdleServer, agentVars, clientVars, processVars
<1>14. ASSUME NEW c \in Calls, LoseConnection(c) PROVE TypeOK'
  BY <1>14, <1>t DEF LoseConnection, TypeOK, Final, agentVars, clientVars,
     processVars, serverVars
<1>15. CASE ServerCrash
  <2>1. span' \in [Spans -> SpanType(Spans, Events)]
    BY <1>15, <1>t, <1>n, ApiTypes DEF ServerCrash, TypeOK
  <2>2. crashes' \in 0 .. MaxCrashes
    BY <1>15, <1>t, GrpcAssumption DEF ServerCrash, TypeOK
  <2> QED BY <1>15, <1>t, <2>1, <2>2 DEF ServerCrash, TypeOK, MethodType, Final,
       IdleServer, clientVars
<1>16. CASE ServerRestart
  BY <1>16, <1>t DEF ServerRestart, TypeOK, agentVars, clientVars, serverVars
<1>17. CASE Done \/ UNCHANGED vars
  BY <1>17, <1>t DEF Done, vars, TypeOK, agentVars, clientVars, serverVars,
     processVars
<1> QED BY <1>1, <1>2, <1>3, <1>4, <1>5, <1>6, <1>7, <1>8, <1>9, <1>10, <1>11,
     <1>12, <1>13, <1>14, <1>15, <1>16, <1>17 DEF Next, ClientStep, ServerStep, Accept

-----------------------------------------------------------------------------
(* The invariant is inductive: one lemma per action that opens or closes a   *)
(* span; the others are instances of WorkerMoves and MethodMoves.            *)

\* Nothing has started: the invariant holds at first.
LEMMA InitInv == Init => IInv
<1> SUFFICES ASSUME Init PROVE IInv
  OBVIOUS
<1>1. Unborn \in SpanType(Spans, Events)
  <2>1. <<>> \in Seq(Events)
    OBVIOUS
  <2> QED BY <2>1 DEF Unborn, SpanType, Phases, Kinds
<1>2. TypeOK
  <2>1. 0 \in Events /\ 0 \in 0 .. MaxCrashes
    BY GrpcAssumption DEF Events
  <2>2. IdleClient \in WorkerType
    BY <2>1 DEF WorkerType, IdleClient
  <2>3. IdleServer \in MethodType /\ NoContext \in ContextType
    BY DEF MethodType, IdleServer, ContextType, NoContext
  <2> QED BY <1>1, <2>1, <2>2, <2>3 DEF Init, TypeOK
<1>3. \A s \in Spans : span[s] = Unborn /\ span[s].phase = "none"
  BY DEF Init, Unborn
<1>4. \A t \in ClientThreads : client[t] = IdleClient /\ client[t].pc = "idle"
  BY DEF Init, IdleClient
<1>5. \A t \in ServerThreads : server[t] = IdleServer /\ server[t].pc = "idle"
  BY DEF Init, IdleServer
<1>6. \A c \in Calls : CallInv(c)
  BY <1>3, SpanNames DEF CallInv, Init
<1>7. WorkersApart
  BY <1>4, SpanNames DEF WorkersApart, Init
<1> QED BY <1>2, <1>3, <1>4, <1>5, <1>6, <1>7 DEF IInv, Init, WorkerInv, MethodInv,
     MethodsApart, UnbornInv

\* A new request is served by one worker only.
LEMMA TraceRequestStep ==
    ASSUME IInv, TypeOK', NEW t \in ClientThreads, NEW r \in Requests,
           TraceRequest(t, r)
    PROVE  IInv'
<1> DEFINE s == HttpSpan(r)
           w == [IdleClient EXCEPT !.pc = "traced", !.request = r]
<1>1. s \in Spans /\ s \notin Calls /\ span[s].phase = "none"
  BY SpanNames DEF TraceRequest
<1>2. /\ w.pc = "traced" /\ w.request = r
      /\ client'[t] = w /\ current'[t] = s
      /\ \A u \in ClientThreads : u # t => /\ client'[u] = client[u]
                                         /\ current'[u] = current[u]
  BY DEF TraceRequest, IInv, TypeOK, SetCurrentSpan, IdleClient
<1>3. /\ span'[s].phase = "open" /\ span'[s].stack = <<>>
      /\ \A x \in Spans : x # s => span'[x] = span[x]
  <2>1. PICK kind \in NewSpanKinds(clientReady, NoContext) :
           span' = [span EXCEPT ![s] = NewSpan(kind, NoContext)]
    BY DEF TraceRequest
  <2>2. kind \in Kinds
    BY DEF NewSpanKinds, NoContext, Kinds
  <2>3. span'[s] = NewSpan(kind, NoContext)
        /\ \A x \in Spans : x # s => span'[x] = span[x]
    BY <2>1, <1>1 DEF IInv, TypeOK
  <2> QED BY <2>2, <2>3, NewSpanIsOpen DEF NoContext
<1>4. rpc' = rpc /\ server' = server /\ srvCurrent' = srvCurrent
  BY DEF TraceRequest, serverVars
<1>5. \A u \in ClientThreads : client[u].pc # "idle" => client[u].request # r
  BY <1>1 DEF IInv, WorkerInv
<1>6. \A k \in 1 .. LastCall : rpc[<<r, k>>] = "none"
  BY <1>1 DEF IInv, WorkersApart
<1> HIDE DEF w
<1>7. \A u \in ClientThreads : WorkerInv(u)'
  <2> SUFFICES ASSUME NEW u \in ClientThreads PROVE WorkerInv(u)'
    OBVIOUS
  <2>1. CASE u = t
    BY <2>1, <1>2, <1>3, <1>4, <1>6 DEF WorkerInv, OpenEvents, Unsent
  <2>2. CASE u # t
    <3>1. WorkerInv(u) /\ client'[u] = client[u] /\ current'[u] = current[u]
      BY <2>2, <1>2 DEF IInv
    <3>2. client[u].pc # "idle" =>
             span'[HttpSpan(client[u].request)] = span[HttpSpan(client[u].request)]
      BY <3>1, <1>3, <1>5, SpanNames DEF WorkerInv
    <3> QED BY <3>1, <3>2, <1>4 DEF WorkerInv
  <2> QED BY <2>1, <2>2
<1>8. WorkersApart'
  <2>1. \A u, v \in ClientThreads :
           client'[u].pc # "idle" /\ client'[v].pc # "idle"
           /\ client'[u].request = client'[v].request => u = v
    BY <1>2, <1>5 DEF IInv, WorkersApart
  <2>2. \A q \in Requests : span'[HttpSpan(q)].phase = "none" =>
           span[HttpSpan(q)].phase = "none"
    BY <1>3, SpanNames
  <2> QED BY <2>1, <2>2, <1>4 DEF IInv, WorkersApart
<1>9. \A c \in Calls : span'[c] = span[c]
  BY <1>1, <1>3, SpanNames
<1>10. \A u \in ServerThreads : MethodInv(u)'
  BY <1>4, <1>9 DEF IInv, MethodInv
<1>11. MethodsApart'
  BY <1>4 DEF IInv, MethodsApart
<1>12. \A c \in Calls : CallInv(c)'
  <2> SUFFICES ASSUME NEW c \in Calls PROVE CallInv(c)'
    OBVIOUS
  <2>1. CallInv(c) /\ span'[c] = span[c] /\ rpc'[c] = rpc[c]
    BY <1>4, <1>9 DEF IInv
  <2>2. client[t].pc = "idle"
    BY DEF TraceRequest
  <2> QED BY <2>1, <2>2, <1>2 DEF CallInv, CallOf
<1>13. UnbornInv'
  BY <1>1, <1>3 DEF IInv, UnbornInv
<1> QED BY <1>7, <1>8, <1>10, <1>11, <1>12, <1>13 DEF IInv

\* A worker that is done leaves its ended span behind and holds none.
LEMMA TraceResponseStep ==
    ASSUME IInv, TypeOK', NEW t \in ClientThreads, TraceResponse(t)
    PROVE  IInv'
<1> DEFINE r == client[t].request
           s == HttpSpan(r)
<1>1. WorkerInv(t) /\ client[t].pc = "respond"
  BY DEF IInv, TraceResponse
<1>2. r \in Requests /\ s \in Spans /\ s \notin Calls
  BY <1>1, SpanNames DEF WorkerInv
<1>3. /\ client'[t] = IdleClient /\ current'[t] = NoSpan
      /\ \A u \in ClientThreads : u # t => /\ client'[u] = client[u]
                                         /\ current'[u] = current[u]
      /\ client'[t].pc = "idle"
  BY DEF TraceResponse, IInv, TypeOK, ClearCurrentSpan, IdleClient
<1>4. /\ span'[s].phase = "ended"
      /\ \A x \in Spans : x # s => span'[x] = span[x]
  <2>1. span[s] \in SpanType(Spans, Events)
    BY <1>2 DEF IInv, TypeOK
  <2>2. /\ span'[s] = EndSpan(span[s], FALSE)
        /\ \A x \in Spans : x # s => span'[x] = span[x]
    BY <1>2 DEF TraceResponse, IInv, TypeOK
  <2>3. EndSpan(span[s], FALSE).phase = "ended"
    BY <2>1 DEF EndSpan, SpanType
  <2> QED BY <2>2, <2>3
<1>5. rpc' = rpc /\ server' = server /\ srvCurrent' = srvCurrent
  BY DEF TraceResponse, serverVars
<1>6. \A u \in ClientThreads : WorkerInv(u)'
  <2> SUFFICES ASSUME NEW u \in ClientThreads PROVE WorkerInv(u)'
    OBVIOUS
  <2>1. CASE u = t
    BY <2>1, <1>3 DEF WorkerInv
  <2>2. CASE u # t
    <3>1. WorkerInv(u) /\ client'[u] = client[u] /\ current'[u] = current[u]
      BY <2>2, <1>3 DEF IInv
    <3>2. client[u].pc # "idle" => client[u].request # r
      BY <2>2, <1>1 DEF IInv, WorkersApart
    <3>3. client[u].pc # "idle" =>
             span'[HttpSpan(client[u].request)] = span[HttpSpan(client[u].request)]
      BY <3>1, <3>2, <1>2, <1>4, SpanNames DEF WorkerInv
    <3> QED BY <3>1, <3>3, <1>5 DEF WorkerInv
  <2> QED BY <2>1, <2>2
<1>7. WorkersApart'
  <2>1. \A q \in Requests : span'[HttpSpan(q)].phase = "none" =>
           span[HttpSpan(q)].phase = "none"
    BY <1>4, <1>2, SpanNames
  <2> QED BY <2>1, <1>3, <1>5 DEF IInv, WorkersApart
<1>8. \A c \in Calls : span'[c] = span[c]
  BY <1>2, <1>4, SpanNames
<1>9. \A u \in ServerThreads : MethodInv(u)'
  BY <1>5, <1>8 DEF IInv, MethodInv
<1>10. MethodsApart'
  BY <1>5 DEF IInv, MethodsApart
<1>11. \A c \in Calls : CallInv(c)'
  BY <1>1, <1>3, <1>5, <1>8 DEF IInv, CallInv, CallOf
<1>12. UnbornInv'
  BY <1>2, <1>4 DEF IInv, UnbornInv
<1> QED BY <1>6, <1>7, <1>9, <1>10, <1>11, <1>12 DEF IInv

\* A step of a busy worker acts on the span of its request, which is open.
LEMMA BusyWorker ==
    ASSUME IInv, NEW t \in ClientThreads, client[t].pc # "idle"
    PROVE  LET s == HttpSpan(client[t].request)
           IN  /\ client[t].request \in Requests
               /\ s \in Spans
               /\ current[t] = s
               /\ span[s] \in SpanType(Spans, Events)
               /\ span[s].phase = "open"
               /\ span[s].stack = OpenEvents(client[t])
               /\ client[t] \in WorkerType
<1>1. WorkerInv(t) /\ TypeOK
  BY DEF IInv
<1>2. client[t].request \in Requests /\ HttpSpan(client[t].request) \in Spans
  BY <1>1, SpanNames DEF WorkerInv
<1> QED BY <1>1, <1>2 DEF WorkerInv, TypeOK

\* The handler's scoped event is the first on the span of the request.
LEMMA EnterHandlerStep ==
    ASSUME IInv, TypeOK', NEW t \in ClientThreads, EnterHandler(t) PROVE IInv'
<1> DEFINE s == HttpSpan(client[t].request)
           w == [client[t] EXCEPT !.pc = "ready", !.call = 1]
<1>1. client[t].pc = "traced"
  BY DEF EnterHandler
<1>2. /\ client[t].request \in Requests /\ s \in Spans /\ current[t] = s
      /\ span[s] \in SpanType(Spans, Events) /\ span[s].phase = "open"
      /\ span[s].stack = <<>> /\ client[t] \in WorkerType
  BY <1>1, BusyWorker DEF OpenEvents
<1>3. /\ span'[s] = NewSpanEvent(span[s], 0)
      /\ \A x \in Spans : x # s => span'[x] = span[x]
  BY <1>2 DEF EnterHandler, IInv, TypeOK
<1>4. span'[s].phase = "open" /\ span'[s].stack = <<0>>
  BY <1>2, <1>3, ShortStacks DEF NewSpanEvent, SpanType
<1>5. /\ w.pc = "ready" /\ w.call = 1 /\ w.request = client[t].request
      /\ client' = [client EXCEPT ![t] = w]
  <2>1. w.pc = "ready" /\ w.call = 1 /\ w.request = client[t].request
    BY <1>2 DEF WorkerType
  <2>2. client' = [client EXCEPT ![t] = w]
    BY DEF EnterHandler, IInv, TypeOK
  <2> QED BY <2>1, <2>2
<1>6. UNCHANGED <<current, rpc, server, srvCurrent>>
  BY DEF EnterHandler, serverVars
<1>7. \A k \in Unsent(w) : rpc'[<<w.request, k>>] = "none"
  BY <1>1, <1>5, <1>6 DEF IInv, WorkerInv, Unsent
<1>8. 1 \in 1 .. LastCall
  BY GrpcAssumption
<1> HIDE DEF w
<1>9. WorkerMove(t, w)
  BY <1>1, <1>3, <1>4, <1>5, <1>6, <1>7, <1>8 DEF WorkerMove, OpenEvents
<1> QED BY <1>9, WorkerMoves

\* The interceptor's event is the second, and the RPC it sends was unsent.
LEMMA StartCallStep ==
    ASSUME IInv, TypeOK', NEW t \in ClientThreads, StartCall(t) PROVE IInv'
<1> DEFINE s == HttpSpan(client[t].request)
           k == client[t].call
           w == [client[t] EXCEPT !.pc = "waiting", !.parent = s]
<1>1. client[t].pc = "ready" /\ WorkerInv(t)
  BY DEF StartCall, IInv
<1>2. /\ client[t].request \in Requests /\ s \in Spans /\ current[t] = s
      /\ span[s] \in SpanType(Spans, Events) /\ span[s].phase = "open"
      /\ span[s].stack = <<0>> /\ client[t] \in WorkerType
      /\ k \in 1 .. LastCall
  BY <1>1, BusyWorker DEF OpenEvents, WorkerInv
<1>3. /\ span'[s] = NewSpanEvent(span[s], k)
      /\ \A x \in Spans : x # s => span'[x] = span[x]
  BY <1>2 DEF StartCall, IInv, TypeOK
<1>4. span'[s].phase = "open" /\ span'[s].stack = <<0, k>>
  BY <1>2, <1>3, ShortStacks DEF NewSpanEvent, SpanType
<1>5. /\ w.pc = "waiting" /\ w.call = k /\ w.request = client[t].request
      /\ w.parent = s /\ client' = [client EXCEPT ![t] = w]
  <2>1. w.pc = "waiting" /\ w.call = k /\ w.request = client[t].request
        /\ w.parent = s
    BY <1>2 DEF WorkerType
  <2>2. client' = [client EXCEPT ![t] = w]
    BY <1>2 DEF StartCall, IInv, TypeOK
  <2> QED BY <2>1, <2>2
<1>6. UNCHANGED <<current, server, srvCurrent>>
  BY DEF StartCall, serverVars
<1>7. CallOf(t) = <<w.request, k>> /\ CallOf(t) \in Calls
  BY <1>2, <1>5, SpanNames DEF CallOf
<1>8. /\ rpc'[CallOf(t)] = "sent"
      /\ \A c \in Calls : c # CallOf(t) => rpc'[c] = rpc[c]
  BY <1>7 DEF StartCall, IInv, TypeOK
<1>9. \A j \in Unsent(client[t]) : rpc[<<w.request, j>>] = "none"
  BY <1>1, <1>5 DEF WorkerInv
<1>10. rpc[CallOf(t)] = "none"
  <2>1. k \in Unsent(client[t])
    BY <1>1, <1>2 DEF Unsent
  <2> QED BY <2>1, <1>7, <1>9
<1>11. \A j \in Unsent(w) : rpc'[<<w.request, j>>] = "none"
  <2> SUFFICES ASSUME NEW j \in Unsent(w) PROVE rpc'[<<w.request, j>>] = "none"
    OBVIOUS
  <2>1. j \in 1 .. LastCall /\ j > k
    BY <1>5 DEF Unsent
  <2>2. j \in Unsent(client[t])
    BY <2>1, <1>1, <1>2 DEF Unsent
  <2>3. <<w.request, j>> \in Calls /\ <<w.request, j>> # CallOf(t)
    BY <2>1, <1>2, <1>5, <1>7, SpanNames
  <2> QED BY <2>2, <2>3, <1>8, <1>9
<1> HIDE DEF w
<1>12. \A c \in Calls :
          \/ rpc'[c] = rpc[c]
          \/ /\ c = <<w.request, w.call>> /\ w.pc = "waiting"
             /\ rpc[c] = "none" /\ rpc'[c] = "sent"
  BY <1>5, <1>7, <1>8, <1>10
<1>13. span'[HttpSpan(w.request)].stack = OpenEvents(w)
  BY <1>4, <1>5 DEF OpenEvents
<1>14. WorkerMove(t, w)
  BY <1>1, <1>2, <1>3, <1>4, <1>5, <1>6, <1>11, <1>12, <1>13 DEF WorkerMove
<1> QED BY <1>14, WorkerMoves

\* The RPC has its final status when its event, the innermost, ends.
LEMMA RecvStatusStep ==
    ASSUME IInv, TypeOK', NEW t \in ClientThreads, RecvStatus(t) PROVE IInv'
<1> DEFINE s == HttpSpan(client[t].request)
           k == client[t].call
           w == [client[t] EXCEPT !.pc = "returned"]
           bad == rpc[CallOf(t)] # "ok"
<1>1. client[t].pc = "waiting" /\ WorkerInv(t) /\ rpc[CallOf(t)] \in Final
  BY DEF RecvStatus, IInv
<1>2. /\ s \in Spans /\ client[t].parent = s
      /\ span[s] \in SpanType(Spans, Events) /\ span[s].phase = "open"
      /\ span[s].stack = <<0, k>> /\ client[t] \in WorkerType
      /\ k \in 1 .. LastCall
  BY <1>1, BusyWorker DEF OpenEvents, WorkerInv
<1>3. /\ span'[s] = EndEvent(span[s], k, bad)
      /\ \A x \in Spans : x # s => span'[x] = span[x]
  BY <1>2 DEF RecvStatus, IInv, TypeOK
<1>4. span'[s].phase = "open" /\ span'[s].stack = <<0>>
  <2>1. /\ span'[s].phase = "open"
        /\ span'[s].stack = SubSeq(<<0, k>>, 1, Len(<<0, k>>) - 1)
    BY <1>2, <1>3 DEF EndEvent, SpanType
  <2> QED BY <2>1, ShortStacks
<1>5. /\ w.pc = "returned" /\ w.call = k /\ w.request = client[t].request
      /\ client' = [client EXCEPT ![t] = w]
  BY <1>2 DEF RecvStatus, WorkerType, IInv, TypeOK
<1>6. UNCHANGED <<current, rpc, server, srvCurrent>>
  BY DEF RecvStatus, serverVars
<1>7. \A j \in Unsent(w) : rpc'[<<w.request, j>>] = "none"
  BY <1>1, <1>5, <1>6 DEF WorkerInv, Unsent
<1> HIDE DEF w
<1>8. WorkerMove(t, w)
  BY <1>1, <1>2, <1>3, <1>4, <1>5, <1>6, <1>7 DEF WorkerMove, OpenEvents
<1> QED BY <1>8, WorkerMoves

\* An error on the span leaves its events alone; the next RPC is unsent.
LEMMA CallReturnsStep ==
    ASSUME IInv, TypeOK', NEW t \in ClientThreads, CallReturns(t) PROVE IInv'
<1> DEFINE s == HttpSpan(client[t].request)
           k == client[t].call
           ok == rpc[CallOf(t)] = "ok"
           w == [client[t] EXCEPT
                   !.pc = IF HasMore(k) THEN "ready" ELSE "reply",
                   !.call = IF HasMore(k) THEN k + 1 ELSE 0,
                   !.parent = NoSpan,
                   !.good = IF ok THEN @ \cup {k} ELSE @]
<1>1. client[t].pc = "returned" /\ WorkerInv(t)
  BY DEF CallReturns, IInv
<1>2. /\ s \in Spans /\ span[s] \in SpanType(Spans, Events)
      /\ span[s].phase = "open" /\ span[s].stack = <<0>>
      /\ client[t] \in WorkerType /\ k \in 1 .. LastCall
  BY <1>1, BusyWorker DEF OpenEvents, WorkerInv
<1>3. /\ span'[s] = SetError(span[s], ~ok)
      /\ \A x \in Spans : x # s => span'[x] = span[x]
  BY <1>2 DEF CallReturns, IInv, TypeOK
<1>4. span'[s].phase = "open" /\ span'[s].stack = <<0>>
  BY <1>2, <1>3 DEF SetError, SpanType
<1>5. /\ w.pc = IF HasMore(k) THEN "ready" ELSE "reply"
      /\ w.call = IF HasMore(k) THEN k + 1 ELSE 0
      /\ w.request = client[t].request
      /\ client' = [client EXCEPT ![t] = w]
  <2>1. /\ w.pc = IF HasMore(k) THEN "ready" ELSE "reply"
        /\ w.call = IF HasMore(k) THEN k + 1 ELSE 0
        /\ w.request = client[t].request
    BY <1>2 DEF WorkerType
  <2>2. client' = [client EXCEPT ![t] = w]
    BY DEF CallReturns, IInv, TypeOK
  <2> QED BY <2>1, <2>2
<1>6. UNCHANGED <<current, rpc, server, srvCurrent>>
  BY DEF CallReturns, serverVars
<1> HIDE DEF w
<1>7. w.pc = "ready" => w.call \in 1 .. LastCall
  BY <1>2, <1>5, GrpcAssumption DEF HasMore
<1>8. \A j \in Unsent(w) : rpc'[<<w.request, j>>] = "none"
  BY <1>1, <1>2, <1>5, <1>6 DEF WorkerInv, Unsent
<1>9. WorkerMove(t, w)
  BY <1>1, <1>3, <1>4, <1>5, <1>6, <1>7, <1>8 DEF WorkerMove, OpenEvents
<1> QED BY <1>9, WorkerMoves

\* The handler's scoped event is the last to end.
LEMMA ReplyStep ==
    ASSUME IInv, TypeOK', NEW t \in ClientThreads, Reply(t) PROVE IInv'
<1> DEFINE s == HttpSpan(client[t].request)
           w == [client[t] EXCEPT !.pc = "respond"]
<1>1. client[t].pc = "reply"
  BY DEF Reply
<1>2. /\ s \in Spans /\ span[s] \in SpanType(Spans, Events)
      /\ span[s].phase = "open" /\ span[s].stack = <<0>>
      /\ client[t] \in WorkerType
  BY <1>1, BusyWorker DEF OpenEvents
<1>3. /\ span'[s] = EndEvent(span[s], 0, ~Success(t))
      /\ \A x \in Spans : x # s => span'[x] = span[x]
  BY <1>2 DEF Reply, EndScopedEvent, IInv, TypeOK
<1>4. span'[s].phase = "open" /\ span'[s].stack = <<>>
  <2>1. /\ span'[s].phase = "open"
        /\ span'[s].stack = SubSeq(<<0>>, 1, Len(<<0>>) - 1)
    BY <1>2, <1>3 DEF EndEvent, SpanType
  <2> QED BY <2>1, ShortStacks
<1>5. /\ w.pc = "respond" /\ w.request = client[t].request
      /\ client' = [client EXCEPT ![t] = w]
  BY <1>2 DEF Reply, WorkerType, IInv, TypeOK
<1>6. UNCHANGED <<current, rpc, server, srvCurrent>>
  BY DEF Reply, serverVars
<1>7. Unsent(w) = {}
  BY <1>5 DEF Unsent
<1> HIDE DEF w
<1>8. WorkerMove(t, w)
  BY <1>1, <1>3, <1>4, <1>5, <1>6, <1>7 DEF WorkerMove, OpenEvents
<1> QED BY <1>8, WorkerMoves

\* A step of a busy server thread acts on the span of its RPC, which is open.
LEMMA BusyMethod ==
    ASSUME IInv, NEW t \in ServerThreads, server[t].pc # "idle"
    PROVE  LET c == server[t].call
           IN  /\ c \in Calls /\ c \in Spans
               /\ server[t].held = c /\ srvCurrent[t] = c
               /\ span[c] \in SpanType(Spans, Events)
               /\ span[c].phase = "open"
               /\ span[c].stack = IF server[t].pc = "method" THEN <<0>> ELSE <<>>
               /\ server[t] \in MethodType
<1>1. MethodInv(t) /\ TypeOK
  BY DEF IInv
<1>2. server[t].call \in Calls /\ server[t].call \in Spans
  BY <1>1, SpanNames DEF MethodInv
<1> QED BY <1>1, <1>2 DEF MethodInv, TypeOK

\* The method's scoped event is the first on the span of the RPC.
LEMMA EnterMethodStep ==
    ASSUME IInv, TypeOK', NEW t \in ServerThreads, EnterMethod(t) PROVE IInv'
<1> DEFINE c == server[t].call
           w == [server[t] EXCEPT !.pc = "method"]
<1>1. server[t].pc = "accepted"
  BY DEF EnterMethod
<1>2. /\ c \in Spans /\ server[t].held = c /\ srvCurrent[t] = c
      /\ span[c] \in SpanType(Spans, Events) /\ span[c].phase = "open"
      /\ span[c].stack = <<>> /\ server[t] \in MethodType
  BY <1>1, BusyMethod
<1>3. /\ span'[c] = NewSpanEvent(span[c], 0)
      /\ \A x \in Spans : x # c => span'[x] = span[x]
  BY <1>2 DEF EnterMethod, IInv, TypeOK
<1>4. span'[c].phase = "open" /\ span'[c].stack = <<0>>
  BY <1>2, <1>3, ShortStacks DEF NewSpanEvent, SpanType
<1>5. /\ w.pc = "method" /\ w.call = c /\ w.held = c
      /\ server' = [server EXCEPT ![t] = w]
  BY <1>2 DEF EnterMethod, MethodType, IInv, TypeOK
<1>6. UNCHANGED <<client, current, rpc, srvCurrent>>
  BY DEF EnterMethod, clientVars
<1> HIDE DEF w
<1>7. MethodMove(t, w)
  BY <1>1, <1>3, <1>4, <1>5, <1>6 DEF MethodMove
<1> QED BY <1>7, MethodMoves

\* It is the only one, and ends before the interceptor ends the span.
LEMMA LeaveMethodStep ==
    ASSUME IInv, TypeOK', NEW t \in ServerThreads, LeaveMethod(t) PROVE IInv'
<1> DEFINE c == server[t].call
<1>0. PICK ok \in BOOLEAN : server' = [server EXCEPT ![t].pc = "status", ![t].ok = ok]
  BY DEF LeaveMethod
<1> DEFINE w == [server[t] EXCEPT !.pc = "status", !.ok = ok]
<1>1. server[t].pc = "method"
  BY DEF LeaveMethod
<1>2. /\ c \in Spans /\ server[t].held = c /\ srvCurrent[t] = c
      /\ span[c] \in SpanType(Spans, Events) /\ span[c].phase = "open"
      /\ span[c].stack = <<0>> /\ server[t] \in MethodType
  BY <1>1, BusyMethod
<1>3. /\ span'[c] = EndEvent(span[c], 0, FALSE)
      /\ \A x \in Spans : x # c => span'[x] = span[x]
  BY <1>2 DEF LeaveMethod, EndScopedEvent, IInv, TypeOK
<1>4. span'[c].phase = "open" /\ span'[c].stack = <<>>
  <2>1. /\ span'[c].phase = "open"
        /\ span'[c].stack = SubSeq(<<0>>, 1, Len(<<0>>) - 1)
    BY <1>2, <1>3 DEF EndEvent, SpanType
  <2> QED BY <2>1, ShortStacks
<1>5. /\ w.pc = "status" /\ w.call = c /\ w.held = c
      /\ server' = [server EXCEPT ![t] = w]
  BY <1>0, <1>2 DEF MethodType, IInv, TypeOK
<1>6. UNCHANGED <<client, current, rpc, srvCurrent>>
  BY DEF LeaveMethod, clientVars
<1> HIDE DEF w
<1>7. MethodMove(t, w)
  BY <1>1, <1>3, <1>4, <1>5, <1>6 DEF MethodMove
<1> QED BY <1>7, MethodMoves

\* The server and the network never touch the spans of the HTTP requests, nor
\* an RPC that was not sent.
LEMMA WorkersFrame ==
    ASSUME IInv, client' = client, current' = current,
           \A r \in Requests : span'[HttpSpan(r)] = span[HttpSpan(r)],
           \A c \in Calls : rpc[c] = "none" => rpc'[c] = "none"
    PROVE  (\A t \in ClientThreads : WorkerInv(t)') /\ WorkersApart'
<1>1. ASSUME NEW t \in ClientThreads PROVE WorkerInv(t)'
  <2> DEFINE q == client[t].request
  <2>1. WorkerInv(t)
    BY DEF IInv
  <2>2. CASE client[t].pc # "idle"
    <3>1. q \in Requests /\ span'[HttpSpan(q)] = span[HttpSpan(q)]
      BY <2>1, <2>2 DEF WorkerInv
    <3>2. \A k \in Unsent(client[t]) : rpc'[<<q, k>>] = "none"
      BY <2>1, <2>2, <3>1, SpanNames DEF WorkerInv, Unsent
    <3> QED BY <2>1, <2>2, <3>1, <3>2 DEF WorkerInv
  <2>3. CASE client[t].pc = "idle"
    BY <2>1, <2>3 DEF WorkerInv
  <2> QED BY <2>2, <2>3
<1>2. WorkersApart'
  <2>1. \A r \in Requests : span'[HttpSpan(r)].phase = "none" =>
           \A k \in 1 .. LastCall : rpc'[<<r, k>>] = "none"
    BY SpanNames DEF IInv, WorkersApart
  <2> QED BY <2>1 DEF IInv, WorkersApart
<1> QED BY <1>1, <1>2

\* The span of an RPC starts once: the RPC is sent once and accepted once.
LEMMA AcceptCallStep ==
    ASSUME IInv, TypeOK', NEW t \in ServerThreads, NEW c \in Calls, AcceptCall(t, c)
    PROVE  IInv'
<1> DEFINE w == [pc |-> "accepted", call |-> c, held |-> c, ok |-> TRUE]
<1>1. /\ server[t].pc = "idle" /\ rpc[c] = "sent" /\ span[c].phase = "none"
      /\ c \in Spans
  BY SpanNames DEF AcceptCall, Deliverable, IInv, CallInv
<1>2. /\ server'[t] = w /\ srvCurrent'[t] = c
      /\ \A u \in ServerThreads : u # t => /\ server'[u] = server[u]
                                         /\ srvCurrent'[u] = srvCurrent[u]
  BY DEF AcceptCall, IInv, TypeOK
<1>3. /\ span'[c].phase = "open" /\ span'[c].stack = <<>>
      /\ \A x \in Spans : x # c => span'[x] = span[x]
  <2>1. PICK kind \in NewSpanKinds(serverReady, metadata[c]) :
           span' = [span EXCEPT ![c] = NewSpan(kind, metadata[c])]
    BY DEF AcceptCall
  <2>2. span'[c] = NewSpan(kind, metadata[c])
        /\ \A x \in Spans : x # c => span'[x] = span[x]
    BY <2>1, <1>1 DEF IInv, TypeOK
  <2> QED BY <2>2 DEF NewSpan
<1>4. /\ client' = client /\ current' = current
      /\ rpc'[c] = "accepted"
      /\ \A d \in Calls : d # c => rpc'[d] = rpc[d]
  BY DEF AcceptCall, clientVars, IInv, TypeOK
<1>5. \A r \in Requests : span'[HttpSpan(r)] = span[HttpSpan(r)]
  BY <1>3, SpanNames
<1>6. \A u \in ServerThreads : server[u].pc # "idle" => server[u].call # c
  BY <1>1 DEF IInv, MethodInv
<1>7. (\A u \in ClientThreads : WorkerInv(u)') /\ WorkersApart'
  BY <1>1, <1>4, <1>5, WorkersFrame
<1>9. \A u \in ServerThreads : MethodInv(u)'
  <2> SUFFICES ASSUME NEW u \in ServerThreads PROVE MethodInv(u)'
    OBVIOUS
  <2>1. CASE u = t
    BY <2>1, <1>2, <1>3, <1>4 DEF MethodInv
  <2>2. CASE u # t
    BY <2>2, <1>2, <1>3, <1>4, <1>6, SpanNames DEF IInv, MethodInv
  <2> QED BY <2>1, <2>2
<1>10. MethodsApart'
  BY <1>2, <1>6 DEF IInv, MethodsApart
<1>11. \A d \in Calls : CallInv(d)'
  <2> SUFFICES ASSUME NEW d \in Calls PROVE CallInv(d)'
    OBVIOUS
  <2>1. CallInv(d)
    BY DEF IInv
  <2>2. CASE d = c
    BY <2>1, <2>2, <1>1, <1>3, <1>4 DEF CallInv, CallOf
  <2>3. CASE d # c
    BY <2>1, <2>3, <1>3, <1>4, SpanNames DEF CallInv, CallOf
  <2> QED BY <2>2, <2>3
<1>12. UnbornInv'
  BY <1>3 DEF IInv, UnbornInv
<1> QED BY <1>7, <1>9, <1>10, <1>11, <1>12 DEF IInv

\* The span of an RPC ends before its status leaves the server.
LEMMA SendStatusStep ==
    ASSUME IInv, TypeOK', NEW t \in ServerThreads, SendStatus(t)
    PROVE  IInv'
<1> DEFINE c == server[t].call
<1>1. server[t].pc = "status" /\ MethodInv(t)
  BY DEF SendStatus, IInv
<1>2. /\ c \in Calls /\ c \in Spans /\ server[t].held = c
      /\ span[c] \in SpanType(Spans, Events)
      /\ rpc[c] \in {"accepted", "broken"} /\ c # NoSpan
  BY <1>1, BusyMethod, SpanNames DEF MethodInv
<1>3. /\ server'[t] = IdleServer /\ server'[t].pc = "idle" /\ srvCurrent'[t] = NoSpan
      /\ \A u \in ServerThreads : u # t => /\ server'[u] = server[u]
                                         /\ srvCurrent'[u] = srvCurrent[u]
  BY DEF SendStatus, IInv, TypeOK, IdleServer
<1>4. /\ span'[c].phase = "ended"
      /\ \A x \in Spans : x # c => span'[x] = span[x]
  <2>1. /\ span'[c] = EndSpan(span[c], ~server[t].ok)
        /\ \A x \in Spans : x # c => span'[x] = span[x]
    BY <1>2 DEF SendStatus, EndHeldSpan, IInv, TypeOK
  <2> QED BY <2>1, <1>2 DEF EndSpan, SpanType
<1>5. /\ client' = client /\ current' = current
      /\ rpc'[c] \in Final
      /\ \A d \in Calls : d # c => rpc'[d] = rpc[d]
  BY <1>2 DEF SendStatus, Final, clientVars, IInv, TypeOK
<1>6. \A r \in Requests : span'[HttpSpan(r)] = span[HttpSpan(r)]
  BY <1>4, <1>2, SpanNames
<1>7. \A u \in ServerThreads : u # t /\ server[u].pc # "idle" => server[u].call # c
  BY <1>1 DEF IInv, MethodsApart
<1>8. (\A u \in ClientThreads : WorkerInv(u)') /\ WorkersApart'
  BY <1>2, <1>5, <1>6, WorkersFrame
<1>10. \A u \in ServerThreads : MethodInv(u)'
  <2> SUFFICES ASSUME NEW u \in ServerThreads PROVE MethodInv(u)'
    OBVIOUS
  <2>1. CASE u = t
    BY <2>1, <1>3 DEF MethodInv
  <2>2. CASE u # t
    BY <2>2, <1>3, <1>4, <1>5, <1>7, SpanNames DEF IInv, MethodInv
  <2> QED BY <2>1, <2>2
<1>11. MethodsApart'
  BY <1>3 DEF IInv, MethodsApart
<1>12. \A d \in Calls : CallInv(d)'
  <2> SUFFICES ASSUME NEW d \in Calls PROVE CallInv(d)'
    OBVIOUS
  <2>1. CallInv(d)
    BY DEF IInv
  <2>2. CASE d = c
    BY <2>2, <1>4, <1>5 DEF CallInv, Final
  <2>3. CASE d # c
    BY <2>1, <2>3, <1>4, <1>5, SpanNames DEF CallInv, CallOf
  <2> QED BY <2>2, <2>3
<1>13. UnbornInv'
  BY <1>4 DEF IInv, UnbornInv
<1> QED BY <1>8, <1>10, <1>11, <1>12, <1>13 DEF IInv

\* A broken connection leaves the server at work on its span.
LEMMA LoseConnectionStep ==
    ASSUME IInv, TypeOK', NEW c \in Calls, LoseConnection(c) PROVE IInv'
<1>1. /\ rpc[c] \in {"sent", "accepted"} /\ rpc'[c] = "broken"
      /\ \A d \in Calls : d # c => rpc'[d] = rpc[d]
  BY DEF LoseConnection, IInv, TypeOK
<1>2. /\ span' = span /\ client' = client /\ current' = current
      /\ server' = server /\ srvCurrent' = srvCurrent
  BY DEF LoseConnection, clientVars, serverVars
<1>3. (\A t \in ClientThreads : WorkerInv(t)') /\ WorkersApart'
  BY <1>1, <1>2, WorkersFrame
<1>4. \A t \in ServerThreads : MethodInv(t)'
  BY <1>1, <1>2 DEF IInv, MethodInv
<1>5. MethodsApart' /\ UnbornInv'
  BY <1>2 DEF IInv, MethodsApart, UnbornInv
<1>6. \A d \in Calls : CallInv(d)'
  BY <1>1, <1>2 DEF IInv, CallInv, CallOf
<1> QED BY <1>3, <1>4, <1>5, <1>6 DEF IInv

\* A crash loses the open spans of the server and nothing else.
LEMMA ServerCrashStep == ASSUME IInv, TypeOK', ServerCrash PROVE IInv'
<1>1. /\ \A t \in ServerThreads : /\ server'[t] = IdleServer
                                  /\ server'[t].pc = "idle"
                                  /\ srvCurrent'[t] = NoSpan
      /\ \A c \in Calls : rpc'[c] = IF rpc[c] = "accepted" THEN "broken" ELSE rpc[c]
      /\ client' = client /\ current' = current
  BY DEF ServerCrash, IdleServer, clientVars
<1>2. \A x \in Spans : x \notin Calls => span'[x] = span[x]
  BY DEF ServerCrash
<1>c. ASSUME NEW c \in Calls
      PROVE  /\ c \in Spans
             /\ span[c].phase = "open" => span'[c].phase = "lost"
             /\ span[c].phase # "open" => span'[c] = span[c]
  <2>1. c \in Spans /\ span[c] \in SpanType(Spans, Events)
    BY SpanNames DEF IInv, TypeOK
  <2>2. span'[c] = Lose(span[c])
    BY <2>1 DEF ServerCrash
  <2> QED BY <2>1, <2>2 DEF Lose, SpanType
<1>3. \A r \in Requests : span'[HttpSpan(r)] = span[HttpSpan(r)]
  BY <1>2, SpanNames
<1>4. (\A t \in ClientThreads : WorkerInv(t)') /\ WorkersApart'
  BY <1>1, <1>3, WorkersFrame
<1>5. (\A t \in ServerThreads : MethodInv(t)') /\ MethodsApart'
  BY <1>1 DEF MethodInv, MethodsApart
<1>6. \A c \in Calls : CallInv(c)'
  <2> SUFFICES ASSUME NEW c \in Calls PROVE CallInv(c)'
    OBVIOUS
  <2>1. CallInv(c)
    BY DEF IInv
  <2> QED BY <2>1, <1>1, <1>c DEF CallInv, CallOf
<1>7. UnbornInv'
  <2>1. \A x \in Spans : span'[x].phase = "none" => span'[x] = span[x]
    <3> SUFFICES ASSUME NEW x \in Spans, span'[x].phase = "none"
                 PROVE  span'[x] = span[x]
      OBVIOUS
    <3>1. CASE x \in Calls
      BY <3>1, <1>c
    <3>2. CASE x \notin Calls
      BY <3>2, <1>2
    <3> QED BY <3>1, <3>2
  <2> QED BY <2>1 DEF IInv, UnbornInv
<1> QED BY <1>4, <1>5, <1>6, <1>7 DEF IInv

\* Every step keeps the invariant.
LEMMA NextInv == IInv /\ [Next]_vars => IInv'
<1> SUFFICES ASSUME IInv, [Next]_vars PROVE IInv'
  OBVIOUS
<1>t. TypeOK'
  BY TypeStep
<1>1. ASSUME UNCHANGED <<span, client, current, rpc, server, srvCurrent>>
      PROVE  IInv'
  BY <1>1, <1>t DEF IInv, WorkerInv, WorkersApart, MethodInv, MethodsApart, CallInv,
     CallOf, UnbornInv
<1>2. CASE ClientRegisters \/ ServerRegisters \/ ServerRestart \/ Done \/ UNCHANGED vars
  <2>1. UNCHANGED <<span, client, current, rpc, server, srvCurrent>>
    BY <1>2 DEF ClientRegisters, ServerRegisters, ServerRestart, Done, vars,
       clientVars, serverVars
  <2> QED BY <2>1, <1>1
<1>3. CASE \E t \in ClientThreads, r \in Requests : TraceRequest(t, r)
  BY <1>3, <1>t, TraceRequestStep
<1>4. CASE \E t \in ClientThreads : ClientStep(t)
  BY <1>4, <1>t, EnterHandlerStep, StartCallStep, RecvStatusStep, CallReturnsStep,
     ReplyStep, TraceResponseStep DEF ClientStep
<1>5. CASE \E t \in ServerThreads : ServerStep(t)
  BY <1>5, <1>t, EnterMethodStep, LeaveMethodStep, SendStatusStep DEF ServerStep
<1>6. CASE \E c \in Calls : Accept(c) \/ LoseConnection(c)
  BY <1>6, <1>t, AcceptCallStep, LoseConnectionStep DEF Accept
<1>7. CASE ServerCrash
  BY <1>7, <1>t, ServerCrashStep
<1> QED BY <1>2, <1>3, <1>4, <1>5, <1>6, <1>7 DEF Next

-----------------------------------------------------------------------------
(* Theorems. *)

\* The strengthened invariant holds in every reachable state.
THEOREM Invariance == Spec => []IInv
BY InitInv, NextInv, PTL DEF Spec

\* Every variable keeps its type, in both processes and on the wire.
THEOREM TypeCorrect == Spec => []TypeOK
<1>1. IInv => TypeOK
  BY DEF IInv
<1> QED BY <1>1, Invariance, PTL

\* SetCurrentSpan and ClearCurrentSpan bracket the work of every pooled thread:
\* what a handler, an interceptor or a service method finds in the thread-local
\* is the open span of its own request or RPC.
THEOREM OwnSpan == Spec => []ThreadSeesOwnSpan
<1>1. IInv => ThreadSeesOwnSpan
  BY DEF IInv, WorkerInv, MethodInv, ThreadSeesOwnSpan
<1> QED BY <1>1, Invariance, PTL

\* The server interceptor ends its span before the status goes out, and the
\* client interceptor ends its event when the status is in: a server span lies
\* within the client's event unless the connection broke.
THEOREM Nesting == Spec => []ServerSpanInsideCall
<1>1. IInv => ServerSpanInsideCall
  <2> SUFFICES ASSUME IInv, NEW c \in Calls, span[c].phase = "open", rpc[c] # "broken"
               PROVE  /\ span[HttpSpan(c[1])].phase = "open"
                      /\ span[HttpSpan(c[1])].stack = <<0, c[2]>>
    BY DEF ServerSpanInsideCall
  <2>1. rpc[c] \in {"sent", "accepted"}
    BY DEF IInv, TypeOK, CallInv, Final
  <2>2. PICK t \in ClientThreads : client[t].pc = "waiting" /\ CallOf(t) = c
    BY <2>1 DEF IInv, CallInv
  <2>3. client[t].request = c[1] /\ client[t].call = c[2]
    BY <2>2 DEF CallOf
  <2>4. WorkerInv(t)
    BY DEF IInv
  <2> QED BY <2>2, <2>3, <2>4 DEF WorkerInv, OpenEvents
<1> QED BY <1>1, Invariance, PTL

\* Which span a step may touch, and how far it may go: an unborn or an open one.
LEMMA TouchesOpenSpans ==
    ASSUME IInv, [Next]_vars, NEW s \in Spans, span[s].phase \in {"ended", "lost"}
    PROVE  span'[s] = span[s]
<1>t. span \in [Spans -> SpanType(Spans, Events)]
  BY DEF IInv, TypeOK
<1>1. ASSUME NEW x, span[x].phase \in {"none", "open"}, NEW v,
             span' = [span EXCEPT ![x] = v]
      PROVE  span'[s] = span[s]
  BY <1>1, <1>t
<1>2. ASSUME NEW t \in ClientThreads, client[t].pc # "idle", ClientStep(t)
      PROVE  span'[s] = span[s]
  <2>1. /\ HttpSpan(client[t].request) # s /\ current[t] # s
        /\ client[t].pc = "waiting" => client[t].parent # s
    BY <1>2, BusyWorker DEF IInv, WorkerInv
  <2> QED BY <1>2, <2>1, <1>t DEF ClientStep, EnterHandler, StartCall, RecvStatus,
       CallReturns, Reply, TraceResponse
<1>3. ASSUME NEW t \in ClientThreads, NEW r \in Requests, TraceRequest(t, r)
      PROVE  span'[s] = span[s]
  BY <1>3, <1>t DEF TraceRequest
<1>4. ASSUME NEW t \in ServerThreads, ServerStep(t) PROVE span'[s] = span[s]
  <2>1. server[t].pc # "idle"
    BY <1>4 DEF ServerStep, EnterMethod, LeaveMethod, SendStatus
  <2>2. srvCurrent[t] # s /\ server[t].held # s
    BY <2>1, BusyMethod
  <2> QED BY <1>4, <2>2, <1>t DEF ServerStep, EnterMethod, LeaveMethod, SendStatus,
       EndHeldSpan
<1>5. ASSUME NEW t \in ServerThreads, NEW c \in Calls, AcceptCall(t, c)
      PROVE  span'[s] = span[s]
  <2>1. c # s
    BY <1>5 DEF AcceptCall, Deliverable, IInv, CallInv
  <2> QED BY <1>5, <2>1, <1>t DEF AcceptCall
<1>6. CASE ServerCrash
  BY <1>6, <1>t DEF ServerCrash, Lose
<1>7. ASSUME UNCHANGED span PROVE span'[s] = span[s]
  BY <1>7
<1>8. ASSUME NEW t \in ClientThreads, ClientStep(t) PROVE client[t].pc # "idle"
  BY <1>8 DEF ClientStep, EnterHandler, StartCall, RecvStatus, CallReturns, Reply,
     TraceResponse
<1>9. CASE ClientRegisters \/ ServerRegisters \/ ServerRestart \/ Done
           \/ UNCHANGED vars \/ \E c \in Calls : LoseConnection(c)
  BY <1>9, <1>7 DEF ClientRegisters, ServerRegisters, ServerRestart, Done, vars,
     LoseConnection
<1> QED BY <1>2, <1>3, <1>4, <1>5, <1>6, <1>8, <1>9 DEF Next, Accept

\* An RPC's metadata is written once, before the RPC is sent.
LEMMA MetadataWrittenOnce ==
    ASSUME IInv, [Next]_vars, NEW c \in Calls, rpc[c] # "none"
    PROVE  metadata'[c] = metadata[c]
<1>1. ASSUME NEW t \in ClientThreads, StartCall(t) PROVE metadata'[c] = metadata[c]
  <2>1. client[t].pc = "ready" /\ WorkerInv(t)
    BY <1>1 DEF StartCall, IInv
  <2>2. client[t].call \in Unsent(client[t])
    BY <2>1, GrpcAssumption DEF WorkerInv, Unsent
  <2>3. rpc[CallOf(t)] = "none"
    BY <2>1, <2>2 DEF WorkerInv, CallOf
  <2> QED BY <1>1, <2>3 DEF StartCall, IInv, TypeOK
<1>2. CASE UNCHANGED metadata
  BY <1>2
<1>3. UNCHANGED metadata \/ \E t \in ClientThreads : StartCall(t)
  BY DEF Next, ClientStep, ServerStep, Accept, ClientRegisters, ServerRegisters,
     TraceRequest, EnterHandler, RecvStatus, CallReturns, Reply, TraceResponse,
     AcceptCall, EnterMethod, LeaveMethod, SendStatus, LoseConnection, ServerCrash,
     ServerRestart, Done, vars
<1> QED BY <1>1, <1>2, <1>3

\* What was delivered to a collector, lost with the server, or put on the wire is
\* never rewritten.
THEOREM Frozen == Spec => ClosedRecordsFrozen
<1> DEFINE F == /\ \A s \in Spans :
                      span[s].phase \in {"ended", "lost"} => span'[s] = span[s]
                /\ \A c \in Calls : rpc[c] # "none" => metadata'[c] = metadata[c]
<1>1. IInv /\ [Next]_vars => [F]_vars
  BY TouchesOpenSpans, MetadataWrittenOnce
<1>2. ClosedRecordsFrozen <=> [][F]_vars
  BY DEF ClosedRecordsFrozen
<1> HIDE DEF F
<1> QED BY <1>1, <1>2, Invariance, PTL DEF Spec

-----------------------------------------------------------------------------
(* GrpcTrace implements SpanProtocol: each API call is the abstract action of *)
(* the same name.                                                             *)

\* NewSpan on an unborn span is a step of the protocol.
LEMMA MapStart ==
    ASSUME IInv, NEW s \in Spans, span[s].phase = "none", NEW kind, NEW ctx,
           span' = [span EXCEPT ![s] = NewSpan(kind, ctx)]
    PROVE  U!P!Next
<1> DEFINE v == NewSpan(kind, ctx)
<1>1. span[s] = Unborn /\ U!Becomes(s, v)
  BY DEF IInv, UnbornInv, TypeOK, U!Becomes
<1>2. v.phase = "open" /\ U!Keeps(s, v, {"stack", "error", "failed"})
  BY <1>1 DEF NewSpan, Unborn, U!Keeps
<1> HIDE DEF v
<1> QED BY <1>1, <1>2, U!MapStart

\* So is NewSpanEvent on an open span.
LEMMA MapStartEvent ==
    ASSUME IInv, NEW s \in Spans, span[s].phase = "open", NEW e \in Events,
           span' = [span EXCEPT ![s] = NewSpanEvent(@, e)]
    PROVE  U!P!Next
<1> DEFINE v == NewSpanEvent(span[s], e)
<1>1. span[s] \in SpanType(Spans, Events) /\ U!Becomes(s, v)
  BY DEF IInv, TypeOK, U!Becomes
<1>2. v.stack = Append(span[s].stack, e) /\ U!Keeps(s, v, {"phase", "error", "failed"})
  BY <1>1 DEF U!Keeps, NewSpanEvent, SpanType
<1> HIDE DEF v
<1> QED BY <1>1, <1>2, U!MapStartEvent

\* So is EndEvent of the innermost event of an open span.
LEMMA MapEndEvent ==
    ASSUME IInv, NEW s \in Spans, span[s].phase = "open", NEW e, NEW bad \in BOOLEAN,
           span[s].stack # <<>>, span[s].stack[Len(span[s].stack)] = e,
           span' = [span EXCEPT ![s] = EndEvent(@, e, bad)]
    PROVE  U!P!Next
<1> DEFINE v == EndEvent(span[s], e, bad)
<1>1. span[s] \in SpanType(Spans, Events) /\ U!Becomes(s, v)
  BY DEF IInv, TypeOK, U!Becomes
<1>2. /\ v.stack = SubSeq(span[s].stack, 1, Len(span[s].stack) - 1)
      /\ v.failed = IF bad THEN span[s].failed \cup {e} ELSE span[s].failed
      /\ U!Keeps(s, v, {"phase", "error"})
  BY <1>1 DEF U!Keeps, EndEvent, SpanType
<1> HIDE DEF v
<1> QED BY <1>1, <1>2, U!MapEndEvent

\* SetError on an open span is one, or changes nothing.
LEMMA MapSetError ==
    ASSUME IInv, NEW s \in Spans, span[s].phase = "open", NEW bad \in BOOLEAN,
           span' = [span EXCEPT ![s] = SetError(@, bad)]
    PROVE  [U!P!Next]_(U!P!vars)
<1> DEFINE v == SetError(span[s], bad)
<1>1. /\ span[s] \in SpanType(Spans, Events) /\ span[s].error \in BOOLEAN
      /\ U!Becomes(s, v)
  BY DEF IInv, TypeOK, U!Becomes, SpanType
<1>2. /\ v.error = (span[s].error \/ bad)
      /\ U!Keeps(s, v, {"phase", "stack", "failed"})
  BY <1>1 DEF U!Keeps, SetError, SpanType
<1> HIDE DEF v
<1>3. v.error = TRUE \/ v.error = span[s].error
  BY <1>1, <1>2
<1> QED BY <1>1, <1>2, <1>3, U!MapSetError

\* EndSpan on an open span without open events is one.
LEMMA MapEnd ==
    ASSUME IInv, NEW s \in Spans, span[s].phase = "open", span[s].stack = <<>>,
           NEW bad \in BOOLEAN, span' = [span EXCEPT ![s] = EndSpan(@, bad)]
    PROVE  U!P!Next
<1> DEFINE v == EndSpan(span[s], bad)
<1>1. span[s] \in SpanType(Spans, Events) /\ U!Becomes(s, v)
  BY DEF IInv, TypeOK, U!Becomes
<1>2. /\ v.phase = "ended" /\ v.error = (span[s].error \/ bad)
      /\ U!Keeps(s, v, {"stack", "failed"})
  BY <1>1 DEF U!Keeps, EndSpan, SpanType
<1> HIDE DEF v
<1> QED BY <1>1, <1>2, U!MapEnd

\* A crash of the server is one.
LEMMA MapLose == ASSUME IInv, ServerCrash PROVE U!P!Next
<1> DEFINE L == {c \in Calls : span[c].phase = "open"}
<1>1. ASSUME NEW s \in Spans
      PROVE  /\ span'[s].phase = IF s \in L THEN "lost" ELSE span[s].phase
             /\ span'[s].stack = span[s].stack
             /\ span'[s].error = span[s].error
             /\ span'[s].failed = span[s].failed
  <2>1. span[s] \in SpanType(Spans, Events)
    BY DEF IInv, TypeOK
  <2>2. span'[s] = IF s \in Calls THEN Lose(span[s]) ELSE span[s]
    BY DEF ServerCrash
  <2> QED BY <2>1, <2>2 DEF Lose, SpanType
<1>2. L \in SUBSET Spans /\ \A s \in L : span[s].phase = "open"
  BY SpanNames
<1> HIDE DEF L
<1> QED BY <1>1, <1>2, U!MapLose

\* A step of SpanProtocol's next-state relation, or a stutter.
LEMMA MapNext == IInv /\ [Next]_vars => [U!P!Next]_(U!P!vars)
<1> SUFFICES ASSUME IInv, [Next]_vars PROVE [U!P!Next]_(U!P!vars)
  OBVIOUS
<1>e. 0 \in Events
  BY GrpcAssumption DEF Events
<1>b. \A t \in ClientThreads : WorkerInv(t)
  BY DEF IInv
<1>1. CASE ClientRegisters \/ ServerRegisters \/ ServerRestart \/ Done
           \/ UNCHANGED vars \/ \E c \in Calls : LoseConnection(c)
  <2>1. UNCHANGED span
    BY <1>1 DEF ClientRegisters, ServerRegisters, ServerRestart, Done, vars,
       LoseConnection
  <2> QED BY <2>1, U!SameRecords
<1>2. ASSUME NEW t \in ClientThreads, NEW r \in Requests, TraceRequest(t, r)
      PROVE  U!P!Next
  <2>1. HttpSpan(r) \in Spans
    BY SpanNames
  <2> QED BY <1>2, <2>1, MapStart DEF TraceRequest
<1>3. ASSUME NEW t \in ClientThreads, EnterHandler(t) PROVE U!P!Next
  <2> DEFINE s == HttpSpan(client[t].request)
  <2>1. s \in Spans /\ current[t] = s /\ span[s].phase = "open"
    BY <1>3, BusyWorker DEF EnterHandler
  <2> QED BY <1>3, <2>1, <1>e, MapStartEvent DEF EnterHandler
<1>4. ASSUME NEW t \in ClientThreads, StartCall(t) PROVE U!P!Next
  <2> DEFINE s == HttpSpan(client[t].request)
  <2>1. s \in Spans /\ current[t] = s /\ span[s].phase = "open"
    BY <1>4, BusyWorker DEF StartCall
  <2>3. client[t].call \in Events
    BY DEF IInv, TypeOK, WorkerType
  <2> QED BY <1>4, <2>1, <2>3, MapStartEvent DEF StartCall
<1>5. ASSUME NEW t \in ClientThreads, RecvStatus(t) PROVE U!P!Next
  <2> DEFINE s == HttpSpan(client[t].request)
             k == client[t].call
             bad == rpc[CallOf(t)] # "ok"
  <2>1. s \in Spans /\ client[t].parent = s /\ span[s].phase = "open"
        /\ span[s].stack = <<0, k>>
    BY <1>5, <1>b, BusyWorker DEF RecvStatus, WorkerInv, OpenEvents
  <2>2. span[s].stack # <<>> /\ span[s].stack[Len(span[s].stack)] = k
    BY <2>1, ShortStacks
  <2>3. span' = [span EXCEPT ![s] = EndEvent(@, k, bad)]
    BY <1>5, <2>1 DEF RecvStatus
  <2>4. bad \in BOOLEAN
    OBVIOUS
  <2> HIDE DEF bad, s, k
  <2> QED BY <2>1, <2>2, <2>3, <2>4, MapEndEvent
<1>6. ASSUME NEW t \in ClientThreads, CallReturns(t) PROVE [U!P!Next]_(U!P!vars)
  <2> DEFINE s == HttpSpan(client[t].request)
             bad == ~(rpc[CallOf(t)] = "ok")
  <2>1. s \in Spans /\ span[s].phase = "open"
    BY <1>6, BusyWorker DEF CallReturns
  <2>2. span' = [span EXCEPT ![s] = SetError(@, bad)] /\ bad \in BOOLEAN
    BY <1>6 DEF CallReturns
  <2> HIDE DEF bad, s
  <2> QED BY <2>1, <2>2, MapSetError
<1>7. ASSUME NEW t \in ClientThreads, Reply(t) PROVE U!P!Next
  <2> DEFINE s == HttpSpan(client[t].request)
             e == 0
             bad == ~Success(t)
  <2>1. s \in Spans /\ span[s].phase = "open" /\ span[s].stack = <<0>>
    BY <1>7, BusyWorker DEF Reply, OpenEvents
  <2>2. span[s].stack # <<>> /\ span[s].stack[Len(span[s].stack)] = e
    BY <2>1, ShortStacks
  <2>3. span' = [span EXCEPT ![s] = EndEvent(@, e, bad)] /\ bad \in BOOLEAN
    BY <1>7 DEF Reply, EndScopedEvent, Success
  <2> HIDE DEF bad, s, e
  <2> QED BY <2>1, <2>2, <2>3, MapEndEvent
<1>8. ASSUME NEW t \in ClientThreads, TraceResponse(t) PROVE U!P!Next
  <2> DEFINE s == HttpSpan(client[t].request)
  <2>1. s \in Spans /\ span[s].phase = "open" /\ span[s].stack = <<>>
    BY <1>8, BusyWorker DEF TraceResponse, OpenEvents
  <2> QED BY <1>8, <2>1, MapEnd DEF TraceResponse
<1>9. ASSUME NEW t \in ServerThreads, NEW c \in Calls, AcceptCall(t, c)
      PROVE  U!P!Next
  <2>1. c \in Spans /\ span[c].phase = "none"
    BY <1>9, SpanNames DEF AcceptCall, Deliverable, IInv, CallInv
  <2> QED BY <1>9, <2>1, MapStart DEF AcceptCall
<1>10. ASSUME NEW t \in ServerThreads, EnterMethod(t) PROVE U!P!Next
  <2> DEFINE c == server[t].call
  <2>1. c \in Spans /\ srvCurrent[t] = c /\ span[c].phase = "open"
    BY <1>10, BusyMethod DEF EnterMethod
  <2> QED BY <1>10, <2>1, <1>e, MapStartEvent DEF EnterMethod
<1>11. ASSUME NEW t \in ServerThreads, LeaveMethod(t) PROVE U!P!Next
  <2> DEFINE c == server[t].call
             e == 0
             bad == FALSE
  <2>1. c \in Spans /\ srvCurrent[t] = c /\ span[c].phase = "open"
        /\ span[c].stack = <<0>>
    BY <1>11, BusyMethod DEF LeaveMethod
  <2>2. span[c].stack # <<>> /\ span[c].stack[Len(span[c].stack)] = e
    BY <2>1, ShortStacks
  <2>3. span' = [span EXCEPT ![c] = EndEvent(@, e, bad)] /\ bad \in BOOLEAN
    BY <1>11, <2>1 DEF LeaveMethod, EndScopedEvent
  <2> HIDE DEF c, e, bad
  <2> QED BY <2>1, <2>2, <2>3, MapEndEvent
<1>12. ASSUME NEW t \in ServerThreads, SendStatus(t) PROVE U!P!Next
  <2> DEFINE c == server[t].call
             bad == ~server[t].ok
  <2>1. c \in Spans /\ server[t].held = c /\ span[c].phase = "open"
        /\ span[c].stack = <<>> /\ c # NoSpan
    BY <1>12, BusyMethod, SpanNames DEF SendStatus
  <2>2. span' = [span EXCEPT ![c] = EndSpan(@, bad)] /\ bad \in BOOLEAN
    BY <1>12, <2>1 DEF SendStatus, EndHeldSpan
  <2> HIDE DEF bad, c
  <2> QED BY <2>1, <2>2, MapEnd
<1>13. CASE ServerCrash
  BY <1>13, MapLose
<1> QED BY <1>1, <1>2, <1>3, <1>4, <1>5, <1>6, <1>7, <1>8, <1>9, <1>10, <1>11, <1>12,
     <1>13 DEF Next, ClientStep, ServerStep, Accept

\* No span is born at first.
LEMMA MapInit == Init => U!P!Init
<1>1. Init => \A s \in Spans : U!Blank(span[s])
  BY DEF Init, U!Blank, Unborn
<1> QED BY <1>1, U!BlankRecords

\* wrap_handler, the handler, the service methods and both interceptors use the
\* agent as SpanProtocol demands, whatever the interleaving, the failures and the
\* crashes: GrpcTrace implements SpanProtocol.
THEOREM ImplementsSpanProtocol == Spec => FollowsSpanProtocol
BY Invariance, MapInit, MapNext, PTL
   DEF Spec, FollowsSpanProtocol, U!FollowsProtocol, U!P!Spec

-----------------------------------------------------------------------------
(* What the records tell: a second invariant, on top of the first.          *)

\* The RPCs that are back from their helper, and those whose status the
\* interceptor has put on their event.
Back(w) == {k \in 1 .. LastCall :
               \/ w.pc \in {"ready", "waiting", "returned"} /\ k < w.call
               \/ w.pc \in {"reply", "respond"}}

Told(w) == {k \in 1 .. LastCall : k \in Back(w) \/ (w.pc = "returned" /\ k = w.call)}

\* The RPCs of a request that have not succeeded.
Bad(r) == {k \in 1 .. LastCall : rpc[<<r, k>>] # "ok"}

\* What a worker in the state w has written down of the RPCs behind it is what
\* became of them.
Notes(w) ==
    LET r == w.request
        s == span[HttpSpan(r)]
    IN  /\ \A k \in Told(w) : rpc[<<r, k>>] \in Final
        /\ w.good = Back(w) \ Bad(r)
        /\ s.error = (Back(w) \cap Bad(r) # {})
        /\ w.pc # "respond" => s.failed = Told(w) \cap Bad(r) /\ response[r] = "none"
        /\ w.pc = "respond" => response[r] # "none"

\* A request is answered when all its RPCs are over, and ends answered.
Answered(r) ==
    LET s == span[HttpSpan(r)]
    IN  /\ s.phase = "ended" => response[r] # "none"
        /\ s.phase = "none" => response[r] = "none"
        /\ response[r] # "none" =>
              /\ \A k \in 1 .. LastCall : rpc[<<r, k>>] \in Final
              /\ response[r] = IF Bad(r) = {} THEN "200" ELSE "502"
              /\ s.error = (Bad(r) # {})
              /\ s.failed = Bad(r) \cup (IF Bad(r) = {} THEN {} ELSE {0})

\* The metadata of an RPC that was sent names the span that sent it.
Carried(c) ==
    LET id == HttpSpan(c[1])
    IN  rpc[c] # "none" => metadata[c] = InjectContext(span[id], id)

\* The server's span of an RPC descends from that metadata, and its error is
\* one that the caller has too, or that the broken connection stands for.
Followed(c) ==
    /\ span[c].phase # "none" =>
          /\ rpc[c] # "none"
          /\ span[c].kind = "noop" \/ metadata[c].kind \in {"none", span[c].kind}
          /\ span[c].parent = IF span[c].kind = "sampled" THEN metadata[c].from
                              ELSE NoSpan
    /\ span[c].error => rpc[c] \in {"error", "broken"}

RecordsInv == /\ \A t \in ClientThreads, w \in WorkerType :
                    client[t] = w /\ w.pc # "idle" => Notes(w)
              /\ \A r \in Requests : Answered(r)
              /\ \A c \in Calls : Carried(c) /\ Followed(c)

\* The status of an RPC is final: no step takes it back, and no RPC is unsent.
LEMMA StatusStays ==
    ASSUME IInv, [Next]_vars, NEW c \in Calls
    PROVE  /\ rpc[c] \in Final => rpc'[c] = rpc[c]
           /\ rpc[c] # "none" => rpc'[c] # "none"
<1>t. rpc \in [Calls -> {"none", "sent", "accepted"} \cup Final]
  BY DEF IInv, TypeOK
<1>1. ASSUME NEW t \in ClientThreads, StartCall(t)
      PROVE  rpc[c] # "none" => rpc'[c] = rpc[c]
  <2>1. client[t].pc = "ready" /\ WorkerInv(t)
    BY <1>1 DEF StartCall, IInv
  <2>2. client[t].call \in Unsent(client[t])
    BY <2>1, GrpcAssumption DEF WorkerInv, Unsent
  <2>3. rpc[CallOf(t)] = "none"
    BY <2>1, <2>2 DEF WorkerInv, CallOf
  <2> QED BY <1>1, <2>3, <1>t DEF StartCall
<1>2. ASSUME NEW t \in ServerThreads, NEW d \in Calls, AcceptCall(t, d)
      PROVE  /\ rpc[c] \in Final => rpc'[c] = rpc[c]
             /\ rpc[c] # "none" => rpc'[c] # "none"
  BY <1>2, <1>t DEF AcceptCall, Deliverable, Final
<1>3. ASSUME NEW t \in ServerThreads, SendStatus(t)
      PROVE  /\ rpc[c] \in Final => rpc'[c] = rpc[c]
             /\ rpc[c] # "none" => rpc'[c] # "none"
  <2> DEFINE d == server[t].call
  <2>1. d \in Calls /\ rpc[d] \in {"accepted", "broken"}
    BY <1>3 DEF SendStatus, IInv, MethodInv
  <2>2. rpc'[d] \in Final /\ (rpc[d] = "broken" => rpc'[d] = rpc[d])
        /\ (c # d => rpc'[c] = rpc[c])
    BY <1>3, <2>1, <1>t DEF SendStatus, Final
  <2> QED BY <2>1, <2>2 DEF Final
<1>4. ASSUME NEW d \in Calls, LoseConnection(d)
      PROVE  /\ rpc[c] \in Final => rpc'[c] = rpc[c]
             /\ rpc[c] # "none" => rpc'[c] # "none"
  BY <1>4, <1>t DEF LoseConnection, Final
<1>5. CASE ServerCrash
  BY <1>5 DEF ServerCrash, Final
<1>6. \/ UNCHANGED rpc \/ ServerCrash
      \/ \E t \in ClientThreads : StartCall(t)
      \/ \E t \in ServerThreads : SendStatus(t) \/ \E d \in Calls : AcceptCall(t, d)
      \/ \E d \in Calls : LoseConnection(d)
  BY DEF Next, ClientStep, ServerStep, Accept, ClientRegisters, ServerRegisters,
     TraceRequest, EnterHandler, RecvStatus, CallReturns, Reply, TraceResponse,
     EnterMethod, LeaveMethod, ServerRestart, Done, vars
<1> QED BY <1>1, <1>2, <1>3, <1>4, <1>5, <1>6 DEF Final

\* A step of a worker leaves alone what belongs to the other requests.
LEMMA WorkerFrame ==
    ASSUME IInv, NEW t \in ClientThreads, ClientStep(t)
    PROVE  /\ client[t].pc # "idle"
           /\ \A x \in Spans : x # HttpSpan(client[t].request) => span'[x] = span[x]
           /\ \A u \in ClientThreads : u # t => client'[u] = client[u]
           /\ \A r \in Requests : r # client[t].request => response'[r] = response[r]
           /\ UNCHANGED server
<1>t. TypeOK
  BY DEF IInv
<1>1. client[t].pc # "idle"
  BY DEF ClientStep, EnterHandler, StartCall, RecvStatus, CallReturns, Reply,
     TraceResponse
<1>2. /\ current[t] = HttpSpan(client[t].request)
      /\ client[t].pc = "waiting" => client[t].parent = HttpSpan(client[t].request)
  BY <1>1, BusyWorker DEF IInv, WorkerInv
<1>3. \A x \in Spans : x # HttpSpan(client[t].request) => span'[x] = span[x]
  <2>1. CASE EnterHandler(t) \/ StartCall(t) \/ RecvStatus(t)
    BY <2>1, <1>2, <1>t DEF EnterHandler, StartCall, RecvStatus, TypeOK
  <2>2. CASE CallReturns(t) \/ Reply(t) \/ TraceResponse(t)
    BY <2>2, <1>t DEF CallReturns, Reply, TraceResponse, TypeOK
  <2> QED BY <2>1, <2>2 DEF ClientStep
<1>4. \A u \in ClientThreads : u # t => client'[u] = client[u]
  BY <1>t DEF ClientStep, EnterHandler, StartCall, RecvStatus, CallReturns, Reply,
     TraceResponse, TypeOK
<1>5. \A r \in Requests : r # client[t].request => response'[r] = response[r]
  BY <1>t DEF ClientStep, EnterHandler, StartCall, RecvStatus, CallReturns, Reply,
     TraceResponse, TypeOK
<1>6. UNCHANGED server
  BY DEF ClientStep, EnterHandler, StartCall, RecvStatus, CallReturns, Reply,
     TraceResponse, serverVars
<1> QED BY <1>1, <1>3, <1>4, <1>5, <1>6

\* A step of a server thread touches the span of its RPC only.
LEMMA MethodFrame ==
    ASSUME IInv, NEW t \in ServerThreads, ServerStep(t)
    PROVE  /\ server[t].pc # "idle"
           /\ \A x \in Spans : x # server[t].call => span'[x] = span[x]
           /\ UNCHANGED <<client, response>>
<1>1. server[t].pc # "idle"
  BY DEF ServerStep, EnterMethod, LeaveMethod, SendStatus
<1>2. srvCurrent[t] = server[t].call /\ server[t].held = server[t].call
  BY <1>1, BusyMethod
<1>3. span \in [Spans -> SpanType(Spans, Events)]
  BY DEF IInv, TypeOK
<1>4. \A x \in Spans : x # server[t].call => span'[x] = span[x]
  BY <1>2, <1>3 DEF ServerStep, EnterMethod, LeaveMethod, SendStatus, EndHeldSpan
<1> QED BY <1>1, <1>4 DEF ServerStep, EnterMethod, LeaveMethod, SendStatus, clientVars

\* The spans of the requests and the workers are none of the server's business,
\* nor of the network's and the agents'.
LEMMA ServerSide ==
    ASSUME IInv, [Next]_vars,
           ~ \E t \in ClientThreads :
                ClientStep(t) \/ \E r \in Requests : TraceRequest(t, r)
    PROVE  /\ UNCHANGED <<client, response>>
           /\ \A r \in Requests : span'[HttpSpan(r)] = span[HttpSpan(r)]
<1>1. ASSUME NEW t \in ServerThreads, ServerStep(t)
      PROVE  /\ UNCHANGED <<client, response>>
             /\ \A r \in Requests : span'[HttpSpan(r)] = span[HttpSpan(r)]
  BY <1>1, MethodFrame, BusyMethod, SpanNames
<1>2. ASSUME NEW t \in ServerThreads, NEW c \in Calls, AcceptCall(t, c)
      PROVE  /\ UNCHANGED <<client, response>>
             /\ \A r \in Requests : span'[HttpSpan(r)] = span[HttpSpan(r)]
  BY <1>2, SpanNames DEF AcceptCall, clientVars, IInv, TypeOK
<1>3. CASE ServerCrash
  BY <1>3, SpanNames DEF ServerCrash, clientVars
<1>4. CASE ClientRegisters \/ ServerRegisters \/ ServerRestart \/ Done
           \/ UNCHANGED vars \/ \E c \in Calls : LoseConnection(c)
  BY <1>4 DEF ClientRegisters, ServerRegisters, ServerRestart, Done, vars,
     LoseConnection, clientVars
<1> QED BY <1>1, <1>2, <1>3, <1>4 DEF Next, Accept

\* A span keeps the decision and the parent it was born with.
LEMMA OriginStays ==
    ASSUME IInv, [Next]_vars, NEW s \in Spans, span[s].phase # "none"
    PROVE  /\ span'[s].phase # "none"
           /\ span'[s].kind = span[s].kind
           /\ span'[s].parent = span[s].parent
<1> DEFINE Stays(v) == /\ v.phase # "none"
                       /\ v.kind = span[s].kind
                       /\ v.parent = span[s].parent
<1>t. span \in [Spans -> SpanType(Spans, Events)] /\ span[s] \in SpanType(Spans, Events)
  BY DEF IInv, TypeOK
<1>0. Stays(span[s])
  OBVIOUS
<1>a. ASSUME NEW e, NEW bad
      PROVE  /\ Stays(NewSpanEvent(span[s], e)) /\ Stays(EndEvent(span[s], e, bad))
             /\ Stays(SetError(span[s], bad)) /\ Stays(EndSpan(span[s], bad))
  BY <1>t DEF NewSpanEvent, EndEvent, SetError, EndSpan, SpanType
<1>b. ASSUME NEW x, NEW v, span' = [span EXCEPT ![x] = v], s = x => Stays(v)
      PROVE  Stays(span'[s])
  BY <1>b, <1>t, <1>0
<1> HIDE DEF Stays
<1>1. ASSUME NEW t \in ClientThreads, EnterHandler(t) PROVE Stays(span'[s])
  <2>1. span' = [span EXCEPT ![current[t]] = NewSpanEvent(span[current[t]], 0)]
    BY <1>1 DEF EnterHandler
  <2> QED BY <2>1, <1>a, <1>b
<1>2. ASSUME NEW t \in ClientThreads, StartCall(t) PROVE Stays(span'[s])
  <2>1. span' = [span EXCEPT ![current[t]] =
                   NewSpanEvent(span[current[t]], client[t].call)]
    BY <1>2 DEF StartCall
  <2> QED BY <2>1, <1>a, <1>b
<1>3. ASSUME NEW t \in ClientThreads, RecvStatus(t) PROVE Stays(span'[s])
  <2>1. span' = [span EXCEPT ![client[t].parent] =
                   EndEvent(span[client[t].parent], client[t].call,
                            rpc[CallOf(t)] # "ok")]
    BY <1>3 DEF RecvStatus
  <2> QED BY <2>1, <1>a, <1>b
<1>4. ASSUME NEW t \in ClientThreads, CallReturns(t) PROVE Stays(span'[s])
  <2> DEFINE h == HttpSpan(client[t].request)
  <2>1. span' = [span EXCEPT ![h] = SetError(span[h], ~(rpc[CallOf(t)] = "ok"))]
    BY <1>4 DEF CallReturns
  <2> QED BY <2>1, <1>a, <1>b
<1>5. ASSUME NEW t \in ClientThreads, Reply(t) PROVE Stays(span'[s])
  <2> DEFINE h == HttpSpan(client[t].request)
  <2>1. span' = [span EXCEPT ![h] = EndEvent(span[h], 0, ~Success(t))]
    BY <1>5 DEF Reply, EndScopedEvent
  <2> QED BY <2>1, <1>a, <1>b
<1>6. ASSUME NEW t \in ClientThreads, TraceResponse(t) PROVE Stays(span'[s])
  <2> DEFINE h == HttpSpan(client[t].request)
  <2>1. span' = [span EXCEPT ![h] = EndSpan(span[h], FALSE)]
    BY <1>6 DEF TraceResponse
  <2> QED BY <2>1, <1>a, <1>b
<1>7. ASSUME NEW t \in ClientThreads, NEW r \in Requests, TraceRequest(t, r)
      PROVE  Stays(span'[s])
  <2>1. HttpSpan(r) # s
    BY <1>7 DEF TraceRequest
  <2> QED BY <1>7, <2>1, <1>b DEF TraceRequest
<1>8. ASSUME NEW t \in ServerThreads, NEW c \in Calls, AcceptCall(t, c)
      PROVE  Stays(span'[s])
  <2>1. c # s
    BY <1>8 DEF AcceptCall, Deliverable, IInv, CallInv
  <2> QED BY <1>8, <2>1, <1>b DEF AcceptCall
<1>9. ASSUME NEW t \in ServerThreads, EnterMethod(t) PROVE Stays(span'[s])
  <2>1. span' = [span EXCEPT ![srvCurrent[t]] = NewSpanEvent(span[srvCurrent[t]], 0)]
    BY <1>9 DEF EnterMethod
  <2> QED BY <2>1, <1>a, <1>b
<1>10. ASSUME NEW t \in ServerThreads, LeaveMethod(t) PROVE Stays(span'[s])
  <2>1. span' = [span EXCEPT ![srvCurrent[t]] = EndEvent(span[srvCurrent[t]], 0, FALSE)]
    BY <1>10 DEF LeaveMethod, EndScopedEvent
  <2> QED BY <2>1, <1>a, <1>b
<1>11. ASSUME NEW t \in ServerThreads, SendStatus(t) PROVE Stays(span'[s])
  <2> DEFINE h == server[t].held
  <2>1. span' = span \/ span' = [span EXCEPT ![h] = EndSpan(span[h], ~server[t].ok)]
    BY <1>11 DEF SendStatus, EndHeldSpan
  <2> QED BY <2>1, <1>a, <1>b, <1>0
<1>12. ASSUME ServerCrash PROVE Stays(span'[s])
  <2>1. span'[s] = span[s] \/ span'[s] = Lose(span[s])
    BY <1>12 DEF ServerCrash
  <2>2. Stays(Lose(span[s]))
    BY <1>t DEF Stays, Lose, SpanType
  <2> QED BY <2>1, <2>2, <1>0
<1>13. ASSUME \/ ClientRegisters \/ ServerRegisters \/ ServerRestart \/ Done
              \/ UNCHANGED vars \/ \E c \in Calls : LoseConnection(c)
       PROVE  Stays(span'[s])
  <2>1. UNCHANGED span
    BY <1>13 DEF ClientRegisters, ServerRegisters, ServerRestart, Done, vars,
       LoseConnection
  <2> QED BY <2>1, <1>0
<1>14. ASSUME NEW t \in ClientThreads, ClientStep(t) PROVE Stays(span'[s])
  BY <1>14, <1>1, <1>2, <1>3, <1>4, <1>5, <1>6 DEF ClientStep
<1>15. ASSUME NEW t \in ServerThreads, ServerStep(t) PROVE Stays(span'[s])
  BY <1>15, <1>9, <1>10, <1>11 DEF ServerStep
<1>16. Stays(span'[s])
  BY <1>7, <1>8, <1>12, <1>13, <1>14, <1>15 DEF Next, Accept
<1> QED BY <1>16 DEF Stays

\* What a worker has written down stays true while it rests: the RPCs behind it
\* are over.
LEMMA NotesStay ==
    ASSUME IInv, [Next]_vars, NEW w \in WorkerType, w.request \in Requests, Notes(w),
           span'[HttpSpan(w.request)] = span[HttpSpan(w.request)],
           response'[w.request] = response[w.request]
    PROVE  Notes(w)'
<1> DEFINE r == w.request
<1>1. \A k \in Told(w) : rpc'[<<r, k>>] = rpc[<<r, k>>]
  BY StatusStays, SpanNames DEF Told, Notes
<1>2. Back(w) \subseteq Told(w) /\ Told(w) \subseteq 1 .. LastCall
  BY DEF Back, Told
<1>3. Told(w) \cap Bad(r)' = Told(w) \cap Bad(r)
  BY <1>1, <1>2 DEF Bad
<1>4. Back(w) \cap Bad(r)' = Back(w) \cap Bad(r) /\ Back(w) \ Bad(r)' = Back(w) \ Bad(r)
  BY <1>2, <1>3
<1> QED BY <1>1, <1>3, <1>4 DEF Notes

\* So does the answer.
LEMMA AnsweredStays ==
    ASSUME IInv, [Next]_vars, NEW r \in Requests, Answered(r),
           /\ span'[HttpSpan(r)].phase # span[HttpSpan(r)].phase =>
                 /\ response[r] # "none"
                 /\ span'[HttpSpan(r)].phase # "none"
           /\ response[r] # "none" =>
                 /\ span'[HttpSpan(r)].error = span[HttpSpan(r)].error
                 /\ span'[HttpSpan(r)].failed = span[HttpSpan(r)].failed
           /\ response'[r] = response[r]
    PROVE  Answered(r)'
<1> DEFINE s == HttpSpan(r)
<1>1. CASE response[r] = "none"
  BY <1>1 DEF Answered
<1>2. CASE response[r] # "none"
  <2>1. \A k \in 1 .. LastCall : rpc'[<<r, k>>] = rpc[<<r, k>>]
    BY <1>2, StatusStays, SpanNames DEF Answered
  <2>2. Bad(r)' = Bad(r)
    BY <2>1 DEF Bad
  <2> QED BY <1>2, <2>1, <2>2 DEF Answered
<1> QED BY <1>1, <1>2

\* The handler enters with nothing to tell, and sends an RPC it has yet to hear of.
LEMMA NotesOnEntry ==
    ASSUME IInv, IInv', [Next]_vars, NEW t \in ClientThreads,
           NEW w \in WorkerType, client[t] = w, Notes(w),
           NEW v \in WorkerType, client'[t] = v,
           EnterHandler(t) \/ StartCall(t)
    PROVE  /\ Notes(v)'
           /\ LET s == HttpSpan(w.request)
              IN  /\ span'[s].phase = span[s].phase
                  /\ span'[s].error = span[s].error
                  /\ span'[s].failed = span[s].failed
           /\ response' = response
<1> DEFINE r == w.request
           s == HttpSpan(r)
<1>1. /\ w.pc \in {"traced", "ready"} /\ response' = response
      /\ w.pc = "ready" => w.call \in 1 .. LastCall
  BY DEF EnterHandler, StartCall, IInv, WorkerInv, clientVars
<1>2. /\ r \in Requests /\ s \in Spans /\ current[t] = s /\ span[s].phase = "open"
      /\ span[s] \in SpanType(Spans, Events)
  BY <1>1, BusyWorker
<1>3. /\ span'[s].error = span[s].error /\ span'[s].failed = span[s].failed
      /\ span'[s].phase = span[s].phase
  <2>1. PICK e : span'[s] = NewSpanEvent(span[s], e)
    BY <1>2 DEF EnterHandler, StartCall, IInv, TypeOK
  <2> QED BY <2>1, <1>2 DEF NewSpanEvent, SpanType
<1>4. /\ v.request = r /\ v.good = w.good
      /\ \/ w.pc = "traced" /\ v.pc = "ready" /\ v.call = 1
         \/ w.pc = "ready" /\ v.pc = "waiting" /\ v.call = w.call
  <2>1. CASE EnterHandler(t)
    <3>1. v = [w EXCEPT !.pc = "ready", !.call = 1] /\ w.pc = "traced"
      BY <2>1 DEF EnterHandler, IInv, TypeOK
    <3> QED BY <3>1 DEF WorkerType
  <2>2. CASE StartCall(t)
    <3>1. v = [w EXCEPT !.pc = "waiting", !.parent = current[t]] /\ w.pc = "ready"
      BY <2>2 DEF StartCall, IInv, TypeOK
    <3> QED BY <3>1 DEF WorkerType
  <2> QED BY <2>1, <2>2
<1>5. Back(v) = Back(w) /\ Told(v) = Back(w) /\ Told(w) = Back(w)
  BY <1>1, <1>4, GrpcAssumption DEF Back, Told
<1>6. \A k \in Back(w) : rpc'[<<r, k>>] = rpc[<<r, k>>]
  BY <1>2, <1>5, StatusStays, SpanNames DEF Told, Notes
<1>7. Back(w) \subseteq 1 .. LastCall
  BY DEF Back
<1>8. Back(w) \cap Bad(r)' = Back(w) \cap Bad(r) /\ Back(w) \ Bad(r)' = Back(w) \ Bad(r)
  BY <1>6, <1>7 DEF Bad
<1>9. Notes(v)'
  BY <1>1, <1>3, <1>4, <1>5, <1>6, <1>8 DEF Notes
<1> QED BY <1>1, <1>3, <1>9

\* The interceptor puts the status of the RPC on its event.
LEMMA NotesOnStatus ==
    ASSUME IInv, IInv', [Next]_vars, NEW t \in ClientThreads,
           NEW w \in WorkerType, client[t] = w, Notes(w),
           NEW v \in WorkerType, client'[t] = v, RecvStatus(t)
    PROVE  /\ Notes(v)'
           /\ span'[HttpSpan(w.request)].phase = span[HttpSpan(w.request)].phase
           /\ response' = response
<1> DEFINE r == w.request
           s == HttpSpan(r)
           k == w.call
           bad == rpc[<<r, k>>] # "ok"
<1>1. /\ w.pc = "waiting" /\ response' = response /\ rpc' = rpc
      /\ rpc[<<r, k>>] \in Final /\ k \in 1 .. LastCall /\ w.parent = s
  BY DEF RecvStatus, CallOf, IInv, WorkerInv, clientVars
<1>2. /\ r \in Requests /\ s \in Spans /\ span[s] \in SpanType(Spans, Events)
  BY <1>1, BusyWorker
<1>3. /\ span'[s].error = span[s].error /\ span'[s].phase = span[s].phase
      /\ span'[s].failed = IF bad THEN span[s].failed \cup {k} ELSE span[s].failed
  <2>1. span'[s] = EndEvent(span[s], k, bad)
    BY <1>1, <1>2 DEF RecvStatus, CallOf, IInv, TypeOK
  <2> HIDE DEF bad
  <2> QED BY <2>1, <1>2 DEF EndEvent, SpanType
<1>4. v.request = r /\ v.good = w.good /\ v.pc = "returned" /\ v.call = k
  <2>1. v = [w EXCEPT !.pc = "returned"]
    BY DEF RecvStatus, IInv, TypeOK
  <2> QED BY <2>1 DEF WorkerType
<1>5. Back(v) = Back(w) /\ Told(w) = Back(w) /\ Told(v) = Back(w) \cup {k}
      /\ Back(w) \subseteq 1 .. LastCall
  BY <1>1, <1>4 DEF Back, Told
<1>6. Bad(r)' = Bad(r) /\ (bad <=> k \in Bad(r))
  BY <1>1 DEF Bad
<1>7. span[s].failed = Back(w) \cap Bad(r) /\ response[r] = "none"
  BY <1>1, <1>5 DEF Notes
<1>8. span'[s].failed = Told(v) \cap Bad(r)
  BY <1>3, <1>5, <1>6, <1>7
<1>9. \A j \in Told(v) : rpc'[<<r, j>>] \in Final
  BY <1>1, <1>5 DEF Notes
<1>10. w.good = Back(w) \ Bad(r) /\ span[s].error = (Back(w) \cap Bad(r) # {})
  BY DEF Notes
<1>11. Notes(v)'
  BY <1>1, <1>3, <1>4, <1>5, <1>6, <1>7, <1>8, <1>9, <1>10 DEF Notes
<1> QED BY <1>1, <1>3, <1>11

\* The helper puts it on the span, and remembers the RPCs that succeeded.
LEMMA NotesOnReturn ==
    ASSUME IInv, IInv', [Next]_vars, NEW t \in ClientThreads,
           NEW w \in WorkerType, client[t] = w, Notes(w),
           NEW v \in WorkerType, client'[t] = v, CallReturns(t)
    PROVE  /\ Notes(v)'
           /\ span'[HttpSpan(w.request)].phase = span[HttpSpan(w.request)].phase
           /\ response' = response
<1> DEFINE r == w.request
           s == HttpSpan(r)
           k == w.call
           ok == rpc[<<r, k>>] = "ok"
<1>1. /\ w.pc = "returned" /\ response' = response /\ rpc' = rpc
      /\ k \in 1 .. LastCall
  BY DEF CallReturns, IInv, WorkerInv, clientVars
<1>2. /\ r \in Requests /\ s \in Spans /\ span[s] \in SpanType(Spans, Events)
  BY <1>1, BusyWorker
<1>3. /\ span'[s].error = (span[s].error \/ ~ok) /\ span'[s].phase = span[s].phase
      /\ span'[s].failed = span[s].failed
  <2>1. span'[s] = SetError(span[s], ~ok)
    BY <1>1, <1>2 DEF CallReturns, CallOf, IInv, TypeOK
  <2> HIDE DEF ok
  <2> QED BY <2>1, <1>2 DEF SetError, SpanType
<1>4. /\ v.request = r
      /\ v.good = IF ok THEN w.good \cup {k} ELSE w.good
      /\ \/ k < LastCall /\ v.pc = "ready" /\ v.call = k + 1
         \/ k = LastCall /\ v.pc = "reply"
  <2>1. v = [w EXCEPT !.pc = IF HasMore(k) THEN "ready" ELSE "reply",
                      !.call = IF HasMore(k) THEN k + 1 ELSE 0,
                      !.parent = NoSpan,
                      !.good = IF ok THEN w.good \cup {k} ELSE w.good]
    BY DEF CallReturns, CallOf, IInv, TypeOK
  <2> HIDE DEF ok
  <2> QED BY <2>1, <1>1, GrpcAssumption DEF WorkerType, HasMore
<1>5. Back(v) = Back(w) \cup {k} /\ Told(w) = Back(v) /\ Told(v) = Back(v)
      /\ k \notin Back(w)
  BY <1>1, <1>4, GrpcAssumption DEF Back, Told
<1>6. Bad(r)' = Bad(r) /\ (ok <=> k \notin Bad(r))
  BY <1>1 DEF Bad
<1>7. span[s].failed = Told(w) \cap Bad(r) /\ response[r] = "none"
  BY <1>1 DEF Notes
<1>8. \A j \in Told(v) : rpc'[<<r, j>>] \in Final
  BY <1>1, <1>5 DEF Notes
<1>9. w.good = Back(w) \ Bad(r) /\ span[s].error = (Back(w) \cap Bad(r) # {})
  BY DEF Notes
<1>10. v.good = Back(v) \ Bad(r)
  BY <1>4, <1>5, <1>6, <1>9
<1>11. span'[s].error = (Back(v) \cap Bad(r) # {})
  <2>1. Back(v) \cap Bad(r) # {} <=> Back(w) \cap Bad(r) # {} \/ ~ok
    BY <1>5, <1>6
  <2> HIDE DEF ok
  <2> QED BY <2>1, <1>3, <1>9
<1>12. Notes(v)'
  BY <1>1, <1>3, <1>4, <1>5, <1>6, <1>7, <1>8, <1>10, <1>11 DEF Notes
<1> QED BY <1>1, <1>3, <1>12

\* The handler answers: 200 if every RPC succeeded, and it was told of them all.
LEMMA NotesOnReply ==
    ASSUME IInv, IInv', [Next]_vars, NEW t \in ClientThreads,
           NEW w \in WorkerType, client[t] = w, Notes(w),
           NEW v \in WorkerType, client'[t] = v, Reply(t)
    PROVE  Notes(v)' /\ Answered(w.request)'
<1> DEFINE r == w.request
           s == HttpSpan(r)
           success == Success(t)
<1>1. w.pc = "reply" /\ rpc' = rpc
  BY DEF Reply
<1>2. /\ r \in Requests /\ s \in Spans /\ span[s] \in SpanType(Spans, Events)
      /\ span[s].phase = "open"
  BY <1>1, BusyWorker
<1>3. Back(w) = 1 .. LastCall /\ Told(w) = 1 .. LastCall /\ Bad(r) \subseteq 1 .. LastCall
  BY <1>1 DEF Back, Told, Bad
<1>4. /\ \A k \in 1 .. LastCall : rpc[<<r, k>>] \in Final
      /\ w.good = (1 .. LastCall) \ Bad(r)
      /\ span[s].error = (Bad(r) # {}) /\ span[s].failed = Bad(r)
  <2>1. (1 .. LastCall) \cap Bad(r) = Bad(r)
    BY <1>3
  <2> QED BY <2>1, <1>1, <1>3 DEF Notes
<1>5. success <=> Bad(r) = {}
  BY <1>3, <1>4 DEF Success
<1>6. /\ span'[s].error = span[s].error /\ span'[s].phase = "open"
      /\ span'[s].failed = IF success THEN span[s].failed ELSE span[s].failed \cup {0}
  <2>1. span'[s] = EndEvent(span[s], 0, ~success)
    BY <1>2 DEF Reply, EndScopedEvent, IInv, TypeOK
  <2> HIDE DEF success
  <2> QED BY <2>1, <1>2 DEF EndEvent, SpanType
<1>7. response'[r] = IF success THEN "200" ELSE "502"
  BY <1>2 DEF Reply, IInv, TypeOK
<1>8. v.request = r /\ v.good = w.good /\ v.pc = "respond"
  <2>1. v = [w EXCEPT !.pc = "respond"]
    BY DEF Reply, IInv, TypeOK
  <2> QED BY <2>1 DEF WorkerType
<1>9. Back(v) = 1 .. LastCall /\ Told(v) = 1 .. LastCall
  BY <1>8 DEF Back, Told
<1>10. Bad(r)' = Bad(r) /\ \A k \in 1 .. LastCall : rpc'[<<r, k>>] \in Final
  BY <1>1, <1>4 DEF Bad
<1>11. response'[r] # "none" /\ response'[r] = IF Bad(r) = {} THEN "200" ELSE "502"
  BY <1>5, <1>7
<1>12. span'[s].failed = Bad(r) \cup (IF Bad(r) = {} THEN {} ELSE {0})
  BY <1>4, <1>5, <1>6
<1> HIDE DEF success
<1>13. Answered(r)'
  BY <1>4, <1>6, <1>10, <1>11, <1>12 DEF Answered
<1>14. (1 .. LastCall) \cap Bad(r) = Bad(r)
  BY <1>3
<1>15. Notes(v)'
  BY <1>4, <1>6, <1>8, <1>9, <1>10, <1>11, <1>14 DEF Notes
<1> QED BY <1>13, <1>15

\* A new request has nothing behind it.
LEMMA NotesAtFirst ==
    ASSUME IInv, IInv', NEW t \in ClientThreads, NEW r \in Requests, Answered(r),
           NEW v \in WorkerType, client'[t] = v, TraceRequest(t, r)
    PROVE  /\ Notes(v)' /\ Answered(r)' /\ v.request = r
           /\ \A x \in Spans : x # HttpSpan(r) => span'[x] = span[x]
           /\ \A u \in ClientThreads : u # t => client'[u] = client[u]
           /\ UNCHANGED <<response, server>>
<1> DEFINE s == HttpSpan(r)
<1>1. /\ s \in Spans /\ span[s].phase = "none" /\ response[r] = "none"
      /\ response' = response
  BY SpanNames DEF TraceRequest, Answered
<1>2. v = [IdleClient EXCEPT !.pc = "traced", !.request = r]
  BY DEF TraceRequest, IInv, TypeOK
<1>3. v.pc = "traced" /\ v.request = r /\ v.good = {}
  BY <1>2 DEF IdleClient
<1>4. Back(v) = {} /\ Told(v) = {}
  BY <1>3 DEF Back, Told
<1>5. /\ span'[s].phase = "open" /\ span'[s].error = FALSE /\ span'[s].failed = {}
      /\ \A x \in Spans : x # s => span'[x] = span[x]
  <2>1. PICK kind : span' = [span EXCEPT ![s] = NewSpan(kind, NoContext)]
    BY DEF TraceRequest
  <2> QED BY <2>1, <1>1 DEF NewSpan, IInv, TypeOK
<1>6. Notes(v)'
  BY <1>1, <1>3, <1>4, <1>5 DEF Notes
<1>7. Answered(r)'
  BY <1>1, <1>5 DEF Answered
<1>8. \A u \in ClientThreads : u # t => client'[u] = client[u]
  BY DEF TraceRequest, IInv, TypeOK
<1> QED BY <1>1, <1>3, <1>5, <1>6, <1>7, <1>8 DEF TraceRequest, serverVars

\* What the workers have written down, and the answers, stay true of a step that
\* concerns at most the request of one of them.
LEMMA OneRequest ==
    ASSUME IInv, [Next]_vars, RecordsInv, NEW r \in Requests, NEW t \in ClientThreads,
           \A u \in ClientThreads : u # t => client'[u] = client[u],
           \A u \in ClientThreads :
              u # t /\ client[u].pc # "idle" => client[u].request # r,
           \A x \in Spans : x # HttpSpan(r) => span'[x] = span[x],
           \A q \in Requests : q # r => response'[q] = response[q],
           \A v \in WorkerType : client'[t] = v /\ v.pc # "idle" => Notes(v)',
           Answered(r)'
    PROVE  /\ \A u \in ClientThreads, v \in WorkerType :
                 client'[u] = v /\ v.pc # "idle" => Notes(v)'
           /\ \A q \in Requests : Answered(q)'
<1>1. ASSUME NEW u \in ClientThreads, NEW v \in WorkerType,
             client'[u] = v, v.pc # "idle"
      PROVE  Notes(v)'
  <2>1. CASE u = t
    BY <1>1, <2>1
  <2>2. CASE u # t
    <3>1. client[u] = v /\ v.request \in Requests /\ v.request # r
      BY <1>1, <2>2, BusyWorker
    <3>2. /\ span'[HttpSpan(v.request)] = span[HttpSpan(v.request)]
          /\ response'[v.request] = response[v.request]
      BY <3>1, SpanNames
    <3>3. Notes(v)
      BY <1>1, <3>1 DEF RecordsInv
    <3> QED BY <3>1, <3>2, <3>3, NotesStay
  <2> QED BY <2>1, <2>2
<1>2. ASSUME NEW q \in Requests PROVE Answered(q)'
  <2>1. CASE q # r
    <3>1. span'[HttpSpan(q)] = span[HttpSpan(q)] /\ response'[q] = response[q]
      BY <2>1, SpanNames
    <3> QED BY <3>1, AnsweredStays DEF RecordsInv
  <2> QED BY <2>1
<1> QED BY <1>1, <1>2

\* Every step keeps what the workers have written down, and the answers.
LEMMA NotesStep ==
    ASSUME IInv, IInv', [Next]_vars, RecordsInv
    PROVE  /\ \A u \in ClientThreads, v \in WorkerType :
                 client'[u] = v /\ v.pc # "idle" => Notes(v)'
           /\ \A q \in Requests : Answered(q)'
<1> DEFINE Goal == /\ \A u \in ClientThreads, v \in WorkerType :
                         client'[u] = v /\ v.pc # "idle" => Notes(v)'
                   /\ \A q \in Requests : Answered(q)'
<1> SUFFICES Goal
  OBVIOUS
<1>1. ASSUME NEW t \in ClientThreads, NEW r \in Requests, TraceRequest(t, r)
      PROVE  Goal
  <2>1. client'[t] \in WorkerType /\ Answered(r)
    BY DEF IInv, TypeOK, RecordsInv
  <2>2. PICK v \in WorkerType : client'[t] = v
    BY <2>1
  <2>3. /\ Notes(v)' /\ Answered(r)'
        /\ \A x \in Spans : x # HttpSpan(r) => span'[x] = span[x]
        /\ \A u \in ClientThreads : u # t => client'[u] = client[u]
        /\ response' = response
    BY <1>1, <2>1, <2>2, NotesAtFirst
  <2>4. \A u \in ClientThreads : client[u].pc # "idle" => client[u].request # r
    BY <1>1, BusyWorker DEF TraceRequest
  <2>5. \A x \in WorkerType : client'[t] = x => Notes(x)'
    BY <2>2, <2>3
  <2> HIDE DEF Goal
  <2> QED BY <2>3, <2>4, <2>5, OneRequest DEF Goal
<1>2. ASSUME NEW t \in ClientThreads, ClientStep(t) PROVE Goal
  <2>1. PICK w \in WorkerType : client[t] = w
    BY DEF IInv, TypeOK
  <2>2. PICK v \in WorkerType : client'[t] = v
    BY DEF IInv, TypeOK
  <2> DEFINE r == w.request
             s == HttpSpan(r)
  <2>3. /\ w.pc # "idle"
        /\ \A x \in Spans : x # s => span'[x] = span[x]
        /\ \A u \in ClientThreads : u # t => client'[u] = client[u]
        /\ \A q \in Requests : q # r => response'[q] = response[q]
    BY <1>2, <2>1, WorkerFrame
  <2>4. /\ r \in Requests /\ span[s].phase = "open"
        /\ Notes(w) /\ Answered(r)
        /\ w.pc # "respond" => response[r] = "none"
    BY <2>1, <2>3, BusyWorker DEF RecordsInv, Notes
  <2>5. \A u \in ClientThreads : u # t /\ client[u].pc # "idle" => client[u].request # r
    BY <2>1, <2>3 DEF IInv, WorkersApart
  <2>6. (v.pc # "idle" => Notes(v)') /\ Answered(r)'
    <3>1. CASE EnterHandler(t) \/ StartCall(t)
      <4>1. Notes(v)' /\ span'[s].phase = span[s].phase /\ response' = response
            /\ span'[s].error = span[s].error /\ span'[s].failed = span[s].failed
        BY <3>1, <2>1, <2>2, <2>4, NotesOnEntry
      <4> QED BY <4>1, <2>4, AnsweredStays
    <3>2. CASE RecvStatus(t)
      <4>1. Notes(v)' /\ span'[s].phase = span[s].phase /\ response' = response
        BY <3>2, <2>1, <2>2, <2>4, NotesOnStatus
      <4>2. response[r] = "none"
        BY <3>2, <2>1, <2>4 DEF RecvStatus
      <4> QED BY <4>1, <4>2, <2>4, AnsweredStays
    <3>3. CASE CallReturns(t)
      <4>1. Notes(v)' /\ span'[s].phase = span[s].phase /\ response' = response
        BY <3>3, <2>1, <2>2, <2>4, NotesOnReturn
      <4>2. response[r] = "none"
        BY <3>3, <2>1, <2>4 DEF CallReturns
      <4> QED BY <4>1, <4>2, <2>4, AnsweredStays
    <3>4. CASE Reply(t)
      BY <3>4, <2>1, <2>2, <2>4, NotesOnReply
    <3>5. CASE TraceResponse(t)
      <4>1. v = IdleClient /\ w.pc = "respond" /\ response' = response
        BY <3>5, <2>1, <2>2 DEF TraceResponse, IInv, TypeOK
      <4>2. response[r] # "none"
        BY <4>1, <2>4 DEF Notes
      <4>3. s \in Spans /\ span[s] \in SpanType(Spans, Events)
        BY <2>1, <2>3, BusyWorker
      <4>4. span'[s] = EndSpan(span[s], FALSE)
        BY <3>5, <2>1, <4>3 DEF TraceResponse, IInv, TypeOK
      <4>5. /\ span'[s].phase = "ended" /\ span'[s].error = span[s].error
            /\ span'[s].failed = span[s].failed
        BY <4>3, <4>4 DEF EndSpan, SpanType
      <4>6. Answered(r)'
        BY <2>4, <4>1, <4>2, <4>5, AnsweredStays
      <4> QED BY <4>1, <4>6 DEF IdleClient
    <3> QED BY <1>2, <3>1, <3>2, <3>3, <3>4, <3>5 DEF ClientStep
  <2>7. \A x \in WorkerType : client'[t] = x /\ x.pc # "idle" => Notes(x)'
    BY <2>2, <2>6
  <2> HIDE DEF Goal
  <2> QED BY <2>3, <2>4, <2>5, <2>6, <2>7, OneRequest DEF Goal
<1>3. ASSUME ~ \E t \in ClientThreads :
                  ClientStep(t) \/ \E r \in Requests : TraceRequest(t, r)
      PROVE  Goal
  <2>1. /\ UNCHANGED <<client, response>>
        /\ \A r \in Requests : span'[HttpSpan(r)] = span[HttpSpan(r)]
    BY <1>3, ServerSide
  <2>2. ASSUME NEW u \in ClientThreads, NEW v \in WorkerType,
               client'[u] = v, v.pc # "idle"
        PROVE  Notes(v)'
    <3>1. client[u] = v /\ v.request \in Requests /\ Notes(v)
      BY <2>1, <2>2, BusyWorker DEF RecordsInv
    <3> QED BY <2>1, <3>1, NotesStay
  <2>3. \A q \in Requests : Answered(q)'
    BY <2>1, AnsweredStays DEF RecordsInv
  <2> QED BY <2>2, <2>3
<1> HIDE DEF Goal
<1> QED BY <1>1, <1>2, <1>3

\* The metadata is the decision of the span that sent the RPC, which never changes.
LEMMA CarriedStep ==
    ASSUME IInv, [Next]_vars, NEW c \in Calls, Carried(c) PROVE Carried(c)'
<1> DEFINE id == HttpSpan(c[1])
<1>1. c[1] \in Requests /\ c[2] \in 1 .. LastCall /\ c = <<c[1], c[2]>> /\ id \in Spans
  BY SpanNames
<1>2. ASSUME span[id].phase # "none"
      PROVE  InjectContext(span'[id], id) = InjectContext(span[id], id)
  BY <1>1, <1>2, OriginStays DEF InjectContext
<1>3. CASE rpc[c] # "none"
  <2>1. metadata'[c] = metadata[c]
    BY <1>3, MetadataWrittenOnce
  <2>2. span[id].phase # "none"
    BY <1>1, <1>3 DEF IInv, WorkersApart
  <2> QED BY <1>2, <1>3, <2>1, <2>2 DEF Carried
<1>4. CASE rpc[c] = "none" /\ rpc'[c] # "none"
  <2>1. PICK t \in ClientThreads : StartCall(t) /\ CallOf(t) = c
    <3>1. ASSUME NEW t \in ClientThreads, StartCall(t) PROVE CallOf(t) = c
      BY <1>4, <3>1 DEF StartCall, IInv, TypeOK
    <3>2. ASSUME NEW t \in ServerThreads, NEW d \in Calls, AcceptCall(t, d) PROVE FALSE
      BY <1>4, <3>2 DEF AcceptCall, Deliverable, IInv, TypeOK
    <3>3. ASSUME NEW t \in ServerThreads, SendStatus(t) PROVE FALSE
      <4>1. rpc[server[t].call] \in {"accepted", "broken"}
        BY <3>3 DEF SendStatus, IInv, MethodInv
      <4> QED BY <1>4, <3>3, <4>1 DEF SendStatus, IInv, TypeOK
    <3>4. ASSUME NEW d \in Calls, LoseConnection(d) PROVE FALSE
      BY <1>4, <3>4 DEF LoseConnection, IInv, TypeOK
    <3>5. ASSUME ServerCrash PROVE FALSE
      BY <1>4, <3>5 DEF ServerCrash
    <3>6. \/ UNCHANGED rpc \/ ServerCrash
          \/ \E t \in ClientThreads : StartCall(t)
          \/ \E t \in ServerThreads : SendStatus(t) \/ \E d \in Calls : AcceptCall(t, d)
          \/ \E d \in Calls : LoseConnection(d)
      BY DEF Next, ClientStep, ServerStep, Accept, ClientRegisters, ServerRegisters,
         TraceRequest, EnterHandler, RecvStatus, CallReturns, Reply, TraceResponse,
         EnterMethod, LeaveMethod, ServerRestart, Done, vars
    <3> QED BY <1>4, <3>1, <3>2, <3>3, <3>4, <3>5, <3>6
  <2>2. client[t].request = c[1] /\ current[t] = id /\ span[id].phase = "open"
    BY <2>1, BusyWorker DEF StartCall, CallOf
  <2>3. metadata'[c] = InjectContext(span[id], id)
    BY <2>1, <2>2 DEF StartCall, InjectedContext, IInv, TypeOK
  <2>4. metadata'[c] = InjectContext(span'[id], id)
    BY <1>2, <2>2, <2>3
  <2> QED BY <2>4 DEF Carried
<1>5. CASE rpc'[c] = "none"
  BY <1>5 DEF Carried
<1> QED BY <1>3, <1>4, <1>5

\* How the server's span of an RPC begins.
LEMMA FollowedAtFirst ==
    ASSUME IInv, NEW c \in Calls, NEW t \in ServerThreads, AcceptCall(t, c)
    PROVE  Followed(c)'
<1>1. c \in Spans
  BY SpanNames
<1>2. PICK kind \in NewSpanKinds(serverReady, metadata[c]) :
         span' = [span EXCEPT ![c] = NewSpan(kind, metadata[c])]
  BY DEF AcceptCall
<1>3. kind = "noop" \/ metadata[c].kind \in {"none", kind}
  BY DEF NewSpanKinds
<1>4. /\ span'[c].kind = kind /\ span'[c].error = FALSE
      /\ span'[c].parent = IF kind = "sampled" THEN metadata[c].from ELSE NoSpan
  <2>1. span'[c] = NewSpan(kind, metadata[c])
    BY <1>1, <1>2 DEF IInv, TypeOK
  <2> QED BY <2>1 DEF NewSpan
<1>5. metadata' = metadata /\ rpc'[c] = "accepted"
  BY DEF AcceptCall, IInv, TypeOK
<1> QED BY <1>3, <1>4, <1>5 DEF Followed

\* And how it ends: with an error only if the caller is told, or has gone.
LEMMA FollowedAtLast ==
    ASSUME IInv, [Next]_vars, NEW c \in Calls, Followed(c), NEW t \in ServerThreads,
           SendStatus(t), server[t].call = c
    PROVE  span'[c].error => rpc'[c] \in {"error", "broken"}
<1>1. server[t].pc = "status" /\ c \in Spans /\ server[t].held = c /\ c # NoSpan
      /\ span[c] \in SpanType(Spans, Events) /\ server[t].ok \in BOOLEAN
      /\ rpc[c] \in {"accepted", "broken"}
  BY BusyMethod, SpanNames DEF SendStatus, IInv, MethodInv, MethodType
<1>2. span'[c].error = (span[c].error \/ ~server[t].ok)
  <2>1. span'[c] = EndSpan(span[c], ~server[t].ok)
    BY <1>1 DEF SendStatus, EndHeldSpan, IInv, TypeOK
  <2> QED BY <2>1, <1>1 DEF EndSpan, SpanType
<1>3. rpc'[c] = IF rpc[c] = "broken" THEN "broken"
                ELSE IF server[t].ok THEN "ok" ELSE "error"
  BY <1>1 DEF SendStatus, IInv, TypeOK
<1>4. span[c].error => rpc[c] = "broken"
  BY <1>1 DEF Followed
<1> QED BY <1>2, <1>3, <1>4

\* In between it keeps its origin and its error.
LEMMA FollowedStep ==
    ASSUME IInv, IInv', [Next]_vars, NEW c \in Calls, Followed(c) PROVE Followed(c)'
<1> DEFINE Same == span'[c].error = span[c].error
                   /\ (span[c].phase = "none" => span'[c].phase = "none")
<1>t. c \in Spans /\ span[c] \in SpanType(Spans, Events)
  BY SpanNames DEF IInv, TypeOK
<1>1. ASSUME span[c].phase # "none", span'[c].error => rpc'[c] \in {"error", "broken"}
      PROVE  Followed(c)'
  <2>1. rpc[c] # "none" /\ rpc'[c] # "none" /\ metadata'[c] = metadata[c]
    BY <1>1, StatusStays, MetadataWrittenOnce DEF Followed
  <2>2. span'[c].kind = span[c].kind /\ span'[c].parent = span[c].parent
    BY <1>1, <1>t, OriginStays
  <2> QED BY <1>1, <2>1, <2>2 DEF Followed
<1>2. ASSUME Same PROVE Followed(c)'
  <2>1. CASE span[c].phase # "none"
    <3>1. span'[c].error => rpc'[c] \in {"error", "broken"}
      BY <1>2, StatusStays DEF Followed, Final
    <3> QED BY <2>1, <3>1, <1>1
  <2>2. CASE span[c].phase = "none"
    <3>1. span'[c].phase = "none" /\ span'[c].error = FALSE
      BY <1>2, <2>2, <1>t DEF IInv, UnbornInv, Unborn
    <3> QED BY <3>1 DEF Followed
  <2> QED BY <2>1, <2>2
<1>3. ASSUME NEW t \in ClientThreads, ClientStep(t) PROVE Same
  <2>1. c # HttpSpan(client[t].request)
    BY <1>3, WorkerFrame, BusyWorker, SpanNames
  <2>2. span'[c] = span[c]
    BY <1>3, <1>t, <2>1, WorkerFrame
  <2> QED BY <2>2
<1>4. ASSUME NEW t \in ClientThreads, NEW r \in Requests, TraceRequest(t, r) PROVE Same
  BY <1>4, <1>t, SpanNames DEF TraceRequest, IInv, TypeOK
<1>5. ASSUME NEW t \in ServerThreads, ServerStep(t) PROVE Followed(c)'
  <2>1. CASE server[t].call # c
    <3>1. span'[c] = span[c]
      BY <1>5, <1>t, <2>1, MethodFrame
    <3> QED BY <3>1, <1>2
  <2>2. CASE server[t].call = c /\ SendStatus(t)
    <3>1. span[c].phase # "none"
      BY <2>2, BusyMethod DEF SendStatus
    <3> QED BY <2>2, <3>1, <1>1, FollowedAtLast
  <2>3. CASE server[t].call = c /\ (EnterMethod(t) \/ LeaveMethod(t))
    <3>1. server[t].pc # "idle" /\ srvCurrent[t] = c /\ span[c].phase = "open"
      BY <2>3, BusyMethod DEF EnterMethod, LeaveMethod
    <3>2. span'[c] = NewSpanEvent(span[c], 0) \/ span'[c] = EndEvent(span[c], 0, FALSE)
      BY <2>3, <3>1, <1>t DEF EnterMethod, LeaveMethod, EndScopedEvent, IInv, TypeOK
    <3>3. span'[c].error = span[c].error
      BY <3>2, <1>t DEF NewSpanEvent, EndEvent, SpanType
    <3> QED BY <3>1, <3>3, <1>2
  <2> QED BY <1>5, <2>1, <2>2, <2>3 DEF ServerStep
<1>6. ASSUME NEW t \in ServerThreads, NEW d \in Calls, AcceptCall(t, d)
      PROVE  Followed(c)'
  <2>1. CASE d = c
    BY <1>6, <2>1, FollowedAtFirst
  <2>2. CASE d # c
    <3>1. span'[c] = span[c]
      BY <1>6, <2>2, <1>t DEF AcceptCall, IInv, TypeOK
    <3> QED BY <3>1, <1>2
  <2> QED BY <2>1, <2>2
<1>7. ASSUME ServerCrash PROVE Same
  <2>1. span'[c] = Lose(span[c])
    BY <1>7, <1>t DEF ServerCrash
  <2> QED BY <2>1, <1>t DEF Lose, SpanType
<1>8. ASSUME \/ ClientRegisters \/ ServerRegisters \/ ServerRestart \/ Done
             \/ UNCHANGED vars \/ \E d \in Calls : LoseConnection(d)
      PROVE  Same
  BY <1>8 DEF ClientRegisters, ServerRegisters, ServerRestart, Done, vars,
     LoseConnection
<1> HIDE DEF Same
<1> QED BY <1>2, <1>3, <1>4, <1>5, <1>6, <1>7, <1>8 DEF Next, Accept

\* Nothing has happened yet.
LEMMA RecordsInit == Init => RecordsInv
<1> SUFFICES ASSUME Init PROVE RecordsInv
  OBVIOUS
<1>1. \A t \in ClientThreads : client[t].pc = "idle"
  BY DEF Init, IdleClient
<1>2. \A s \in Spans : span[s].phase = "none" /\ span[s].error = FALSE
  BY DEF Init, Unborn
<1>3. \A r \in Requests : Answered(r)
  BY <1>2, SpanNames DEF Init, Answered
<1>4. \A c \in Calls : Carried(c) /\ Followed(c)
  BY <1>2, SpanNames DEF Init, Carried, Followed
<1> QED BY <1>1, <1>3, <1>4 DEF RecordsInv

\* The records of every reachable state tell what happened.
THEOREM RecordsInvariance == Spec => [](IInv /\ RecordsInv)
<1>1. Init => IInv /\ RecordsInv
  BY InitInv, RecordsInit
<1>2. IInv /\ RecordsInv /\ [Next]_vars => IInv' /\ RecordsInv'
  <2> SUFFICES ASSUME IInv, RecordsInv, [Next]_vars PROVE IInv' /\ RecordsInv'
    OBVIOUS
  <2>1. IInv'
    BY NextInv
  <2>2. /\ \A u \in ClientThreads, v \in WorkerType :
              client'[u] = v /\ v.pc # "idle" => Notes(v)'
        /\ \A q \in Requests : Answered(q)'
    BY <2>1, NotesStep
  <2>3. \A c \in Calls : Carried(c)' /\ Followed(c)'
    BY <2>1, CarriedStep, FollowedStep DEF RecordsInv
  <2> QED BY <2>1, <2>2, <2>3 DEF RecordsInv
<1> QED BY <1>1, <1>2, PTL DEF Spec

\* The metadata that the client interceptor injects is what the server
\* interceptor's NewSpan reads, and a status is sent after the span it belongs to
\* has ended: a request answered 200 has left one whole trace.
THEOREM WholeTrace == Spec => []AnsweredTraceIsWhole
<1>1. IInv /\ RecordsInv => AnsweredTraceIsWhole
  <2> SUFFICES ASSUME IInv, RecordsInv, NEW r \in Requests, response[r] = "200",
                      NEW k \in 1 .. LastCall
               PROVE  LET root == span[HttpSpan(r)]
                          callee == span[<<r, k>>]
                      IN  /\ callee.phase = "ended"
                          /\ root.kind # "noop" /\ callee.kind # "noop"
                             => /\ callee.kind = root.kind
                                /\ callee.parent = IF root.kind = "sampled"
                                                   THEN HttpSpan(r) ELSE NoSpan
    BY DEF AnsweredTraceIsWhole
  <2> DEFINE c == <<r, k>>
             id == HttpSpan(r)
  <2>1. c \in Calls /\ c[1] = r /\ id \in Spans
    BY SpanNames
  <2>2. rpc[c] = "ok"
    <3>1. response[r] = IF Bad(r) = {} THEN "200" ELSE "502"
      BY DEF RecordsInv, Answered
    <3>2. Bad(r) = {}
      BY <3>1
    <3> QED BY <3>2 DEF Bad
  <2>3. span[c].phase = "ended"
    BY <2>1, <2>2 DEF IInv, CallInv
  <2>4. metadata[c] = InjectContext(span[id], id)
    BY <2>1, <2>2 DEF RecordsInv, Carried
  <2>5. /\ span[c].kind = "noop" \/ metadata[c].kind \in {"none", span[c].kind}
        /\ span[c].parent = IF span[c].kind = "sampled" THEN metadata[c].from ELSE NoSpan
    BY <2>1, <2>3 DEF RecordsInv, Followed
  <2>6. span[id].kind \in Kinds
    BY <2>1 DEF IInv, TypeOK, SpanType
  <2>7. ASSUME span[id].kind # "noop", span[c].kind # "noop"
        PROVE  /\ span[c].kind = span[id].kind
               /\ span[c].parent = IF span[id].kind = "sampled" THEN id ELSE NoSpan
    <3>1. CASE span[id].kind = "unsampled"
      <4>1. metadata[c] = [kind |-> "unsampled", from |-> NoSpan]
        BY <3>1, <2>4 DEF InjectContext
      <4> QED BY <3>1, <4>1, <2>5, <2>7
    <3>2. CASE span[id].kind = "sampled"
      <4>1. metadata[c] = [kind |-> "sampled", from |-> id]
        BY <3>2, <2>4 DEF InjectContext
      <4> QED BY <3>2, <4>1, <2>5, <2>7
    <3> QED BY <2>6, <2>7, <3>1, <3>2 DEF Kinds
  <2> QED BY <2>3, <2>7
<1> QED BY <1>1, RecordsInvariance, PTL

\* SetError on the events by the interceptor, on the span by the helpers, on the
\* handler's event and the HTTP status by the handler all tell of the same RPCs,
\* whatever failed and whenever: every record of a failure agrees at the end.
THEOREM Agreement == Spec => []ErrorsAgree
<1>1. RecordsInv => ErrorsAgree
  <2> SUFFICES ASSUME RecordsInv, NEW r \in Requests, span[HttpSpan(r)].phase = "ended"
               PROVE  /\ response[r] = IF Bad(r) = {} THEN "200" ELSE "502"
                      /\ span[HttpSpan(r)].error = (Bad(r) # {})
                      /\ span[HttpSpan(r)].failed =
                            Bad(r) \cup (IF Bad(r) = {} THEN {} ELSE {0})
                      /\ \A k \in 1 .. LastCall : span[<<r, k>>].error => k \in Bad(r)
    BY DEF ErrorsAgree, Bad
  <2>1. Answered(r)
    BY DEF RecordsInv
  <2>2. \A k \in 1 .. LastCall : span[<<r, k>>].error => k \in Bad(r)
    BY SpanNames DEF RecordsInv, Followed, Bad
  <2> QED BY <2>1, <2>2 DEF Answered
<1> QED BY <1>1, RecordsInvariance, PTL
=============================================================================
