------------------------------ MODULE WebTrace ------------------------------
(***************************************************************************)
(* The HTTP programs that know each other only by their headers: curl and  *)
(* cpptrace call other servers, which may be any of the programs here;     *)
(* redis and mongo run a fixed sequence of commands; civetweb answers by   *)
(* itself, and is the one that can be stopped.                             *)
(*                                                                         *)
(* A user's request is hop 0 of a chain, a call that serving a hop makes is *)
(* the next hop.  A program serves hops with a pool of threads; a call that *)
(* nobody waits for any more is served all the same.  curl waits without a *)
(* limit, cpptrace for some seconds.                                       *)
(***************************************************************************)
EXTENDS AgentApi, FiniteSets

CONSTANTS Users,
          Depth,         \* Depth[u]: bound on the calls in the chain of u
          PoolSize,      \* PoolSize[a]: threads of program a
          Commands,      \* commands that redis and mongo send
          Registered,    \* programs whose agent registered before any request
          MaxCuts        \* bound on broken connections between programs

Relays == {"curl", "cpptrace"}
Stores == {"redis", "mongo"}
Apps == Relays \cup Stores \cup {"civetweb"}

ASSUME WebAssumption ==
    /\ Depth \in [Users -> Nat]
    /\ PoolSize \in [Apps -> Nat \ {0}]
    /\ Commands \in Nat \ {0}
    /\ Registered \subseteq Apps
    /\ MaxCuts \in Nat

Hops == UNION {{u} \X (0 .. Depth[u]) : u \in Users}
Caller(h) == <<h[1], h[2] - 1>>
Callee(h) == <<h[1], h[2] + 1>>

VARIABLES span,        \* span[h]: the span of hop h
          hop,         \* hop[h]: its thread, or its place before and after one
          response,    \* response[h]: the status written to the caller
          wrong,       \* wrong[h]: the events during which something failed
          ready,       \* programs whose agent is registered
          civetweb,    \* the place of civetweb's main
          cuts         \* broken connections so far

vars == <<span, hop, response, wrong, ready, civetweb, cuts>>

\* Events: of the handler, of each command, and of the outgoing call.
HandlerEvent == 0
CallEvent == Commands + 1
Events == 0 .. CallEvent

Absent == [pc |-> "none", app |-> "none", headers |-> NoContext, at |-> 0,
           broken |-> FALSE, calls |-> "none", result |-> "none"]

\* civetweb starts its server last of all; the others listen, their handlers set.
Init == /\ span = [h \in Hops |-> Unborn]
        /\ hop = [h \in Hops |-> Absent]
        /\ response = [h \in Hops |-> "none"]
        /\ wrong = [h \in Hops |-> {}]
        /\ ready = Registered
        /\ civetweb = "starting"
        /\ cuts = 0

Register(a) == /\ a \notin ready
               /\ ready' = ready \cup {a}
               /\ UNCHANGED <<span, hop, response, wrong, civetweb, cuts>>

-----------------------------------------------------------------------------
(* A hop reaches a program, and a thread of it. *)

Listens(a) == a = "civetweb" => civetweb \in {"no handlers", "root only", "serving"}

Sent(a, headers) == [Absent EXCEPT !.pc = "sent", !.app = a, !.headers = headers]

UserSends(h, a) ==
    /\ h[2] = 0 /\ hop[h].pc = "none"
    /\ Listens(a)
    /\ hop' = [hop EXCEPT ![h] = Sent(a, NoContext)]
    /\ UNCHANGED <<span, response, wrong, ready, civetweb, cuts>>

Serving(a) == {h \in Hops : hop[h].app = a /\ hop[h].pc \notin {"sent", "dropped", "done"}}
HasThread(h) == /\ hop[h].pc = "sent"
                /\ Cardinality(Serving(hop[h].app)) < PoolSize[hop[h].app]

\* NewSpan over the request's headers: trace_request, and the beginning of
\* handle_run_request, handle_users and handle_health of civetweb.
TraceRequest(h) ==
    LET a == hop[h].app
    IN  /\ HasThread(h)
        /\ a = "civetweb" => civetweb = "serving"
        /\ \E kind \in NewSpanKinds(a \in ready, hop[h].headers) :
              span' = [span EXCEPT ![h] = NewSpan(kind, hop[h].headers)]
        /\ hop' = [hop EXCEPT ![h].pc = "traced"]
        /\ UNCHANGED <<response, wrong, ready, civetweb, cuts>>

\* civetweb answers without a span: no handler is there yet, or the root's, which
\* takes every path until the others are set; later the landing page, and the
\* two traced handlers when they get no span.
ServeUntraced(h) ==
    /\ HasThread(h) /\ hop[h].app = "civetweb"
    /\ \E status \in CASE civetweb = "no handlers" -> {"404"}
                       [] civetweb = "root only"   -> {"200"}
                       [] civetweb = "serving"     -> {"200", "500"}
                       [] OTHER                    -> {} :
          response' = [response EXCEPT ![h] = status]
    /\ hop' = [hop EXCEPT ![h].pc = "done"]
    /\ UNCHANGED <<span, wrong, ready, civetweb, cuts>>

\* The handler's own event; handle_run_request of curl has none.
EnterHandler(h) ==
    /\ hop[h].pc = "traced" /\ hop[h].app # "curl"
    /\ span' = [span EXCEPT ![h] = NewSpanEvent(@, HandlerEvent)]
    /\ hop' = [hop EXCEPT ![h].pc = "handling"]
    /\ UNCHANGED <<response, wrong, ready, civetweb, cuts>>

\* handle_users of cpptrace, and of civetweb, which writes its answer before its
\* event and span end.
HandleUsers(h) ==
    /\ hop[h].pc = "handling" /\ hop[h].app \in {"cpptrace", "civetweb"}
    /\ hop' = [hop EXCEPT ![h].pc = "leaving", ![h].result = "ok"]
    /\ response' = [response EXCEPT ![h] = IF hop[h].app = "civetweb" THEN "200" ELSE @]
    /\ UNCHANGED <<span, wrong, ready, civetweb, cuts>>

-----------------------------------------------------------------------------
(* perform_curl_request and handle_outgoing. *)

OutgoingHeaders_Forwarded(h) == hop[h].headers                      \* mutant
OutgoingHeaders(h) == InjectContext(span[h], h)

\* The call's event, the context into its headers, and the call: to a program
\* here, or elsewhere; a curl without a handle makes no call, as if elsewhere
\* had answered at once.
BeginCall(h) ==
    /\ hop[h].pc = IF hop[h].app = "curl" THEN "traced" ELSE "handling"
    /\ hop[h].app \in Relays
    /\ span' = [span EXCEPT ![h] = NewSpanEvent(@, CallEvent)]
    /\ \/ \E a \in Apps :
             /\ Callee(h) \in Hops /\ Listens(a)
             /\ hop' = [hop EXCEPT ![h].pc = "calling", ![h].calls = "here",
                                   ![Callee(h)] = Sent(a, OutgoingHeaders(h))]
       \/ hop' = [hop EXCEPT ![h].pc = "calling", ![h].calls = "elsewhere"]
    /\ UNCHANGED <<response, wrong, ready, civetweb, cuts>>

CallsHere(h) == hop[h].pc = "calling" /\ hop[h].calls = "here"

\* curl records the failure on the call's event, cpptrace on the handler's.
EndCallEvent_Leaked(h, ok) == IF ok THEN EndEvent(span[h], CallEvent, FALSE)
                              ELSE span[h]                          \* mutant
EndCallEvent_Silent(h, ok) == EndEvent(span[h], CallEvent, FALSE)   \* mutant
EndCallEvent(h, ok) == EndEvent(span[h], CallEvent, ~ok /\ hop[h].app = "curl")

CallReturns(h, ok) ==
    /\ span' = [span EXCEPT ![h] = EndCallEvent(h, ok)]
    /\ hop' = [hop EXCEPT ![h].pc = IF hop[h].app = "curl" THEN "responding" ELSE "leaving",
                          ![h].result = IF ok THEN "ok" ELSE "bad"]
    /\ wrong' = [wrong EXCEPT ![h] = IF ok THEN @ ELSE @ \cup {CallEvent}]
    /\ UNCHANGED <<response, ready, civetweb>>

\* An answer of any status is a success; elsewhere may answer or not.
CallAnswered(h) ==
    /\ \/ /\ CallsHere(h) /\ response[Callee(h)] # "none"
          /\ CallReturns(h, TRUE)
       \/ /\ hop[h].pc = "calling" /\ hop[h].calls = "elsewhere"
          /\ \E ok \in BOOLEAN : CallReturns(h, ok)
    /\ UNCHANGED cuts

\* The callee was stopped before it took the call.
CallDropped(h) == /\ CallsHere(h) /\ hop[Callee(h)].pc = "dropped"
                  /\ CallReturns(h, FALSE)
                  /\ UNCHANGED cuts

\* Connection and read timeouts are set by cpptrace alone.
HasTimeout_No(h) == FALSE                                           \* mutant
HasTimeout(h) == hop[h].app = "cpptrace"

CallTimesOut(h) == /\ CallsHere(h) /\ HasTimeout(h)
                   /\ CallReturns(h, FALSE)
                   /\ UNCHANGED cuts

\* The connection breaks; the callee goes on.
CallCut(h) == /\ CallsHere(h) /\ cuts < MaxCuts
              /\ cuts' = cuts + 1
              /\ CallReturns(h, FALSE)

-----------------------------------------------------------------------------
(* run_redis_demo and run_mongo_demo. *)

\* redisConnectWithTimeout; for mongo the URI, as its driver connects later.
Connect(h) ==
    /\ hop[h].pc = "handling" /\ hop[h].app \in Stores
    /\ \/ /\ hop' = [hop EXCEPT ![h].pc = "command", ![h].at = 1]
          /\ UNCHANGED wrong
       \/ /\ hop' = [hop EXCEPT ![h].pc = "leaving", ![h].result = "bad"]
          /\ wrong' = [wrong EXCEPT ![h] = {HandlerEvent}]
    /\ UNCHANGED <<span, response, ready, civetweb, cuts>>

BeginCommand(h) ==
    /\ hop[h].pc = "command"
    /\ span' = [span EXCEPT ![h] = NewSpanEvent(@, hop[h].at)]
    /\ hop' = [hop EXCEPT ![h].pc = "executing"]
    /\ UNCHANGED <<response, wrong, ready, civetweb, cuts>>

\* What comes back: a result, an error, or nothing; after nothing, a redisContext
\* returns nothing ever again, while the driver of mongo connects anew.
Outcomes(h) == IF hop[h].broken THEN {"nothing"} ELSE {"result", "error", "nothing"}

EndCommandEvent_Reply(h, outcome) ==
    EndEvent(span[h], hop[h].at, outcome = "error")                 \* mutant
EndCommandEvent(h, outcome) == EndEvent(span[h], hop[h].at, outcome # "result")

LastCommand_OffByOne == Commands + 1                                \* mutant
LastCommand == Commands

EndCommand(h) ==
    /\ hop[h].pc = "executing"
    /\ \E outcome \in Outcomes(h) :
          /\ span' = [span EXCEPT ![h] = EndCommandEvent(h, outcome)]
          /\ hop' = [hop EXCEPT
               ![h] = IF @.at = LastCommand
                      THEN [@ EXCEPT !.pc = "leaving", !.result = "ok"]
                      ELSE [@ EXCEPT !.pc = "command", !.at = hop[h].at + 1,
                                     !.broken = \/ hop[h].broken
                                                \/ /\ hop[h].app = "redis"
                                                   /\ outcome = "nothing"]]
          /\ wrong' = [wrong EXCEPT ![h] = IF outcome = "result" THEN @
                                           ELSE @ \cup {hop[h].at}]
    /\ UNCHANGED <<response, ready, civetweb, cuts>>

-----------------------------------------------------------------------------
(* The handler returns, and the span ends. *)

\* The handler's event, with what handle_outgoing or handle_run_demo found wrong.
LeaveHandler(h) ==
    /\ hop[h].pc = "leaving"
    /\ span' = [span EXCEPT ![h] = EndEvent(@, HandlerEvent, hop[h].result = "bad")]
    /\ hop' = [hop EXCEPT ![h].pc = "responding"]
    /\ UNCHANGED <<response, wrong, ready, civetweb, cuts>>

Status(h) == CASE hop[h].result = "bad" /\ hop[h].app = "curl"    -> "500"
               [] hop[h].result = "bad" /\ hop[h].app \in Stores  -> "503"
               [] OTHER                                           -> "200"

\* trace_response, and the end of curl's and civetweb's handlers; httplib writes
\* the response when they are done.
TraceResponse(h) ==
    /\ hop[h].pc = "responding"
    /\ span' = [span EXCEPT ![h] = EndSpan(@, hop[h].app = "curl" /\ hop[h].result = "bad")]
    /\ response' = [response EXCEPT ![h] = Status(h)]
    /\ hop' = [hop EXCEPT ![h].pc = "done"]
    /\ UNCHANGED <<wrong, ready, civetweb, cuts>>

-----------------------------------------------------------------------------
(* main of civetweb. *)

\* mg_start, and the first and the last of the three handlers.
CivetwebStarts ==
    /\ civetweb \in {"starting", "no handlers", "root only"}
    /\ civetweb' = CASE civetweb = "starting"    -> "no handlers"
                     [] civetweb = "no handlers" -> "root only"
                     [] civetweb = "root only"   -> "serving"
    /\ UNCHANGED <<span, hop, response, wrong, ready, cuts>>

\* Enter is pressed: mg_stop takes no more requests.
CivetwebStops ==
    /\ civetweb = "serving"
    /\ civetweb' = "stopping"
    /\ hop' = [h \in Hops |-> IF hop[h].pc = "sent" /\ hop[h].app = "civetweb"
                              THEN [hop[h] EXCEPT !.pc = "dropped"] ELSE hop[h]]
    /\ UNCHANGED <<span, response, wrong, ready, cuts>>

\* mg_stop returns when its threads are done; pt_agent_shutdown comes after it.
MayShutDown_BeforeStop == TRUE                                      \* mutant
MayShutDown == Serving("civetweb") = {}

CivetwebShutsDown ==
    /\ civetweb = "stopping" /\ MayShutDown
    /\ civetweb' = "shut down"
    /\ span' = [h \in Hops |-> IF hop[h].app = "civetweb" THEN Lose(span[h]) ELSE span[h]]
    /\ UNCHANGED <<hop, response, wrong, ready, cuts>>

-----------------------------------------------------------------------------

ThreadStep(h) == \/ TraceRequest(h) \/ ServeUntraced(h) \/ EnterHandler(h)
                 \/ HandleUsers(h) \/ BeginCall(h) \/ CallAnswered(h)
                 \/ CallDropped(h) \/ CallTimesOut(h) \/ Connect(h)
                 \/ BeginCommand(h) \/ EndCommand(h) \/ LeaveHandler(h)
                 \/ TraceResponse(h)

\* The users have sent what they will, or wait for an answer.
Rests == /\ \A h \in Hops : h[2] = 0 => hop[h].pc # "none"
         /\ UNCHANGED vars

Next == \/ \E h \in Hops : \/ \E a \in Apps : UserSends(h, a)
                           \/ ThreadStep(h)
                           \/ CallCut(h)
        \/ \E a \in Apps : Register(a)
        \/ CivetwebStarts \/ CivetwebStops \/ CivetwebShutsDown
        \/ Rests

Spec == Init /\ [][Next]_vars

\* Threads run, elsewhere answers or fails, and civetweb sets up its server.
FairSpec == /\ Spec
            /\ \A h \in Hops : WF_vars(ThreadStep(h))
            /\ WF_vars(CivetwebStarts)
-----------------------------------------------------------------------------
(* Properties. *)

HopRecords ==
    [pc : {"none", "sent", "traced", "handling", "calling", "command", "executing",
           "leaving", "responding", "done", "dropped"},
     app : Apps \cup {"none"},
     headers : [kind : {"none", "unsampled", "sampled"}, from : Hops \cup {NoSpan}],
     at : 0 .. Commands, broken : BOOLEAN, calls : {"none", "here", "elsewhere"},
     result : {"none", "ok", "bad"}]

TypeOK ==
    /\ span \in [Hops -> SpanType(Hops, Events)]
    /\ hop \in [Hops -> HopRecords]
    /\ response \in [Hops -> {"none", "200", "404", "500", "503"}]
    /\ wrong \in [Hops -> SUBSET Events]
    /\ ready \subseteq Apps
    /\ civetweb \in {"starting", "no handlers", "root only", "serving", "stopping",
                     "shut down"}
    /\ cuts \in 0 .. MaxCuts

\* A chain is one trace: a hop continues the decision and the trace of the hop
\* that called it, whoever serves it, and is sampled under no other parent;
\* behind a program without a registered agent a new trace begins.  The span of
\* an answered call has been delivered, but for civetweb, which answers first.
ChainIsOneTrace ==
    \A h \in Hops : h[2] > 0 /\ span[h].phase # "none" =>
        LET c == Caller(h)
        IN  /\ span[c].kind = "sampled" => /\ span[h].kind \in {"sampled", "noop"}
                                           /\ span[h].kind = "sampled" => span[h].parent = c
            /\ span[c].kind = "unsampled" => span[h].kind \in {"unsampled", "noop"}
            /\ span[c].kind # "sampled" => span[h].parent = NoSpan
            /\ hop[c].result = "ok" /\ hop[h].app # "civetweb" => span[h].phase = "ended"

\* A hop that has not answered yet is served within the event of the call that made
\* it, the innermost of its caller's span.  Where the caller has gone on without the
\* answer, a failed event of its span says so, of curl's at once, of cpptrace's when
\* it leaves the handler.
CallsNest ==
    \A h \in Hops : h[2] > 0 /\ span[h].phase = "open" /\ response[h] = "none" =>
        LET c == span[Caller(h)]
        IN  \/ c.phase = "open" /\ c.stack # <<>> /\ c.stack[Len(c.stack)] = CallEvent
            \/ c.phase = "open" /\ hop[Caller(h)].pc = "leaving"
            \/ c.failed # {}

\* The answer, the span and its events tell the same story of what went wrong,
\* each program in its way: curl fails with its call; cpptrace answers 200 and
\* marks the handler's event, if and only if its call failed; redis fails if it
\* cannot connect and else records each command, those after a lost connection
\* included, as mongo does.
RecordsAgree ==
    \A h \in Hops : span[h].phase = "ended" =>
        LET bad == wrong[h]
        IN  CASE hop[h].app = "curl" ->
                   /\ span[h].failed = bad
                   /\ (response[h] = "500") = (bad # {}) /\ span[h].error = (bad # {})
              [] hop[h].app = "cpptrace" ->
                   /\ span[h].failed = IF bad # {} THEN {HandlerEvent} ELSE {}
                   /\ response[h] = "200" /\ ~span[h].error
              [] hop[h].app \in Stores ->
                   /\ span[h].failed = bad /\ ~span[h].error
                   /\ (response[h] = "503") = (HandlerEvent \in bad)
                   /\ hop[h].broken => Commands \in bad
              [] OTHER -> span[h].failed = {} /\ response[h] = "200"

\* A call of handle_outgoing that failed is on record on its sampled span, as the
\* README of cpptrace and the handler's own comment say.  (It is not: the handler
\* marks an event of the span, and never the span itself.)
FailureOnSpan ==
    \A h \in Hops : /\ hop[h].app = "cpptrace" /\ wrong[h] # {}
                    /\ span[h].kind = "sampled" /\ span[h].phase = "ended"
                    => span[h].error

\* An orderly stop of civetweb loses no span: mg_stop has waited for the threads
\* when the agent is shut down, for those that have answered already as well.
StopLosesNothing ==
    \A h \in Hops : hop[h].app = "civetweb" => span[h].phase # "lost"

\* Every thread of curl waits for a request that only a thread of curl can serve.
CurlClogged ==
    /\ Cardinality(Serving("curl")) = PoolSize["curl"]
    /\ \A h \in Serving("curl") : /\ CallsHere(h)
                                  /\ hop[Callee(h)].app = "curl"
                                  /\ hop[Callee(h)].pc \in {"sent", "calling"}

\* Every hop ends, with its program's pool full of calls to itself or of calls
\* in a ring, through stops and broken connections: the timeout of cpptrace
\* frees its threads.  Only curl can be clogged for ever, and only by itself.
HopsEnd ==
    \A h \in Hops : hop[h].pc # "none" ~>
        (hop[h].pc \in {"done", "dropped"} \/ []CurlClogged)

U == INSTANCE SpanUse WITH Spans <- Hops

\* The five programs use the agent as SpanProtocol demands.
FollowsSpanProtocol == U!FollowsProtocol
=============================================================================
