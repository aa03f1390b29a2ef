-------------------------- MODULE MysqlDemoProofs --------------------------
(***************************************************************************)
(* Proofs about MysqlDemo, for any number of requests and workers, any     *)
(* statements, and any number of outages, crashes and stops.               *)
(***************************************************************************)
EXTENDS MysqlDemo, AgentApiProofs, TLAPS

-----------------------------------------------------------------------------
(* The inductive invariant, in four layers, each on top of the ones before.  *)

\* The open events of the request of the busy worker v.
OpenEvents(v) ==
    CASE v.pc \in {"traced", "respond"} -> <<>>
      [] v.pc \in {"connect", "replacing", "closing", "leave"} -> <<HandlerEvent>>
      [] v.pc \in {"statement", "told"} -> <<HandlerEvent, DemoEvent>>
      [] v.pc = "executing" -> <<HandlerEvent, DemoEvent, v.at>>

InDemo == {"connect", "replacing", "closing", "statement", "executing", "told"}

\* What a busy worker v does, and what is on record of its request.
Serves(v, s, answer) ==
    /\ v.request \in Requests
    /\ v.pc \in InDemo => v.request \in Demos
    /\ v.pc \notin {"replacing", "closing"} => v.old = NoRequest
    /\ v.pc \in {"statement", "executing"} => v.at \in 1 .. Len(Statements)
    /\ s.phase = "open" /\ s.stack = OpenEvents(v)
    /\ answer = "none"

WorkerInv(w) ==
    IF worker[w].pc = "idle" THEN worker[w] = Idle
    ELSE Serves(worker[w], span[worker[w].request], response[worker[w].request])

WorkersApart == \A v, w \in Workers :
    worker[v].pc # "idle" /\ worker[w].pc # "idle"
        /\ worker[v].request = worker[w].request => v = w

RequestInv(r) ==
    /\ span[r].phase = "none" => span[r] = Unborn
    /\ response[r] # "none" => span[r].phase = "ended"

\* Who serves what, and how far it is.
ServiceInv == /\ TypeOK
              /\ \A w \in Workers : WorkerInv(w)
              /\ WorkersApart
              /\ \A r \in Requests : RequestInv(r)

\* Demo r has stored its session, or will never store one: a demo stores once.
HasStored(r) ==
    /\ span[r].phase # "none"
    /\ \A w \in Workers : worker[w].request = r =>
          worker[w].pc \notin {"traced", "connect", "replacing"}

\* The shared session_: what it holds was stored and not closed, the session a
\* worker is about to store is there, and the one it is about to close has
\* been replaced for good.
SessionInv ==
    /\ SessionNeverDangles
    /\ session # NoRequest => HasStored(session)
    /\ \A w \in Workers :
          /\ worker[w].old # NoRequest => HasStored(worker[w].old)
          /\ worker[w].pc = "replacing" => worker[w].request \in live
          /\ worker[w].pc = "closing" /\ worker[w].old # NoRequest =>
                worker[w].old # session

\* A demo that met no other has session_ to itself.
Alone(w) == worker[w].request \in Demos /\ "demo" \notin company[worker[w].request]

AloneInv(w) ==
    /\ \A v \in Workers \ {w} : worker[v].request \notin Demos
    /\ worker[w].pc = "replacing" => worker[w].old = session
    /\ worker[w].pc = "closing" => worker[w].old \in live \cup {NoRequest}
    /\ worker[w].pc \in {"closing", "statement", "executing"} =>
          session = worker[w].request
    /\ worker[w].pc = "executing" => worker[w].on = session /\ ~worker[w].raced

\* A session other than the one session_ holds is on its way in or out.
OnItsWay(x) == \E w \in Workers :
    \/ worker[w].pc = "replacing" /\ x = worker[w].request
    \/ worker[w].pc = "closing" /\ x = worker[w].old

CompanyInv ==
    /\ \A w \in Workers : Alone(w) => AloneInv(w)
    /\ (\A r \in Demos : "demo" \notin company[r]) =>
          \A x \in live : x = session \/ OnItsWay(x)

-----------------------------------------------------------------------------
(* The report of a demo. *)

\* What the code's statements have in common: the table is created first, and
\* a user is inserted once, after the table was cleared.
SetsUpFirst ==
    /\ Statements[1] = "create"
    /\ \A k \in Inserts : /\ \E j \in 1 .. k - 1 : Statements[j] = "clear"
                          /\ \A j \in 1 .. k - 1 : Statements[j] # Statements[k]

Missing == {k \in 1 .. Len(Statements) : Statements[k] = "missing"}

\* The statements before k have had their effect, and those that ask for a
\* missing table have failed.
RanUpTo(k, done, failed) ==
    /\ done = (1 .. k - 1) \ Missing
    /\ failed = (1 .. k - 1) \cap Missing

\* The table t is ready for the statements from k on.
TableReady(t, k) ==
    /\ k > 1 => t.exists
    /\ (\E j \in 1 .. k - 1 : Statements[j] = "clear") =>
          \A j \in k .. Len(Statements) :
             Statements[j] \in Users => Statements[j] \notin t.users

\* A demo that met neither another demo nor an outage.
Undisturbed(w) == worker[w].request \in Demos /\ company[worker[w].request] = {}

ReportInv(w) ==
    LET v == worker[w]
        r == v.request
    IN  /\ v.pc \in {"replacing", "closing", "statement", "executing"} =>
              dbUp /\ r \in connected
        /\ v.pc \in {"traced", "connect", "replacing", "closing"} =>
              RanUpTo(1, effects[r], span[r].failed)
        /\ v.pc \in {"statement", "executing"} =>
              TableReady(table, v.at) /\ RanUpTo(v.at, effects[r], span[r].failed)
        /\ v.pc = "told" \/ (v.pc \in {"leave", "respond"} /\ v.status = "200") =>
              RanUpTo(Len(Statements) + 1, effects[r], span[r].failed)

ReportsInv ==
    /\ \A w \in Workers : Undisturbed(w) => ReportInv(w)
    /\ \A r \in Requests : span[r].phase = "none" => effects[r] = {}
    /\ \A r \in Demos : response[r] = "200" /\ company[r] = {} =>
          RanUpTo(Len(Statements) + 1, effects[r], span[r].failed)

-----------------------------------------------------------------------------
(* The service: who serves what. *)

\* The events of a span, and the first statement.
LEMMA Lengths == /\ Len(Statements) \in Nat \ {0}
                 /\ HandlerEvent \in Events /\ DemoEvent \in Events
                 /\ 1 .. Len(Statements) \subseteq Events
                 /\ 1 \in 1 .. Len(Statements)
<1>1. Len(Statements) \in Nat /\ Len(Statements) # 0
  BY MysqlAssumption
<1> QED BY <1>1, SMT DEF HandlerEvent, DemoEvent, Events

\* What the invariant says of a busy worker and its request.
LEMMA Busy ==
    ASSUME ServiceInv, NEW w \in Workers, worker[w].pc # "idle"
    PROVE  /\ worker[w].request \in Requests
           /\ Serves(worker[w], span[worker[w].request],
                     response[worker[w].request])
           /\ span[worker[w].request] \in SpanRecords
           /\ worker[w] \in WorkerRecords
BY DEF ServiceInv, WorkerInv, Serves, TypeOK

\* The idle worker is no demo's.
LEMMA IdleServesNone ==
    /\ Idle \in WorkerRecords /\ Idle.pc = "idle" /\ Idle.request = NoRequest
    /\ Idle.old = NoRequest /\ NoRequest \notin Requests /\ NoRequest \notin Demos
<1>1. Idle \in WorkerRecords
  BY Lengths, SMT DEF Idle, WorkerRecords
<1> QED BY <1>1, MysqlAssumption DEF Idle

\* Nothing has happened yet.
LEMMA InitService == Init => ServiceInv
<1> SUFFICES ASSUME Init PROVE ServiceInv
  OBVIOUS
<1>1. TypeOK
  <2>1. Unborn \in SpanRecords
    BY DEF Unborn, SpanRecords, SpanType, Phases, Kinds
  <2>2. span \in [Requests -> SpanRecords]
    BY <2>1 DEF Init
  <2>3. worker \in [Workers -> WorkerRecords]
    BY IdleServesNone DEF Init
  <2>4. /\ response \in [Requests -> {"none", "200", "503"}]
        /\ session \in Demos \cup {NoRequest} /\ live \subseteq Demos
        /\ connected \subseteq live
        /\ table \in [exists : BOOLEAN, users : SUBSET Users]
        /\ dbUp \in BOOLEAN /\ up \in BOOLEAN
    BY DEF Init
  <2>5. /\ effects \in [Requests -> SUBSET (1 .. Len(Statements))]
        /\ company \in [Requests -> SUBSET {"demo", "outage", "undefined"}]
    BY DEF Init
  <2>6. faults \in 0 .. MaxFaults
    BY MysqlAssumption, SMT DEF Init
  <2> QED BY <2>2, <2>3, <2>4, <2>5, <2>6 DEF TypeOK
<1>2. \A w \in Workers : WorkerInv(w)
  BY IdleServesNone DEF Init, WorkerInv
<1>3. WorkersApart
  BY IdleServesNone DEF Init, WorkersApart
<1>4. \A r \in Requests : RequestInv(r)
  BY DEF Init, RequestInv, Unborn
<1> QED BY <1>1, <1>2, <1>3, <1>4 DEF ServiceInv

\* The record of the worker u is as it was, but for a race it may be in.
AsBefore(u) ==
    /\ worker[u].pc = "idle" => worker'[u] = worker[u]
    /\ worker'[u].pc = worker[u].pc /\ worker'[u].request = worker[u].request
    /\ worker'[u].old = worker[u].old /\ worker'[u].at = worker[u].at
    /\ worker'[u].on = worker[u].on /\ worker'[u].status = worker[u].status

\* A step of the busy worker w, which becomes v, on the span s of its request.
Moves(w, v, s) ==
    /\ worker[w].pc # "idle" /\ v.pc # "idle" /\ v.request = worker[w].request
    /\ span' = [span EXCEPT ![v.request] = s]
    /\ worker'[w] = v
    /\ \A u \in Workers \ {w} : AsBefore(u)
    /\ response' = response
    /\ Serves(v, s, "none")

\* What such a step means to the others.
Steps(w) ==
    /\ worker[w].pc # "idle" /\ worker'[w].pc # "idle"
    /\ worker'[w].request = worker[w].request
    /\ \A u \in Workers \ {w} : AsBefore(u)
    /\ response' = response
    /\ \A r \in Requests : span'[r].phase = span[r].phase
    /\ \A r \in Requests \ {worker[w].request} : span'[r] = span[r]

\* Such a step keeps the service in order.
LEMMA ServiceMoves ==
    ASSUME ServiceInv, TypeOK', NEW w \in Workers, NEW v, NEW s, Moves(w, v, s)
    PROVE  ServiceInv' /\ Steps(w)
<1> DEFINE r == worker[w].request
<1>1. r \in Requests /\ v.request = r /\ response[r] = "none"
      /\ span[r].phase = "open"
  BY Busy DEF Moves, Serves
<1>2. /\ span'[r] = s /\ worker'[w] = v
      /\ \A x \in Requests \ {r} : span'[x] = span[x]
      /\ s.phase = "open"
  BY <1>1 DEF Moves, Serves, ServiceInv, TypeOK
<1>3. \A u \in Workers : WorkerInv(u)'
  <2> SUFFICES ASSUME NEW u \in Workers PROVE WorkerInv(u)'
    OBVIOUS
  <2>1. CASE u = w
    BY <2>1, <1>1, <1>2 DEF Moves, WorkerInv, Serves
  <2>2. CASE u # w
    <3>1. WorkerInv(u) /\ AsBefore(u) /\ response' = response
      BY <2>2 DEF ServiceInv, Moves
    <3>2. worker[u].pc # "idle" => worker[u].request # r
      BY <2>2 DEF ServiceInv, WorkersApart, Moves
    <3>3. CASE worker[u].pc = "idle"
      BY <3>1, <3>3 DEF AsBefore, WorkerInv
    <3>4. CASE worker[u].pc # "idle"
      <4>1. OpenEvents(worker'[u]) = OpenEvents(worker[u])
        BY <3>1 DEF OpenEvents, AsBefore
      <4>2. Serves(worker[u], span[worker[u].request], response[worker[u].request])
        BY <3>1, <3>4 DEF WorkerInv
      <4>3. span'[worker[u].request] = span[worker[u].request]
        BY <4>2, <3>2, <3>4, <1>2 DEF Serves
      <4> QED BY <4>1, <4>2, <4>3, <3>1, <3>4 DEF Serves, WorkerInv, AsBefore
    <3> QED BY <3>3, <3>4
  <2> QED BY <2>1, <2>2
<1>4. WorkersApart'
  BY <1>1, <1>2 DEF ServiceInv, WorkersApart, Moves, AsBefore
<1>5. \A x \in Requests : RequestInv(x)'
  <2> SUFFICES ASSUME NEW x \in Requests PROVE RequestInv(x)'
    OBVIOUS
  <2>1. RequestInv(x) /\ response' = response
    BY DEF ServiceInv, Moves
  <2>2. CASE x = r
    BY <2>1, <2>2, <1>1, <1>2 DEF RequestInv
  <2>3. CASE x # r
    BY <2>1, <2>3, <1>2 DEF RequestInv
  <2> QED BY <2>2, <2>3
<1>6. Steps(w)
  BY <1>1, <1>2 DEF Steps, Moves
<1> QED BY <1>3, <1>4, <1>5, <1>6 DEF ServiceInv

\* A step that leaves every worker and span as it was.
LEMMA ServiceRests ==
    ASSUME ServiceInv, TypeOK', UNCHANGED <<span, worker, response>>
    PROVE  ServiceInv'
<1>1. \A u \in Workers : WorkerInv(u)'
  BY DEF ServiceInv, WorkerInv
<1>2. WorkersApart' /\ \A x \in Requests : RequestInv(x)'
  BY DEF ServiceInv, WorkersApart, RequestInv
<1> QED BY <1>1, <1>2 DEF ServiceInv

\* The handler's scoped event.
LEMMA EnterHandlerMoves ==
    ASSUME ServiceInv, NEW w \in Workers, EnterHandler(w)
    PROVE  ServiceInv' /\ Steps(w)
<1> DEFINE r == worker[w].request
           v == IF r \in Demos THEN [worker[w] EXCEPT !.pc = "connect"]
                ELSE [worker[w] EXCEPT !.pc = "leave", !.status = "200"]
           s == NewSpanEvent(span[r], HandlerEvent)
<1>1. worker[w].pc = "traced"
  BY DEF EnterHandler
<1>2. /\ r \in Requests /\ Serves(worker[w], span[r], response[r])
      /\ span[r] \in SpanRecords /\ worker[w] \in WorkerRecords
  BY <1>1, Busy
<1>3. /\ span' = [span EXCEPT ![r] = s]
      /\ worker' = [worker EXCEPT ![w] = v]
      /\ UNCHANGED <<response, sessionVars, table, historyVars, processVars>>
  BY DEF EnterHandler
<1>4. s \in SpanRecords
  BY <1>2, Lengths, ApiTypes DEF SpanRecords
<1>5. /\ v \in WorkerRecords /\ v.request = r /\ v.old = worker[w].old
      /\ v.pc \in {"connect", "leave"}
      /\ v.pc = "connect" => r \in Demos
  BY <1>2 DEF WorkerRecords
<1>6. s.phase = "open" /\ s.stack = <<HandlerEvent>>
  BY <1>1, <1>2, ShortStacks
     DEF Serves, OpenEvents, NewSpanEvent, SpanRecords, SpanType
<1> HIDE DEF s, v
<1>7. Moves(w, v, s)
  <2>1. Serves(v, s, "none")
    BY <1>1, <1>2, <1>5, <1>6 DEF Serves, OpenEvents, InDemo
  <2>2. worker'[w] = v /\ \A u \in Workers \ {w} : AsBefore(u)
    BY <1>3 DEF AsBefore, ServiceInv, TypeOK
  <2> QED BY <1>1, <1>3, <1>5, <2>1, <2>2 DEF Moves
<1>8. span' \in [Requests -> SpanRecords] /\ worker' \in [Workers -> WorkerRecords]
  BY <1>2, <1>3, <1>4, <1>5 DEF ServiceInv, TypeOK
<1>9. TypeOK'
  BY <1>3, <1>8 DEF ServiceInv, TypeOK, sessionVars, historyVars, processVars
<1> QED BY <1>7, <1>9, ServiceMoves

\* The handler returns.
LEMMA LeaveHandlerMoves ==
    ASSUME ServiceInv, NEW w \in Workers, LeaveHandler(w)
    PROVE  ServiceInv' /\ Steps(w)
<1> DEFINE r == worker[w].request
           v == [worker[w] EXCEPT !.pc = "respond"]
           s == EndEvent(span[r], HandlerEvent, FALSE)
<1>1. worker[w].pc = "leave"
  BY DEF LeaveHandler
<1>2. /\ r \in Requests /\ Serves(worker[w], span[r], response[r])
      /\ span[r] \in SpanRecords /\ worker[w] \in WorkerRecords
  BY <1>1, Busy
<1>3. /\ span' = [span EXCEPT ![r] = s]
      /\ worker' = [worker EXCEPT ![w] = v]
      /\ UNCHANGED <<response, sessionVars, table, historyVars, processVars>>
  BY DEF LeaveHandler
<1>4. s \in SpanRecords
  BY <1>2, Lengths, ApiTypes DEF SpanRecords
<1>5. /\ v \in WorkerRecords /\ v.request = r /\ v.old = worker[w].old
      /\ v.pc = "respond"
  BY <1>2 DEF WorkerRecords
<1>6. s.phase = "open" /\ s.stack = <<>>
  BY <1>1, <1>2, ShortStacks
     DEF Serves, OpenEvents, EndEvent, SpanRecords, SpanType
<1> HIDE DEF s, v
<1>7. Moves(w, v, s)
  <2>1. Serves(v, s, "none")
    BY <1>1, <1>2, <1>5, <1>6 DEF Serves, OpenEvents, InDemo
  <2>2. worker'[w] = v /\ \A u \in Workers \ {w} : AsBefore(u)
    BY <1>3 DEF AsBefore, ServiceInv, TypeOK
  <2> QED BY <1>1, <1>3, <1>5, <2>1, <2>2 DEF Moves
<1>8. span' \in [Requests -> SpanRecords] /\ worker' \in [Workers -> WorkerRecords]
  BY <1>2, <1>3, <1>4, <1>5 DEF ServiceInv, TypeOK
<1>9. TypeOK'
  BY <1>3, <1>8 DEF ServiceInv, TypeOK, sessionVars, historyVars, processVars
<1> QED BY <1>7, <1>9, ServiceMoves

\* connect() builds a session, or throws.
LEMMA OpenSessionMoves ==
    ASSUME ServiceInv, NEW w \in Workers, OpenSession(w)
    PROVE  ServiceInv' /\ Steps(w)
<1> DEFINE r == worker[w].request
<1>1. worker[w].pc = "connect"
  BY DEF OpenSession
<1>2. /\ r \in Requests /\ r \in Demos
      /\ Serves(worker[w], span[r], response[r])
      /\ span[r] \in SpanRecords /\ worker[w] \in WorkerRecords
  BY <1>1, Busy DEF Serves, InDemo
<1>3. PICK v \in {[worker[w] EXCEPT !.pc = "replacing", !.old = session],
                 [worker[w] EXCEPT !.pc = "leave", !.status = "503"]} :
         worker' = [worker EXCEPT ![w] = v]
  BY DEF OpenSession
<1>4. /\ UNCHANGED <<span, response, session, table, historyVars, processVars>>
      /\ live' \subseteq Demos /\ connected' \subseteq live'
  BY <1>2 DEF OpenSession, Opened, ServiceInv, TypeOK
<1>5. /\ v \in WorkerRecords /\ v.request = r
      /\ v.pc = "replacing" \/ (v.pc = "leave" /\ v.old = worker[w].old)
  <2>1. session \in Demos \cup {NoRequest}
    BY DEF ServiceInv, TypeOK
  <2>2. CASE v = [worker[w] EXCEPT !.pc = "replacing", !.old = session]
    BY <1>2, <2>1, <2>2 DEF WorkerRecords
  <2>3. CASE v = [worker[w] EXCEPT !.pc = "leave", !.status = "503"]
    BY <1>2, <2>3 DEF WorkerRecords
  <2> QED BY <2>2, <2>3
<1>6. span' = [span EXCEPT ![r] = span[r]]
  BY <1>4 DEF ServiceInv, TypeOK
<1>7. Moves(w, v, span[r])
  <2>1. Serves(v, span[r], "none")
    BY <1>1, <1>2, <1>5 DEF Serves, OpenEvents, InDemo
  <2>2. worker'[w] = v /\ \A u \in Workers \ {w} : AsBefore(u)
    BY <1>3 DEF AsBefore, ServiceInv, TypeOK
  <2> QED BY <1>1, <1>4, <1>5, <1>6, <2>1, <2>2 DEF Moves
<1>8. worker' \in [Workers -> WorkerRecords]
  BY <1>3, <1>5 DEF ServiceInv, TypeOK
<1>9. TypeOK'
  BY <1>4, <1>8 DEF ServiceInv, TypeOK, historyVars, processVars
<1> QED BY <1>7, <1>9, ServiceMoves

\* The new session is stored.
LEMMA WriteNewMoves ==
    ASSUME ServiceInv, NEW w \in Workers, WriteNew(w)
    PROVE  ServiceInv' /\ Steps(w)
<1> DEFINE r == worker[w].request
           v == [worker[w] EXCEPT !.pc = "closing"]
<1>1. worker[w].pc = "replacing"
  BY DEF WriteNew
<1>2. /\ r \in Requests /\ r \in Demos
      /\ Serves(worker[w], span[r], response[r])
      /\ span[r] \in SpanRecords /\ worker[w] \in WorkerRecords
  BY <1>1, Busy DEF Serves, InDemo
<1>3. /\ worker' = [worker EXCEPT ![w] = v] /\ session' = r
      /\ UNCHANGED <<span, response, live, connected, table, historyVars, processVars>>
  BY DEF WriteNew, Stored
<1>4. v \in WorkerRecords /\ v.request = r /\ v.pc = "closing"
  BY <1>2 DEF WorkerRecords
<1>5. span' = [span EXCEPT ![r] = span[r]]
  BY <1>3 DEF ServiceInv, TypeOK
<1> HIDE DEF v
<1>6. Moves(w, v, span[r])
  <2>1. Serves(v, span[r], "none")
    BY <1>1, <1>2, <1>4 DEF Serves, OpenEvents, InDemo
  <2>2. worker'[w] = v /\ \A u \in Workers \ {w} : AsBefore(u)
    BY <1>3 DEF AsBefore, ServiceInv, TypeOK
  <2> QED BY <1>1, <1>3, <1>4, <1>5, <2>1, <2>2 DEF Moves
<1>7. worker' \in [Workers -> WorkerRecords]
  BY <1>3, <1>4 DEF ServiceInv, TypeOK
<1>8. TypeOK'
  BY <1>2, <1>3, <1>7 DEF ServiceInv, TypeOK, historyVars, processVars
<1> QED BY <1>6, <1>8, ServiceMoves

\* The replaced session is closed, and runDemoHandler opens its scoped event.
LEMMA CloseOldMoves ==
    ASSUME ServiceInv, NEW w \in Workers, CloseOld(w)
    PROVE  ServiceInv' /\ Steps(w)
<1> DEFINE r == worker[w].request
           v == [worker[w] EXCEPT !.pc = "statement", !.old = NoRequest, !.at = 1]
           s == NewSpanEvent(span[r], DemoEvent)
           other(u) == IF worker[u].pc = "executing" /\ worker[u].on \in Closed(w)
                       THEN [worker[u] EXCEPT !.raced = TRUE] ELSE worker[u]
<1>1. worker[w].pc = "closing"
  BY DEF CloseOld
<1>2. /\ r \in Requests /\ r \in Demos
      /\ Serves(worker[w], span[r], response[r])
      /\ span[r] \in SpanRecords /\ worker[w] \in WorkerRecords
  BY <1>1, Busy DEF Serves, InDemo
<1>3. /\ span' = [span EXCEPT ![r] = s]
      /\ worker' = [u \in Workers |-> IF u = w THEN v ELSE other(u)]
      /\ live' = live \ Closed(w) /\ connected' = connected \ Closed(w)
      /\ UNCHANGED <<response, session, table, historyVars, processVars>>
  BY DEF CloseOld
<1>4. s \in SpanRecords
  BY <1>2, Lengths, ApiTypes DEF SpanRecords
<1>5. /\ v \in WorkerRecords /\ v.request = r /\ v.pc = "statement"
      /\ v.old = NoRequest /\ v.at = 1
  <2>1. 1 \in 0 .. Len(Statements) + 1
    BY Lengths, SMT
  <2> QED BY <1>2, <2>1 DEF WorkerRecords
<1>6. s.phase = "open" /\ s.stack = <<HandlerEvent, DemoEvent>>
  <2>1. span[r].stack = <<HandlerEvent>> /\ span[r].phase = "open"
    BY <1>1, <1>2 DEF Serves, OpenEvents
  <2>2. s.phase = span[r].phase /\ s.stack = Append(span[r].stack, DemoEvent)
    BY <1>2 DEF NewSpanEvent, SpanRecords, SpanType
  <2>3. Append(<<HandlerEvent>>, DemoEvent) = <<HandlerEvent, DemoEvent>>
    BY ShortStacks
  <2> QED BY <2>1, <2>2, <2>3
<1>7. ASSUME NEW u \in Workers \ {w}
      PROVE  worker'[u] \in WorkerRecords /\ AsBefore(u)
  <2>1. worker'[u] = other(u) /\ worker[u] \in WorkerRecords
    BY <1>3 DEF ServiceInv, TypeOK
  <2> QED BY <2>1 DEF AsBefore, WorkerRecords
<1> HIDE DEF s, v, other
<1>8. Moves(w, v, s)
  <2>1. Serves(v, s, "none")
    BY <1>2, <1>5, <1>6, Lengths DEF Serves, OpenEvents, InDemo
  <2>2. worker'[w] = v
    BY <1>3
  <2> QED BY <1>1, <1>3, <1>5, <1>7, <2>1, <2>2 DEF Moves
<1>9. span' \in [Requests -> SpanRecords] /\ worker' \in [Workers -> WorkerRecords]
  <2>1. worker' = [u \in Workers |-> worker'[u]] /\ worker'[w] = v
    BY <1>3
  <2>2. worker' \in [Workers -> WorkerRecords]
    BY <2>1, <1>5, <1>7
  <2> QED BY <2>2, <1>2, <1>3, <1>4 DEF ServiceInv, TypeOK
<1>10. TypeOK'
  BY <1>3, <1>9 DEF ServiceInv, TypeOK, historyVars, processVars
<1> QED BY <1>8, <1>10, ServiceMoves

\* A statement begins on the session that session_ holds.
LEMMA BeginStatementMoves ==
    ASSUME ServiceInv, NEW w \in Workers, BeginStatement(w)
    PROVE  ServiceInv' /\ Steps(w)
<1> DEFINE r == worker[w].request
           k == worker[w].at
           racers == {u \in Workers \ {w} : /\ worker[u].pc = "executing"
                                            /\ worker[u].on = session}
           v == [worker[w] EXCEPT !.pc = "executing", !.on = session,
                                  !.raced = racers # {}]
           s == NewSpanEvent(span[r], k)
           other(u) == [worker[u] EXCEPT !.raced = @ \/ u \in racers]
<1>1. worker[w].pc = "statement"
  BY DEF BeginStatement
<1>2. /\ r \in Requests /\ r \in Demos
      /\ Serves(worker[w], span[r], response[r])
      /\ span[r] \in SpanRecords /\ worker[w] \in WorkerRecords
  BY <1>1, Busy DEF Serves, InDemo
<1>3. /\ span' = [span EXCEPT ![r] = s]
      /\ worker' = [u \in Workers |-> IF u = w THEN v ELSE other(u)]
      /\ UNCHANGED <<response, sessionVars, table, historyVars, processVars>>
  BY DEF BeginStatement
<1>4. k \in 1 .. Len(Statements) /\ k \in Events
  BY <1>1, <1>2, Lengths DEF Serves
<1>5. s \in SpanRecords
  BY <1>2, <1>4, ApiTypes DEF SpanRecords
<1>6. /\ v \in WorkerRecords /\ v.request = r /\ v.pc = "executing"
      /\ v.old = worker[w].old /\ v.at = k
  <2>1. session \in Demos \cup {NoRequest} /\ (racers # {}) \in BOOLEAN
    BY DEF ServiceInv, TypeOK
  <2> HIDE DEF racers
  <2> QED BY <1>2, <2>1 DEF WorkerRecords
<1>7. s.phase = "open" /\ s.stack = <<HandlerEvent, DemoEvent, k>>
  <2>1. span[r].stack = <<HandlerEvent, DemoEvent>> /\ span[r].phase = "open"
    BY <1>1, <1>2 DEF Serves, OpenEvents
  <2>2. s.phase = span[r].phase /\ s.stack = Append(span[r].stack, k)
    BY <1>2 DEF NewSpanEvent, SpanRecords, SpanType
  <2>3. \A e : Append(<<HandlerEvent, DemoEvent>>, e) = <<HandlerEvent, DemoEvent, e>>
    BY PushThird
  <2> QED BY <2>1, <2>2, <2>3
<1>8. ASSUME NEW u \in Workers \ {w}
      PROVE  worker'[u] \in WorkerRecords /\ AsBefore(u)
  <2>1. worker'[u] = other(u) /\ worker[u] \in WorkerRecords
    BY <1>3 DEF ServiceInv, TypeOK
  <2>2. worker[u].raced \in BOOLEAN /\ (worker[u].raced \/ u \in racers) \in BOOLEAN
    BY <2>1 DEF WorkerRecords
  <2>3. worker[u].pc = "idle" => worker[u] = Idle /\ other(u) = Idle
    <3> SUFFICES ASSUME worker[u].pc = "idle" PROVE worker[u] = Idle /\ other(u) = Idle
      OBVIOUS
    <3>1. worker[u] = Idle /\ u \notin racers
      BY DEF ServiceInv, WorkerInv
    <3> HIDE DEF racers
    <3>2. (Idle.raced \/ u \in racers) = FALSE
      BY <3>1 DEF Idle
    <3>3. other(u) = [Idle EXCEPT !.raced = FALSE]
      BY <3>1, <3>2
    <3> HIDE DEF other
    <3>4. [Idle EXCEPT !.raced = FALSE] = Idle
      <4>1. Idle.raced = FALSE
        BY DEF Idle
      <4> QED BY <4>1, IdleServesNone DEF WorkerRecords
    <3> QED BY <3>1, <3>3, <3>4
  <2>4. worker'[u] \in WorkerRecords
    <3> HIDE DEF racers
    <3> QED BY <2>1, <2>2 DEF WorkerRecords
  <2> HIDE DEF racers
  <2> QED BY <2>1, <2>3, <2>4 DEF AsBefore, WorkerRecords
<1> HIDE DEF s, v, other
<1>9. Moves(w, v, s)
  <2>1. Serves(v, s, "none")
    BY <1>1, <1>2, <1>4, <1>6, <1>7 DEF Serves, OpenEvents, InDemo
  <2>2. worker'[w] = v
    BY <1>3
  <2> QED BY <1>1, <1>3, <1>6, <1>8, <2>1, <2>2 DEF Moves
<1>10. span' \in [Requests -> SpanRecords] /\ worker' \in [Workers -> WorkerRecords]
  <2>1. worker' = [u \in Workers |-> worker'[u]] /\ worker'[w] = v
    BY <1>3
  <2>2. worker' \in [Workers -> WorkerRecords]
    BY <2>1, <1>6, <1>8
  <2> QED BY <2>2, <1>2, <1>3, <1>5 DEF ServiceInv, TypeOK
<1>11. TypeOK'
  BY <1>3, <1>10 DEF ServiceInv, TypeOK, sessionVars, historyVars, processVars
<1> QED BY <1>9, <1>11, ServiceMoves

\* A statement keeps the table's type, whatever it does.
LEMMA ChangedTable ==
    ASSUME TypeOK, NEW k
    PROVE  Changed(k) \in [exists : BOOLEAN, users : SUBSET Users]
BY DEF TypeOK, Changed, Cleared

\* What is noted of the demos keeps its type.
LEMMA MetTypes ==
    ASSUME TypeOK, NEW S, NEW what \in {"demo", "outage", "undefined"}
    PROVE  Met(S, what) \in [Requests -> SUBSET {"demo", "outage", "undefined"}]
BY DEF TypeOK, Met

\* The statement ends, with or without an exception, and its event with it.
LEMMA ExecuteMoves ==
    ASSUME ServiceInv, NEW w \in Workers, Execute(w)
    PROVE  ServiceInv' /\ Steps(w)
<1> DEFINE r == worker[w].request
           k == worker[w].at
           next == IF k = Len(Statements) THEN "told" ELSE "statement"
           v == [worker[w] EXCEPT !.at = k + 1, !.on = NoRequest, !.raced = FALSE,
                                  !.pc = next]
<1>1. worker[w].pc = "executing"
  BY DEF Execute
<1>2. /\ r \in Requests /\ r \in Demos
      /\ Serves(worker[w], span[r], response[r])
      /\ span[r] \in SpanRecords /\ worker[w] \in WorkerRecords
  BY <1>1, Busy DEF Serves, InDemo
<1>3. k \in 1 .. Len(Statements) /\ k \in Events
  BY <1>1, <1>2, Lengths DEF Serves
<1>4. PICK done \in BOOLEAN, ok \in BOOLEAN :
         /\ table' = IF done THEN Changed(k) ELSE table
         /\ effects' = [effects EXCEPT ![r] = IF done THEN @ \cup {k} ELSE @]
         /\ span' = [span EXCEPT ![r] = EndStatementEvent(@, k, ok)]
         /\ worker' = [worker EXCEPT ![w] = v]
  <2> DEFINE reached == dbUp /\ worker[w].on \in connected /\ Accepts(k)
  <2>1. reached \in BOOLEAN
    BY DEF ServiceInv, TypeOK
  <2> HIDE DEF reached
  <2>2. \E done \in {FALSE, reached}, ok \in BOOLEAN :
           /\ table' = IF done THEN Changed(k) ELSE table
           /\ effects' = [effects EXCEPT ![r] = IF done THEN @ \cup {k} ELSE @]
           /\ span' = [span EXCEPT ![r] = EndStatementEvent(@, k, ok)]
           /\ worker' = [worker EXCEPT ![w] = v]
    BY DEF Execute, reached
  <2> HIDE DEF v
  <2> QED BY <2>1, <2>2
<1> DEFINE s == EndStatementEvent(span[r], k, ok)
<1>5. UNCHANGED <<response, sessionVars, processVars>>
      /\ (company' = company \/ company' = Met({r}, "undefined"))
  BY DEF Execute
<1>6. s \in SpanRecords
  BY <1>2, <1>3, ApiTypes DEF SpanRecords, EndStatementEvent
<1>7. /\ v \in WorkerRecords /\ v.request = r /\ v.pc = next
      /\ v.old = worker[w].old /\ v.at = k + 1
  <2>1. k + 1 \in 0 .. Len(Statements) + 1
    BY <1>3, Lengths, SMT
  <2> QED BY <1>2, <2>1 DEF WorkerRecords
<1>8. v.pc = "statement" => v.at \in 1 .. Len(Statements)
  BY <1>3, <1>7, Lengths, SMT
<1>9. s.phase = "open" /\ s.stack = <<HandlerEvent, DemoEvent>>
  <2>1. span[r].stack = <<HandlerEvent, DemoEvent, k>> /\ span[r].phase = "open"
    BY <1>1, <1>2 DEF Serves, OpenEvents
  <2> DEFINE st == span[r].stack
  <2>2. s.phase = span[r].phase /\ s.stack = SubSeq(st, 1, Len(st) - 1)
    BY <1>2 DEF EndStatementEvent, EndEvent, SpanRecords, SpanType
  <2>3. st = <<HandlerEvent, DemoEvent, k>>
    BY <2>1
  <2> HIDE DEF st
  <2>4. SubSeq(st, 1, Len(st) - 1) = <<HandlerEvent, DemoEvent>>
    BY <2>3, PopThird
  <2> QED BY <2>1, <2>2, <2>4
<1> HIDE DEF v
<1>10. span' = [span EXCEPT ![r] = s] /\ worker' = [worker EXCEPT ![w] = v]
  BY <1>4
<1> HIDE DEF s
<1>11. Moves(w, v, s)
  <2>1. Serves(v, s, "none")
    BY <1>1, <1>2, <1>7, <1>8, <1>9 DEF Serves, OpenEvents, InDemo
  <2>2. worker'[w] = v /\ \A u \in Workers \ {w} : AsBefore(u)
    BY <1>10 DEF AsBefore, ServiceInv, TypeOK
  <2>3. v.pc # "idle"
    BY <1>7
  <2> QED BY <1>1, <1>5, <1>7, <1>10, <2>1, <2>2, <2>3 DEF Moves
<1>12. span' \in [Requests -> SpanRecords] /\ worker' \in [Workers -> WorkerRecords]
  BY <1>2, <1>6, <1>7, <1>10 DEF ServiceInv, TypeOK
<1>13. effects' \in [Requests -> SUBSET (1 .. Len(Statements))]
  BY <1>2, <1>3, <1>4 DEF ServiceInv, TypeOK
<1>14. table' \in [exists : BOOLEAN, users : SUBSET Users]
  BY <1>4, ChangedTable DEF ServiceInv, TypeOK
<1>15. company' \in [Requests -> SUBSET {"demo", "outage", "undefined"}]
  BY <1>5, MetTypes DEF ServiceInv, TypeOK
<1>16. TypeOK'
  BY <1>5, <1>12, <1>13, <1>14, <1>15 DEF ServiceInv, TypeOK, sessionVars, processVars
<1> QED BY <1>11, <1>16, ServiceMoves

\* runDemoHandler returns, and its event ends.
LEMMA LeaveDemoMoves ==
    ASSUME ServiceInv, NEW w \in Workers, LeaveDemo(w)
    PROVE  ServiceInv' /\ Steps(w)
<1> DEFINE r == worker[w].request
           v == [worker[w] EXCEPT !.pc = "leave", !.status = "200"]
           s == EndEvent(span[r], DemoEvent, FALSE)
<1>1. worker[w].pc = "told"
  BY DEF LeaveDemo
<1>2. /\ r \in Requests /\ Serves(worker[w], span[r], response[r])
      /\ span[r] \in SpanRecords /\ worker[w] \in WorkerRecords
  BY <1>1, Busy
<1>3. /\ span' = [span EXCEPT ![r] = s]
      /\ worker' = [worker EXCEPT ![w] = v]
      /\ UNCHANGED <<response, sessionVars, table, historyVars, processVars>>
  BY DEF LeaveDemo
<1>4. s \in SpanRecords
  BY <1>2, Lengths, ApiTypes DEF SpanRecords
<1>5. /\ v \in WorkerRecords /\ v.request = r /\ v.old = worker[w].old
      /\ v.pc = "leave"
  BY <1>2 DEF WorkerRecords
<1>6. s.phase = "open" /\ s.stack = <<HandlerEvent>>
  <2> DEFINE st == span[r].stack
  <2>1. s.phase = span[r].phase /\ s.stack = SubSeq(st, 1, Len(st) - 1)
    BY <1>2 DEF EndEvent, SpanRecords, SpanType
  <2>2. st = <<HandlerEvent, DemoEvent>> /\ span[r].phase = "open"
    BY <1>1, <1>2 DEF Serves, OpenEvents
  <2> HIDE DEF st
  <2>3. SubSeq(st, 1, Len(st) - 1) = <<HandlerEvent>>
    BY <2>2, ShortStacks
  <2> QED BY <2>1, <2>2, <2>3
<1> HIDE DEF s, v
<1>7. Moves(w, v, s)
  <2>1. Serves(v, s, "none")
    BY <1>1, <1>2, <1>5, <1>6 DEF Serves, OpenEvents, InDemo
  <2>2. worker'[w] = v /\ \A u \in Workers \ {w} : AsBefore(u)
    BY <1>3 DEF AsBefore, ServiceInv, TypeOK
  <2> QED BY <1>1, <1>3, <1>5, <2>1, <2>2 DEF Moves
<1>8. span' \in [Requests -> SpanRecords] /\ worker' \in [Workers -> WorkerRecords]
  BY <1>2, <1>3, <1>4, <1>5 DEF ServiceInv, TypeOK
<1>9. TypeOK'
  BY <1>3, <1>8 DEF ServiceInv, TypeOK, sessionVars, historyVars, processVars
<1> QED BY <1>7, <1>9, ServiceMoves

\* A worker takes a request nobody has taken.
LEMMA TraceRequestKeeps ==
    ASSUME ServiceInv, NEW w \in Workers, NEW r \in Requests, TraceRequest(w, r)
    PROVE  ServiceInv'
<1> DEFINE v == [Idle EXCEPT !.pc = "traced", !.request = r]
           s == NewSpan(SpanKind, NoContext)
<1>1. worker[w].pc = "idle" /\ span[r].phase = "none"
  BY DEF TraceRequest
<1>2. /\ span' = [span EXCEPT ![r] = s]
      /\ worker' = [worker EXCEPT ![w] = v]
      /\ UNCHANGED <<response, sessionVars, table, effects, processVars>>
      /\ company' = company \/ company' = Met(Running \cup {r}, "demo")
  BY DEF TraceRequest
<1>3. s \in SpanRecords /\ s.phase = "open" /\ s.stack = <<>>
  <2>1. NoContext.from \in Requests \cup {NoSpan} /\ SpanKind \in Kinds
    BY MysqlAssumption DEF NoContext
  <2> QED BY <2>1, NewSpanIsOpen DEF SpanRecords
<1>4. v \in WorkerRecords /\ v.pc = "traced" /\ v.request = r /\ v.old = NoRequest
  BY IdleServesNone DEF WorkerRecords
<1> HIDE DEF s, v
<1>5. span' \in [Requests -> SpanRecords] /\ span'[r] = s
      /\ \A x \in Requests \ {r} : span'[x] = span[x]
  BY <1>2, <1>3 DEF ServiceInv, TypeOK
<1>6. worker' \in [Workers -> WorkerRecords] /\ worker'[w] = v
      /\ \A u \in Workers \ {w} : worker'[u] = worker[u]
  BY <1>2, <1>4 DEF ServiceInv, TypeOK
<1>7. company' \in [Requests -> SUBSET {"demo", "outage", "undefined"}]
  BY <1>2, MetTypes DEF ServiceInv, TypeOK
<1>8. TypeOK'
  BY <1>2, <1>5, <1>6, <1>7 DEF ServiceInv, TypeOK, sessionVars, processVars
<1>9. response[r] = "none" /\ response' = response
  BY <1>1, <1>2 DEF ServiceInv, RequestInv, TypeOK
<1>10. \A u \in Workers : worker[u].pc # "idle" => worker[u].request # r
  BY <1>1, Busy DEF Serves
<1>11. \A u \in Workers : WorkerInv(u)'
  <2> SUFFICES ASSUME NEW u \in Workers PROVE WorkerInv(u)'
    OBVIOUS
  <2>1. CASE u = w
    BY <2>1, <1>3, <1>4, <1>5, <1>6, <1>9 DEF WorkerInv, Serves, OpenEvents, InDemo
  <2>2. CASE u # w
    <3>1. worker'[u] = worker[u] /\ WorkerInv(u)
      BY <2>2, <1>6 DEF ServiceInv
    <3>2. CASE worker[u].pc = "idle"
      BY <3>1, <3>2 DEF WorkerInv
    <3>3. CASE worker[u].pc # "idle"
      <4>1. span'[worker[u].request] = span[worker[u].request]
        BY <3>3, <1>5, <1>10, Busy
      <4> QED BY <4>1, <3>1, <3>3, <1>9 DEF WorkerInv
    <3> QED BY <3>2, <3>3
  <2> QED BY <2>1, <2>2
<1>12. WorkersApart'
  BY <1>4, <1>6, <1>10 DEF ServiceInv, WorkersApart
<1>13. \A x \in Requests : RequestInv(x)'
  <2> SUFFICES ASSUME NEW x \in Requests PROVE RequestInv(x)'
    OBVIOUS
  <2>1. CASE x = r
    BY <2>1, <1>3, <1>5, <1>9 DEF RequestInv
  <2>2. CASE x # r
    BY <2>2, <1>5, <1>9 DEF ServiceInv, RequestInv
  <2> QED BY <2>1, <2>2
<1> QED BY <1>8, <1>11, <1>12, <1>13 DEF ServiceInv

\* The answer is given, and the span ends.
LEMMA TraceResponseKeeps ==
    ASSUME ServiceInv, NEW w \in Workers, TraceResponse(w)
    PROVE  ServiceInv'
<1> DEFINE r == worker[w].request
           s == EndSpan(span[r], FALSE)
<1>1. worker[w].pc = "respond"
  BY DEF TraceResponse
<1>2. /\ r \in Requests /\ Serves(worker[w], span[r], response[r])
      /\ span[r] \in SpanRecords /\ worker[w] \in WorkerRecords
  BY <1>1, Busy
<1>3. /\ span' = [span EXCEPT ![r] = s]
      /\ response' = [response EXCEPT ![r] = worker[w].status]
      /\ worker' = [worker EXCEPT ![w] = Idle]
      /\ UNCHANGED <<sessionVars, table, historyVars, processVars>>
  BY DEF TraceResponse
<1>4. s \in SpanRecords
  BY <1>2, Lengths, ApiTypes DEF SpanRecords
<1>5. s.phase = "ended"
  BY <1>2 DEF EndSpan, SpanRecords, SpanType
<1> HIDE DEF s
<1>6. span' \in [Requests -> SpanRecords] /\ span'[r] = s
      /\ \A x \in Requests \ {r} : span'[x] = span[x]
  BY <1>2, <1>3, <1>4 DEF ServiceInv, TypeOK
<1>7. worker' \in [Workers -> WorkerRecords] /\ worker'[w] = Idle
      /\ \A u \in Workers \ {w} : worker'[u] = worker[u]
  BY <1>2, <1>3, IdleServesNone DEF ServiceInv, TypeOK
<1>8. response' \in [Requests -> {"none", "200", "503"}]
      /\ \A x \in Requests \ {r} : response'[x] = response[x]
  <2>1. worker[w].status \in {"none", "200", "503"}
    BY <1>2 DEF WorkerRecords
  <2> QED BY <2>1, <1>2, <1>3 DEF ServiceInv, TypeOK
<1>9. TypeOK'
  BY <1>3, <1>6, <1>7, <1>8
     DEF ServiceInv, TypeOK, sessionVars, historyVars, processVars
<1>10. \A u \in Workers \ {w} : worker[u].pc # "idle" => worker[u].request # r
  BY <1>1 DEF ServiceInv, WorkersApart
<1>11. \A u \in Workers : WorkerInv(u)'
  <2> SUFFICES ASSUME NEW u \in Workers PROVE WorkerInv(u)'
    OBVIOUS
  <2>1. CASE u = w
    BY <2>1, <1>7, IdleServesNone DEF WorkerInv
  <2>2. CASE u # w
    <3>1. worker'[u] = worker[u] /\ WorkerInv(u)
      BY <2>2, <1>7 DEF ServiceInv
    <3>2. CASE worker[u].pc = "idle"
      BY <3>1, <3>2 DEF WorkerInv
    <3>3. CASE worker[u].pc # "idle"
      <4>1. /\ span'[worker[u].request] = span[worker[u].request]
            /\ response'[worker[u].request] = response[worker[u].request]
        BY <2>2, <3>3, <1>6, <1>8, <1>10, Busy
      <4> QED BY <4>1, <3>1, <3>3 DEF WorkerInv
    <3> QED BY <3>2, <3>3
  <2> QED BY <2>1, <2>2
<1>12. WorkersApart'
  BY <1>7, IdleServesNone DEF ServiceInv, WorkersApart
<1>13. \A x \in Requests : RequestInv(x)'
  <2> SUFFICES ASSUME NEW x \in Requests PROVE RequestInv(x)'
    OBVIOUS
  <2>1. CASE x = r
    BY <2>1, <1>5, <1>6 DEF RequestInv
  <2>2. CASE x # r
    BY <2>2, <1>6, <1>8 DEF ServiceInv, RequestInv
  <2> QED BY <2>1, <2>2
<1> QED BY <1>9, <1>11, <1>12, <1>13 DEF ServiceInv

\* The process ends, and with it every span, worker and session.
LEMMA DiesKeeps ==
    ASSUME ServiceInv, Dies, faults' \in 0 .. MaxFaults
    PROVE  ServiceInv'
<1>1. /\ up' = FALSE /\ session' = NoRequest /\ live' = {} /\ connected' = {}
      /\ span' = [r \in Requests |-> Lose(span[r])]
      /\ worker' = [w \in Workers |-> Idle]
      /\ UNCHANGED <<response, table, historyVars, dbUp>>
  BY DEF Dies
<1>2. \A r \in Requests : span[r] \in SpanRecords /\ Lose(span[r]) \in SpanRecords
  BY Lengths, ApiTypes DEF ServiceInv, TypeOK, SpanRecords
<1>3. span' \in [Requests -> SpanRecords]
  BY <1>1, <1>2
<1>4. worker' \in [Workers -> WorkerRecords]
  BY <1>1, IdleServesNone
<1>5. TypeOK'
  BY <1>1, <1>3, <1>4 DEF ServiceInv, TypeOK, historyVars
<1>6. (\A u \in Workers : WorkerInv(u)') /\ WorkersApart'
  BY <1>1, IdleServesNone DEF WorkerInv, WorkersApart
<1>7. \A x \in Requests : RequestInv(x)'
  BY <1>1, <1>2 DEF ServiceInv, RequestInv, Lose, SpanRecords, SpanType
<1> QED BY <1>5, <1>6, <1>7 DEF ServiceInv

\* Nothing but stops and outages counts as a fault.
LEMMA FaultsBound ==
    ASSUME TypeOK PROVE  faults < MaxFaults => faults + 1 \in 0 .. MaxFaults
<1>1. MaxFaults \in Nat /\ faults \in 0 .. MaxFaults
  BY MysqlAssumption DEF TypeOK
<1> QED BY <1>1, SMT

\* The database goes and comes, and the process starts: no worker moves.
LEMMA OutsideKeeps ==
    ASSUME ServiceInv, DbFails \/ DbReturns \/ Start \/ UNCHANGED vars
    PROVE  ServiceInv' /\ UNCHANGED <<span, worker, response, session, live>>
<1>1. UNCHANGED <<span, worker, response, session, live, table, effects>>
  BY DEF DbFails, DbReturns, Start, vars, sessionVars, historyVars
<1>2. connected' \subseteq live /\ dbUp' \in BOOLEAN /\ up' \in BOOLEAN
  BY DEF DbFails, DbReturns, Start, vars, sessionVars, processVars, ServiceInv, TypeOK
<1>3. faults' \in 0 .. MaxFaults
  BY FaultsBound DEF DbFails, DbReturns, Start, vars, processVars, ServiceInv, TypeOK
<1>4. company' \in [Requests -> SUBSET {"demo", "outage", "undefined"}]
  BY MetTypes DEF DbFails, DbReturns, Start, vars, historyVars, ServiceInv, TypeOK
<1>5. TypeOK'
  BY <1>1, <1>2, <1>3, <1>4 DEF ServiceInv, TypeOK
<1> QED BY <1>1, <1>5, ServiceRests

\* What a step of a worker within a request is to the others.
LEMMA WorkerMoves ==
    ASSUME ServiceInv, NEW w \in Workers, WorkerStep(w), ~TraceResponse(w)
    PROVE  ServiceInv' /\ Steps(w)
BY EnterHandlerMoves, LeaveHandlerMoves, OpenSessionMoves, WriteNewMoves,
   CloseOldMoves, BeginStatementMoves, ExecuteMoves, LeaveDemoMoves DEF WorkerStep

\* Every step keeps the service in order.
LEMMA NextService == ServiceInv /\ [Next]_vars => ServiceInv'
<1> SUFFICES ASSUME ServiceInv, [Next]_vars PROVE ServiceInv'
  OBVIOUS
<1>1. ASSUME NEW w \in Workers, NEW r \in Requests, TraceRequest(w, r)
      PROVE  ServiceInv'
  BY <1>1, TraceRequestKeeps
<1>2. ASSUME NEW w \in Workers, WorkerStep(w) PROVE ServiceInv'
  BY <1>2, TraceResponseKeeps, WorkerMoves
<1>3. ASSUME NEW w \in Workers, Crash(w) PROVE ServiceInv'
  BY <1>3, DiesKeeps DEF Crash, ServiceInv, TypeOK
<1>4. CASE Kill
  BY <1>4, DiesKeeps, FaultsBound DEF Kill, ServiceInv
<1>5. CASE DbFails \/ DbReturns \/ Start \/ UNCHANGED vars
  BY <1>5, OutsideKeeps
<1>6. CASE Rests
  BY <1>5, <1>6 DEF Rests
<1> QED BY <1>1, <1>2, <1>3, <1>4, <1>5, <1>6 DEF Next

\* The service is in order in every reachable state.
THEOREM ServiceInvariance == Spec => []ServiceInv
BY InitService, NextService, PTL DEF Spec

\* Every variable keeps its type (mysql_example.cpp, all of it).
THEOREM TypeCorrect == Spec => []TypeOK
<1>1. ServiceInv => TypeOK
  BY DEF ServiceInv
<1> QED BY <1>1, ServiceInvariance, PTL

-----------------------------------------------------------------------------
(* The shared session_. *)

\* Where each step leaves its worker.
LEMMA Positions ==
    ASSUME ServiceInv, NEW w \in Workers
    PROVE  /\ EnterHandler(w) => /\ worker'[w].pc \in {"connect", "leave"}
                                 /\ worker'[w].old = worker[w].old
                                 /\ worker'[w].pc = "leave" =>
                                       worker[w].request \notin Demos
           /\ LeaveHandler(w) => /\ worker'[w].pc = "respond"
                                 /\ worker'[w].old = worker[w].old
                                 /\ worker'[w].status = worker[w].status
           /\ OpenSession(w) =>
                 \/ dbUp /\ worker'[w].pc = "replacing" /\ worker'[w].old = session
                 \/ /\ worker'[w].pc = "leave" /\ worker'[w].old = worker[w].old
                    /\ worker'[w].status = "503"
                    /\ live' = live /\ connected' = connected
           /\ WriteNew(w) => /\ worker'[w].pc = "closing"
                             /\ worker'[w].old = worker[w].old
           /\ CloseOld(w) => /\ worker'[w].pc = "statement" /\ worker'[w].at = 1
                             /\ worker'[w].old = NoRequest
           /\ BeginStatement(w) => /\ worker'[w].pc = "executing"
                                   /\ worker'[w].on = session
                                   /\ worker'[w].at = worker[w].at
                                   /\ worker'[w].old = worker[w].old
           /\ Execute(w) => /\ worker'[w].pc = IF worker[w].at = Len(Statements)
                                                THEN "told" ELSE "statement"
                            /\ worker'[w].at = worker[w].at + 1
                            /\ worker'[w].old = worker[w].old
           /\ LeaveDemo(w) => worker'[w].pc = "leave" /\ worker'[w].old = worker[w].old
<1>1. worker[w] \in WorkerRecords /\ worker \in [Workers -> WorkerRecords]
  BY DEF ServiceInv, TypeOK
<1> USE DEF WorkerRecords
<1>2. EnterHandler(w) => /\ worker'[w].pc \in {"connect", "leave"}
                         /\ worker'[w].old = worker[w].old
                         /\ worker'[w].pc = "leave" => worker[w].request \notin Demos
  BY <1>1 DEF EnterHandler
<1>3. LeaveHandler(w) => /\ worker'[w].pc = "respond"
                         /\ worker'[w].old = worker[w].old
                         /\ worker'[w].status = worker[w].status
  BY <1>1 DEF LeaveHandler
<1>4. OpenSession(w) =>
         \/ dbUp /\ worker'[w].pc = "replacing" /\ worker'[w].old = session
         \/ /\ worker'[w].pc = "leave" /\ worker'[w].old = worker[w].old
            /\ worker'[w].status = "503"
            /\ live' = live /\ connected' = connected
  BY <1>1 DEF OpenSession
<1>5. WriteNew(w) => worker'[w].pc = "closing" /\ worker'[w].old = worker[w].old
  BY <1>1 DEF WriteNew
<1>6. CloseOld(w) => /\ worker'[w].pc = "statement" /\ worker'[w].at = 1
                     /\ worker'[w].old = NoRequest
  <2> SUFFICES ASSUME CloseOld(w)
               PROVE  /\ worker'[w].pc = "statement" /\ worker'[w].at = 1
                      /\ worker'[w].old = NoRequest
    OBVIOUS
  <2>1. worker'[w] = [worker[w] EXCEPT !.pc = "statement", !.old = NoRequest, !.at = 1]
    BY DEF CloseOld
  <2> QED BY <1>1, <2>1
<1>7. BeginStatement(w) =>
         /\ worker'[w].pc = "executing" /\ worker'[w].on = session
         /\ worker'[w].at = worker[w].at /\ worker'[w].old = worker[w].old
  <2> SUFFICES ASSUME BeginStatement(w)
               PROVE  /\ worker'[w].pc = "executing" /\ worker'[w].on = session
                      /\ worker'[w].at = worker[w].at
                      /\ worker'[w].old = worker[w].old
    OBVIOUS
  <2>1. \E raced : worker'[w] = [worker[w] EXCEPT !.pc = "executing", !.on = session,
                                                 !.raced = raced]
    BY DEF BeginStatement
  <2> QED BY <1>1, <2>1
<1>8. Execute(w) => /\ worker'[w].pc = IF worker[w].at = Len(Statements)
                                        THEN "told" ELSE "statement"
                    /\ worker'[w].at = worker[w].at + 1
                    /\ worker'[w].old = worker[w].old
  BY <1>1 DEF Execute
<1>9. LeaveDemo(w) => worker'[w].pc = "leave" /\ worker'[w].old = worker[w].old
  BY <1>1 DEF LeaveDemo
<1> QED BY <1>2, <1>3, <1>4, <1>5, <1>6, <1>7, <1>8, <1>9

\* A step of a worker does not lead back to where a session is yet to be stored.
LEMMA StoredForGood ==
    ASSUME ServiceInv, NEW w \in Workers, WorkerStep(w), ~TraceResponse(w),
           NEW x \in Requests, HasStored(x)
    PROVE  HasStored(x)'
<1>1. Steps(w)
  BY WorkerMoves
<1>2. worker'[w].pc \in {"traced", "connect", "replacing"} =>
         worker[w].pc \in {"traced", "connect"}
  BY Positions DEF WorkerStep, EnterHandler, OpenSession
<1>3. span'[x].phase # "none"
  BY <1>1 DEF Steps, HasStored
<1>4. ASSUME NEW u \in Workers, worker'[u].request = x
      PROVE  worker'[u].pc \notin {"traced", "connect", "replacing"}
  <2>1. CASE u = w
    BY <1>1, <1>2, <1>4, <2>1 DEF HasStored, Steps
  <2>2. CASE u # w
    BY <1>1, <1>4, <2>2 DEF HasStored, Steps, AsBefore
  <2> QED BY <2>1, <2>2
<1> QED BY <1>3, <1>4 DEF HasStored

\* Nor does a step that ends a request or begins one.
LEMMA StoredAroundRequests ==
    ASSUME ServiceInv, NEW w \in Workers, NEW x \in Requests, HasStored(x),
           TraceResponse(w) \/ \E r \in Requests : TraceRequest(w, r)
    PROVE  HasStored(x)'
<1>1. CASE TraceResponse(w)
  <2>1. /\ worker' = [worker EXCEPT ![w] = Idle]
        /\ span' = [span EXCEPT ![worker[w].request] = EndSpan(@, FALSE)]
        /\ worker[w].pc = "respond"
    BY <1>1 DEF TraceResponse
  <2>2. span'[x].phase # "none"
    <3>1. /\ span[x].phase # "none" /\ span[x] \in SpanRecords
          /\ span'[x] \in {span[x], EndSpan(span[x], FALSE)}
      BY <2>1 DEF HasStored, ServiceInv, TypeOK
    <3> QED BY <3>1 DEF EndSpan, SpanRecords, SpanType
  <2>3. \A u \in Workers : worker'[u].request = x =>
           worker'[u].pc \notin {"traced", "connect", "replacing"}
    BY <2>1, IdleServesNone DEF HasStored, ServiceInv, TypeOK
  <2> QED BY <2>2, <2>3 DEF HasStored
<1>2. ASSUME NEW r \in Requests, TraceRequest(w, r) PROVE HasStored(x)'
  <2>1. /\ worker' = [worker EXCEPT ![w] = [Idle EXCEPT !.pc = "traced", !.request = r]]
        /\ span' = [span EXCEPT ![r] = NewSpan(SpanKind, NoContext)]
        /\ span[r].phase = "none"
    BY <1>2 DEF TraceRequest
  <2>2. x # r
    BY <2>1 DEF HasStored
  <2>3. span'[x] = span[x]
    BY <2>1, <2>2 DEF ServiceInv, TypeOK
  <2>4. [Idle EXCEPT !.pc = "traced", !.request = r].request = r
    BY DEF Idle
  <2>5. \A u \in Workers : worker'[u].request = x =>
           worker'[u].pc \notin {"traced", "connect", "replacing"}
    BY <2>1, <2>2, <2>4 DEF HasStored, ServiceInv, TypeOK
  <2> QED BY <2>3, <2>5 DEF HasStored
<1> QED BY <1>1, <1>2

\* No session is there at first.
LEMMA InitSession == Init => SessionInv
<1>1. Init => session = NoRequest /\ \A w \in Workers : worker[w] = Idle
  BY DEF Init
<1> QED BY <1>1, IdleServesNone DEF SessionInv, SessionNeverDangles

\* A step that leaves the sessions alone and brings its worker to no connect().
LEMMA SessionRests ==
    ASSUME ServiceInv, SessionInv, NEW w \in Workers,
           session' = session, live' = live,
           \A x \in Requests : HasStored(x) => HasStored(x)',
           worker'[w].pc \notin {"replacing", "closing"},
           worker'[w].old = NoRequest,
           \A u \in Workers \ {w} : AsBefore(u)
    PROVE  SessionInv'
<1>1. session \in Requests \cup {NoRequest}
      /\ \A u \in Workers : worker[u].old \in Requests \cup {NoRequest}
  BY MysqlAssumption DEF ServiceInv, TypeOK, WorkerRecords
<1>2. SessionNeverDangles'
  BY DEF SessionInv, SessionNeverDangles
<1>3. session' # NoRequest => HasStored(session)'
  BY <1>1 DEF SessionInv
<1>4. ASSUME NEW u \in Workers
      PROVE  /\ worker'[u].old # NoRequest => HasStored(worker[u].old)'
             /\ worker'[u].pc = "replacing" => worker'[u].request \in live'
             /\ worker'[u].pc = "closing" /\ worker'[u].old # NoRequest =>
                   worker'[u].old # session'
  BY <1>1 DEF SessionInv, AsBefore
<1> QED BY <1>2, <1>3, <1>4 DEF SessionInv, AsBefore

\* A worker steps; only connect() concerns the sessions.
LEMMA SessionMoves ==
    ASSUME ServiceInv, SessionInv, NEW w \in Workers, WorkerStep(w), ~TraceResponse(w)
    PROVE  SessionInv'
<1>1. Steps(w) /\ TypeOK /\ TypeOK'
  BY WorkerMoves DEF ServiceInv
<1>2. \A x \in Requests : HasStored(x) => HasStored(x)'
  BY StoredForGood
<1>3. /\ worker[w].request \in Requests /\ worker'[w].request = worker[w].request
      /\ Serves(worker[w], span[worker[w].request], response[worker[w].request])
      /\ \A u \in Workers \ {w} : AsBefore(u)
  BY <1>1, Busy DEF Steps
<1>4. /\ Demos \subseteq Requests /\ NoRequest \notin Requests
      /\ session \in Requests \cup {NoRequest}
      /\ \A u \in Workers : worker[u].old \in Requests \cup {NoRequest}
  BY <1>1, MysqlAssumption DEF TypeOK, WorkerRecords
<1>5. CASE \/ EnterHandler(w) \/ LeaveHandler(w) \/ BeginStatement(w)
           \/ Execute(w) \/ LeaveDemo(w)
  <2>1. session' = session /\ live' = live
    BY <1>5 DEF EnterHandler, LeaveHandler, BeginStatement, Execute, LeaveDemo,
                sessionVars
  <2>2. worker[w].pc \notin {"replacing", "closing"}
    BY <1>5 DEF EnterHandler, LeaveHandler, BeginStatement, Execute, LeaveDemo
  <2>3. worker'[w].pc \notin {"replacing", "closing"} /\ worker'[w].old = NoRequest
    BY <1>5, <2>2, <1>3, Positions DEF Serves
  <2> QED BY <2>1, <2>3, <1>2, <1>3, SessionRests
<1>6. CASE OpenSession(w)
  <2>1. worker[w].pc = "connect" /\ session' = session
    BY <1>6 DEF OpenSession
  <2>2. worker[w].old = NoRequest
    BY <2>1, <1>3 DEF Serves
  <2>3. CASE worker'[w].pc = "leave"
    <3>1. worker'[w].old = NoRequest /\ live' = live
      BY <1>6, <2>2, <2>3, Positions
    <3> QED BY <3>1, <2>1, <2>3, <1>2, <1>3, SessionRests
  <2>4. CASE worker'[w].pc = "replacing"
    <3>1. live' = live \cup {worker[w].request} /\ worker'[w].old = session
      BY <1>6, <2>4, Positions DEF OpenSession, Opened
    <3>2. SessionNeverDangles'
      BY <2>1, <3>1 DEF SessionInv, SessionNeverDangles
    <3>3. session' # NoRequest => HasStored(session)'
      BY <2>1, <1>2, <1>4 DEF SessionInv
    <3>4. ASSUME NEW u \in Workers
          PROVE  /\ worker'[u].old # NoRequest => HasStored(worker[u].old)'
                 /\ worker'[u].pc = "replacing" => worker'[u].request \in live'
                 /\ worker'[u].pc = "closing" /\ worker'[u].old # NoRequest =>
                       worker'[u].old # session'
      <4>1. CASE u = w
        BY <4>1, <2>1, <2>4, <3>1, <3>3, <1>3
      <4>2. CASE u # w
        BY <4>2, <2>1, <3>1, <1>2, <1>3, <1>4 DEF SessionInv, AsBefore
      <4> QED BY <4>1, <4>2
    <3> QED BY <3>2, <3>3, <3>4 DEF SessionInv
  <2> QED BY <2>3, <2>4, <1>6, Positions
<1>7. CASE WriteNew(w)
  <2>1. /\ worker[w].pc = "replacing" /\ live' = live
        /\ session' = worker[w].request
    BY <1>7 DEF WriteNew, Stored
  <2>2. worker'[w].pc = "closing" /\ worker'[w].old = worker[w].old
    BY <1>7, Positions
  <2>3. SessionNeverDangles'
    BY <2>1 DEF SessionInv, SessionNeverDangles
  <2>4. ~HasStored(worker[w].request)
    BY <2>1 DEF HasStored
  <2>5. HasStored(worker[w].request)'
    <3>1. span'[worker[w].request].phase # "none"
      BY <1>1, <1>3 DEF Steps, Serves
    <3>2. ASSUME NEW u \in Workers, worker'[u].request = worker[w].request
          PROVE  worker'[u].pc \notin {"traced", "connect", "replacing"}
      <4>1. CASE u = w
        BY <4>1, <2>2
      <4>2. CASE u # w
        <5>1. worker[u].request = worker[w].request /\ worker'[u].pc = worker[u].pc
          BY <1>3, <3>2, <4>2 DEF AsBefore
        <5>2. worker[u].pc = "idle"
          BY <5>1, <4>2, <2>1 DEF ServiceInv, WorkersApart
        <5> QED BY <5>1, <5>2
      <4> QED BY <4>1, <4>2
    <3>3. worker[w].request = worker'[w].request
      BY <1>3
    <3> QED BY <3>1, <3>2, <3>3 DEF HasStored
  <2>6. session' # NoRequest => HasStored(session)'
    BY <2>1, <2>5, <1>3
  <2>7. ASSUME NEW u \in Workers
        PROVE  /\ worker'[u].old # NoRequest => HasStored(worker[u].old)'
               /\ worker'[u].pc = "replacing" => worker'[u].request \in live'
               /\ worker'[u].pc = "closing" /\ worker'[u].old # NoRequest =>
                     worker'[u].old # session'
    <3>1. worker'[u].old = worker[u].old
      BY <2>2, <1>3 DEF AsBefore
    <3>2. worker[u].old # NoRequest => HasStored(worker[u].old)
      BY DEF SessionInv
    <3>3. worker'[u].old # NoRequest => HasStored(worker[u].old)'
      BY <3>1, <3>2, <1>2, <1>4
    <3>4. worker'[u].old # NoRequest => worker'[u].old # session'
      BY <3>1, <3>2, <2>1, <2>4
    <3>5. worker'[u].pc = "replacing" => worker'[u].request \in live'
      BY <2>1, <2>2, <1>3 DEF SessionInv, AsBefore
    <3> QED BY <3>3, <3>4, <3>5
  <2> QED BY <2>3, <2>6, <2>7 DEF SessionInv
<1>8. CASE CloseOld(w)
  <2>1. /\ worker[w].pc = "closing" /\ live' = live \ {worker[w].old}
        /\ session' = session
    BY <1>8 DEF CloseOld, Closed
  <2>2. worker'[w].pc = "statement" /\ worker'[w].old = NoRequest
    BY <1>8, Positions
  <2>3. SessionNeverDangles'
    BY <2>1 DEF SessionInv, SessionNeverDangles
  <2>4. session' # NoRequest => HasStored(session)'
    BY <2>1, <1>2, <1>4 DEF SessionInv
  <2>5. ASSUME NEW u \in Workers
        PROVE  /\ worker'[u].old # NoRequest => HasStored(worker[u].old)'
               /\ worker'[u].pc = "replacing" => worker'[u].request \in live'
               /\ worker'[u].pc = "closing" /\ worker'[u].old # NoRequest =>
                     worker'[u].old # session'
    <3>1. CASE u = w
      BY <3>1, <2>2
    <3>2. CASE u # w
      <4>1. /\ worker'[u].old = worker[u].old /\ worker'[u].pc = worker[u].pc
            /\ worker'[u].request = worker[u].request
        BY <3>2, <1>3 DEF AsBefore
      <4>2. worker[u].pc = "replacing" => worker[u].request # worker[w].old
        <5>1. worker[u].pc = "replacing" => ~HasStored(worker[u].request)
          BY DEF HasStored
        <5>2. worker[w].old = NoRequest \/ HasStored(worker[w].old)
          BY DEF SessionInv
        <5>3. worker[u].pc = "replacing" => worker[u].request # NoRequest
          BY <1>4, Busy
        <5> QED BY <5>1, <5>2, <5>3
      <4> QED BY <4>1, <4>2, <2>1, <1>2, <1>4 DEF SessionInv
    <3> QED BY <3>1, <3>2
  <2> QED BY <2>3, <2>4, <2>5 DEF SessionInv
<1> QED BY <1>5, <1>6, <1>7, <1>8 DEF WorkerStep

\* A request begins or ends, away from the sessions.
LEMMA SessionAroundRequests ==
    ASSUME ServiceInv, SessionInv, NEW w \in Workers,
           TraceResponse(w) \/ \E r \in Requests : TraceRequest(w, r)
    PROVE  SessionInv'
<1>1. session' = session /\ live' = live
  BY DEF TraceResponse, TraceRequest, sessionVars
<1>2. \A x \in Requests : HasStored(x) => HasStored(x)'
  BY StoredAroundRequests
<1>3. /\ worker'[w].pc \in {"idle", "traced"} /\ worker'[w].old = NoRequest
      /\ \A u \in Workers \ {w} : worker'[u] = worker[u]
  <2>1. PICK r : \/ worker' = [worker EXCEPT ![w] = Idle]
                 \/ worker' = [worker EXCEPT
                       ![w] = [Idle EXCEPT !.pc = "traced", !.request = r]]
    BY DEF TraceResponse, TraceRequest
  <2> DEFINE v == [Idle EXCEPT !.pc = "traced", !.request = r]
  <2>2. v.pc = "traced" /\ v.old = NoRequest /\ Idle.pc = "idle"
        /\ Idle.old = NoRequest
    BY DEF Idle
  <2>3. worker' = [worker EXCEPT ![w] = Idle] \/ worker' = [worker EXCEPT ![w] = v]
    BY <2>1
  <2> HIDE DEF v
  <2> QED BY <2>2, <2>3 DEF ServiceInv, TypeOK
<1>4. \A u \in Workers \ {w} : AsBefore(u)
  BY <1>3 DEF AsBefore
<1> QED BY <1>1, <1>2, <1>3, <1>4, SessionRests

\* No session survives the process.
LEMMA SessionDies ==
    ASSUME Dies PROVE SessionInv'
<1>1. session' = NoRequest /\ worker' = [w \in Workers |-> Idle]
  BY DEF Dies
<1> QED BY <1>1, IdleServesNone DEF SessionInv, SessionNeverDangles

\* A step that leaves workers, spans and sessions alone.
LEMMA SessionOutside ==
    ASSUME SessionInv, UNCHANGED <<span, worker, response, session, live>>
    PROVE  SessionInv'
BY DEF SessionInv, SessionNeverDangles, HasStored

\* Every step keeps the sessions in order.
LEMMA NextSession == ServiceInv /\ SessionInv /\ [Next]_vars => SessionInv'
<1> SUFFICES ASSUME ServiceInv, SessionInv, [Next]_vars PROVE SessionInv'
  OBVIOUS
<1>1. ASSUME NEW w \in Workers, NEW r \in Requests, TraceRequest(w, r)
      PROVE  SessionInv'
  BY <1>1, SessionAroundRequests
<1>2. ASSUME NEW w \in Workers, WorkerStep(w) PROVE SessionInv'
  BY <1>2, SessionAroundRequests, SessionMoves
<1>3. ASSUME NEW w \in Workers, Crash(w) PROVE SessionInv'
  BY <1>3, SessionDies DEF Crash
<1>4. CASE Kill
  BY <1>4, SessionDies DEF Kill
<1>5. CASE DbFails \/ DbReturns \/ Start \/ UNCHANGED vars
  BY <1>5, OutsideKeeps, SessionOutside
<1>6. CASE Rests
  BY <1>5, <1>6 DEF Rests
<1> QED BY <1>1, <1>2, <1>3, <1>4, <1>5, <1>6 DEF Next

\* The sessions are in order in every reachable state.
THEOREM SessionInvariance == Spec => []SessionInv
BY InitSession, NextSession, ServiceInvariance, PTL DEF Spec

\* connect() may race with itself (mysql_example.cpp:134): whatever session
\* the demos leave in session_, it is not one that was closed.
THEOREM SessionIsLive == Spec => []SessionNeverDangles
<1>1. SessionInv => SessionNeverDangles
  BY DEF SessionInv
<1> QED BY <1>1, SessionInvariance, PTL

\* A session that session_ does not hold, or that was closed, has no way back.
GoneForGood(r) == HasStored(r) => /\ HasStored(r)'
                                  /\ session # r => session' # r
                                  /\ r \notin live => r \notin live'

\* connect() brings in no session but that of a demo that has not stored one yet.
LEMMA StepsBringNoneBack ==
    ASSUME ServiceInv, NEW w \in Workers, WorkerStep(w), ~TraceResponse(w),
           NEW r \in Requests
    PROVE  GoneForGood(r)
<1> SUFFICES ASSUME HasStored(r) PROVE /\ session # r => session' # r
                                       /\ r \notin live => r \notin live'
  BY StoredForGood DEF GoneForGood
<1>1. CASE \/ EnterHandler(w) \/ LeaveHandler(w) \/ BeginStatement(w)
           \/ Execute(w) \/ LeaveDemo(w)
  BY <1>1 DEF EnterHandler, LeaveHandler, BeginStatement, Execute, LeaveDemo,
              sessionVars
<1>2. CASE OpenSession(w)
  <2>1. worker[w].pc = "connect"
    BY <1>2 DEF OpenSession
  <2>2. worker[w].request # r
    BY <2>1 DEF HasStored
  <2>3. session' = session /\ (live' = live \/ live' = live \cup {worker[w].request})
    BY <1>2 DEF OpenSession, Opened
  <2> QED BY <2>2, <2>3
<1>3. CASE WriteNew(w)
  <2>1. worker[w].pc = "replacing"
    BY <1>3 DEF WriteNew
  <2>2. worker[w].request # r
    BY <2>1 DEF HasStored
  <2>3. session' = worker[w].request /\ live' = live
    BY <1>3 DEF WriteNew, Stored
  <2> QED BY <2>2, <2>3
<1>4. CASE CloseOld(w)
  <2>1. session' = session /\ live' \subseteq live
    BY <1>4 DEF CloseOld
  <2> QED BY <2>1
<1> QED BY <1>1, <1>2, <1>3, <1>4 DEF WorkerStep

\* A stop brings none back either.
LEMMA DyingBringsNoneBack ==
    ASSUME ServiceInv, Dies, NEW r \in Requests
    PROVE  GoneForGood(r)
<1>1. /\ worker' = [w \in Workers |-> Idle] /\ live' = {} /\ session' = NoRequest
      /\ span' = [x \in Requests |-> Lose(span[x])]
  BY DEF Dies
<1>2. session' # r /\ r \notin live' /\ \A w \in Workers : worker'[w].request # r
  BY <1>1, IdleServesNone
<1>3. span[r].phase # "none" => span'[r].phase # "none"
  <2>1. span'[r] = Lose(span[r]) /\ span[r] \in SpanRecords
    BY <1>1 DEF ServiceInv, TypeOK
  <2> QED BY <2>1 DEF Lose, SpanRecords, SpanType
<1> QED BY <1>2, <1>3 DEF GoneForGood, HasStored

\* Each demo passes connect() (mysql_example.cpp:134) once: whatever the demos that
\* race there do to session_, one of them has stored its session for the only time,
\* and a session that was replaced or closed is never current or open again.
THEOREM SessionsGoForGood == Spec => [][\A r \in Requests : GoneForGood(r)]_vars
<1>1. ASSUME ServiceInv, [Next]_vars
      PROVE  [\A r \in Requests : GoneForGood(r)]_vars
  <2> SUFFICES ASSUME NEW r \in Requests PROVE GoneForGood(r) \/ UNCHANGED vars
    OBVIOUS
  <2>1. ASSUME NEW w \in Workers,
               TraceResponse(w) \/ \E x \in Requests : TraceRequest(w, x)
        PROVE  GoneForGood(r)
    <3>1. session' = session /\ live' = live
      BY <2>1 DEF TraceResponse, TraceRequest, sessionVars
    <3> QED BY <1>1, <2>1, <3>1, StoredAroundRequests DEF GoneForGood
  <2>2. ASSUME NEW w \in Workers, WorkerStep(w) PROVE GoneForGood(r)
    BY <1>1, <2>1, <2>2, StepsBringNoneBack
  <2>3. CASE Kill \/ \E w \in Workers : Crash(w)
    BY <1>1, <2>3, DyingBringsNoneBack DEF Kill, Crash
  <2>4. CASE DbFails \/ DbReturns \/ Start
    <3>1. UNCHANGED <<span, worker, session, live>>
      BY <1>1, <2>4, OutsideKeeps
    <3> QED BY <3>1 DEF GoneForGood, HasStored
  <2>5. Rests => UNCHANGED vars
    BY DEF Rests
  <2> QED BY <1>1, <2>1, <2>2, <2>3, <2>4, <2>5 DEF Next
<1> QED BY <1>1, ServiceInvariance, PTL DEF Spec

-----------------------------------------------------------------------------
(* Demos that meet no other demo. *)

\* No demo runs at first.
LEMMA InitCompany == Init => CompanyInv
<1>1. Init => live = {} /\ \A w \in Workers : worker[w] = Idle
  BY DEF Init
<1>2. Init => \A w \in Workers : ~Alone(w)
  BY <1>1, IdleServesNone DEF Alone
<1> QED BY <1>1, <1>2 DEF CompanyInv

\* What demos met is not forgotten.
LEMMA CompanyGrows ==
    ASSUME TypeOK, [Next]_vars
    PROVE  \A r \in Requests : company[r] \subseteq company'[r]
<1>1. \A S, what : \A r \in Requests : company[r] \subseteq Met(S, what)[r]
  BY DEF Met
<1>2. \/ company' = company
      \/ \E S, what : company' = Met(S, what)
  BY DEF Next, WorkerStep, EnterHandler, LeaveHandler, TraceResponse, OpenSession,
         WriteNew, CloseOld, BeginStatement, Execute, LeaveDemo, TraceRequest,
         Crash, Kill, Dies, DbFails, DbReturns, Start, Rests, historyVars, vars
<1> QED BY <1>1, <1>2

\* A demo that runs alone is the only one that runs.
LEMMA OneAlone ==
    ASSUME ServiceInv, CompanyInv, NEW w \in Workers, Alone(w),
           NEW u \in Workers, worker[u].pc \in InDemo
    PROVE  u = w
BY Busy DEF CompanyInv, AloneInv, Serves, InDemo

\* A worker steps within a demo: if the demo is alone, so is it after.
LEMMA AloneMoves ==
    ASSUME ServiceInv, SessionInv, CompanyInv, [Next]_vars, NEW w \in Workers,
           WorkerStep(w), ~TraceResponse(w), NEW u \in Workers, Alone(u)'
    PROVE  AloneInv(u)'
<1>1. Steps(w) /\ TypeOK
  BY WorkerMoves DEF ServiceInv
<1>2. /\ \A v \in Workers : worker'[v].request = worker[v].request
      /\ \A v \in Workers \ {w} : AsBefore(v)
  BY <1>1 DEF Steps, AsBefore
<1>3. Alone(u) /\ AloneInv(u)
  <2>1. Alone(u)
    BY <1>1, <1>2, CompanyGrows, MysqlAssumption DEF Alone
  <2> QED BY <2>1 DEF CompanyInv
<1>4. \A v \in Workers \ {u} : worker'[v].request \notin Demos
  BY <1>2, <1>3 DEF AloneInv
<1>5. /\ worker[w].request \in Requests
      /\ Serves(worker[w], span[worker[w].request], response[worker[w].request])
  BY <1>1, Busy DEF Steps
<1>6. CASE EnterHandler(w) \/ LeaveHandler(w)
  <2>1. session' = session /\ live' = live
    BY <1>6 DEF EnterHandler, LeaveHandler, sessionVars
  <2>2. u = w => worker'[u].pc \notin {"replacing", "closing", "statement", "executing"}
    BY <1>6, Positions
  <2>3. u # w => worker'[u] = worker[u]
    BY <1>6, <1>1 DEF EnterHandler, LeaveHandler, TypeOK
  <2> QED BY <2>1, <2>2, <2>3, <1>3, <1>4 DEF AloneInv
<1>7. CASE \/ OpenSession(w) \/ WriteNew(w) \/ CloseOld(w) \/ BeginStatement(w)
           \/ Execute(w) \/ LeaveDemo(w)
  <2>1. worker[w].pc \in InDemo
    BY <1>7 DEF OpenSession, WriteNew, CloseOld, BeginStatement, Execute, LeaveDemo,
                InDemo
  <2>2. u = w
    BY <2>1, <1>3, OneAlone
  <2>3. CASE OpenSession(w)
    <3>1. worker'[w].pc = "leave" \/
          (worker'[w].pc = "replacing" /\ worker'[w].old = session)
      BY <2>3, Positions
    <3>2. session' = session
      BY <2>3 DEF OpenSession
    <3> QED BY <3>1, <3>2, <2>2, <1>4 DEF AloneInv
  <2>4. CASE WriteNew(w)
    <3>1. worker[w].pc = "replacing" /\ live' = live /\ session' = worker[w].request
      BY <2>4 DEF WriteNew, Stored
    <3>2. worker'[w].pc = "closing" /\ worker'[w].old = worker[w].old
      BY <2>4, Positions
    <3>3. worker[w].old \in live \cup {NoRequest}
      BY <3>1, <2>2, <1>3 DEF AloneInv, SessionInv, SessionNeverDangles
    <3> QED BY <3>1, <3>2, <3>3, <2>2, <1>2, <1>4 DEF AloneInv
  <2>5. CASE CloseOld(w)
    <3>1. worker[w].pc = "closing" /\ session' = session
      BY <2>5 DEF CloseOld
    <3>2. worker'[w].pc = "statement"
      BY <2>5, Positions
    <3> QED BY <3>1, <3>2, <2>2, <1>2, <1>3, <1>4 DEF AloneInv
  <2>6. CASE BeginStatement(w)
    <3>1. worker[w].pc = "statement" /\ session' = session
      BY <2>6 DEF BeginStatement, sessionVars
    <3>2. worker'[w].pc = "executing" /\ worker'[w].on = session
      BY <2>6, Positions
    <3>3. ~worker'[w].raced
      <4> DEFINE racers == {v \in Workers \ {w} : /\ worker[v].pc = "executing"
                                                  /\ worker[v].on = session}
      <4>1. racers = {}
        BY <2>2, <1>3, OneAlone DEF InDemo
      <4>2. worker'[w] = [worker[w] EXCEPT !.pc = "executing", !.on = session,
                                           !.raced = racers # {}]
        BY <2>6 DEF BeginStatement
      <4>3. worker[w] \in WorkerRecords
        BY <1>1 DEF TypeOK
      <4> HIDE DEF racers
      <4>4. worker'[w].raced = (racers # {})
        BY <4>2, <4>3 DEF WorkerRecords
      <4> QED BY <4>1, <4>4
    <3> QED BY <3>1, <3>2, <3>3, <2>2, <1>2, <1>3, <1>4 DEF AloneInv
  <2>7. CASE Execute(w)
    <3>1. worker[w].pc = "executing" /\ session' = session
      BY <2>7 DEF Execute, sessionVars
    <3>2. worker'[w].pc \in {"told", "statement"}
      BY <2>7, Positions
    <3> QED BY <3>1, <3>2, <2>2, <1>2, <1>3, <1>4 DEF AloneInv
  <2>8. CASE LeaveDemo(w)
    <3>1. worker'[w].pc = "leave"
      BY <2>8, Positions
    <3> QED BY <3>1, <2>2, <1>4 DEF AloneInv
  <2> QED BY <1>7, <2>3, <2>4, <2>5, <2>6, <2>7, <2>8
<1> QED BY <1>6, <1>7 DEF WorkerStep

\* Where no demo met another, the step of a worker loses no session.
LEMMA LeakMoves ==
    ASSUME ServiceInv, SessionInv, CompanyInv, [Next]_vars, NEW w \in Workers,
           WorkerStep(w), ~TraceResponse(w),
           \A r \in Demos : "demo" \notin company'[r], NEW x \in live'
    PROVE  x = session' \/ OnItsWay(x)'
<1>1. Steps(w) /\ TypeOK
  BY WorkerMoves DEF ServiceInv
<1>2. \A r \in Demos : "demo" \notin company[r]
  BY <1>1, CompanyGrows, MysqlAssumption
<1>3. x \in live => x = session \/ OnItsWay(x)
  BY <1>2 DEF CompanyInv
<1>4. ASSUME NEW v \in Workers \ {w},
             \/ worker[v].pc = "replacing" /\ x = worker[v].request
             \/ worker[v].pc = "closing" /\ x = worker[v].old
      PROVE  OnItsWay(x)'
  BY <1>1, <1>4 DEF OnItsWay, Steps, AsBefore
<1>5. CASE \/ EnterHandler(w) \/ LeaveHandler(w) \/ BeginStatement(w)
           \/ Execute(w) \/ LeaveDemo(w)
  <2>1. session' = session /\ live' = live
    BY <1>5 DEF EnterHandler, LeaveHandler, BeginStatement, Execute, LeaveDemo,
                sessionVars
  <2>2. worker[w].pc \notin {"replacing", "closing"}
    BY <1>5 DEF EnterHandler, LeaveHandler, BeginStatement, Execute, LeaveDemo
  <2> QED BY <2>1, <2>2, <1>3, <1>4 DEF OnItsWay
<1>6. CASE OpenSession(w)
  <2>1. worker[w].pc = "connect" /\ session' = session
    BY <1>6 DEF OpenSession
  <2>2. CASE x \in live
    BY <2>1, <2>2, <1>3, <1>4 DEF OnItsWay
  <2>3. CASE x \notin live
    <3>1. live' # live
      BY <2>3
    <3>2. live' = live \cup {worker[w].request} /\ worker'[w].pc = "replacing"
      BY <1>6, <3>1, Positions DEF OpenSession, Opened
    <3> QED BY <2>3, <3>2, <1>1 DEF OnItsWay, Steps
  <2> QED BY <2>2, <2>3
<1>7. CASE WriteNew(w)
  <2>1. worker[w].pc = "replacing" /\ live' = live /\ session' = worker[w].request
    BY <1>7 DEF WriteNew, Stored
  <2>2. worker'[w].pc = "closing" /\ worker'[w].old = worker[w].old
    BY <1>7, Positions
  <2>3. worker[w].request \in Demos
    BY <2>1, Busy DEF Serves, InDemo
  <2>4. worker[w].old = session
    BY <2>1, <2>3, <1>2 DEF CompanyInv, Alone, AloneInv
  <2>5. x = session => OnItsWay(x)'
    BY <2>2, <2>4 DEF OnItsWay
  <2> QED BY <2>1, <2>5, <1>3, <1>4 DEF OnItsWay
<1>8. CASE CloseOld(w)
  <2>1. worker[w].pc = "closing" /\ live' = live \ {worker[w].old}
        /\ session' = session
    BY <1>8 DEF CloseOld, Closed
  <2> QED BY <2>1, <1>3, <1>4 DEF OnItsWay
<1> QED BY <1>5, <1>6, <1>7, <1>8 DEF WorkerStep

\* A request that ends makes nobody less alone.
LEMMA CompanyAtResponse ==
    ASSUME ServiceInv, CompanyInv, NEW w \in Workers, TraceResponse(w)
    PROVE  CompanyInv'
<1>1. /\ worker[w].pc = "respond" /\ worker' = [worker EXCEPT ![w] = Idle]
      /\ UNCHANGED <<session, live, company>>
  BY DEF TraceResponse, sessionVars, historyVars
<1>2. /\ worker'[w] = Idle
      /\ \A u \in Workers \ {w} : worker'[u] = worker[u]
  BY <1>1 DEF ServiceInv, TypeOK
<1>3. ASSUME NEW u \in Workers, Alone(u)' PROVE AloneInv(u)'
  <2>1. u # w /\ Alone(u)
    BY <1>1, <1>2, <1>3, IdleServesNone DEF Alone
  <2>2. AloneInv(u)
    BY <2>1 DEF CompanyInv
  <2> QED BY <2>1, <2>2, <1>1, <1>2, IdleServesNone DEF AloneInv
<1>4. ASSUME \A r \in Demos : "demo" \notin company'[r], NEW x \in live'
      PROVE  x = session' \/ OnItsWay(x)'
  <2>1. x = session \/ OnItsWay(x)
    BY <1>1, <1>4 DEF CompanyInv
  <2> QED BY <2>1, <1>1, <1>2 DEF OnItsWay
<1> QED BY <1>3, <1>4 DEF CompanyInv

\* A demo that begins is alone if none runs; those that run are not any more.
LEMMA CompanyAtRequest ==
    ASSUME ServiceInv, CompanyInv, [Next]_vars, NEW w \in Workers,
           NEW r \in Requests, TraceRequest(w, r)
    PROVE  CompanyInv'
<1> DEFINE v == [Idle EXCEPT !.pc = "traced", !.request = r]
<1>1. /\ worker[w].pc = "idle" /\ worker' = [worker EXCEPT ![w] = v]
      /\ UNCHANGED <<session, live>>
      /\ company' = IF r \notin Demos \/ Running = {} THEN company
                     ELSE Met(Running \cup {r}, "demo")
  BY DEF TraceRequest, sessionVars
<1>2. v.pc = "traced" /\ v.request = r
  BY DEF Idle
<1> HIDE DEF v
<1>3. /\ worker'[w] = v /\ TypeOK /\ Demos \subseteq Requests
      /\ \A u \in Workers \ {w} : worker'[u] = worker[u]
  BY <1>1, MysqlAssumption DEF ServiceInv, TypeOK
<1>4. ASSUME NEW u \in Workers, Alone(u)' PROVE AloneInv(u)'
  <2>1. CASE u = w
    <3>1. r \in Demos /\ "demo" \notin company'[r]
      BY <1>2, <1>3, <1>4, <2>1 DEF Alone
    <3>2. Running = {}
      BY <1>1, <1>3, <3>1 DEF Met
    <3>3. \A x \in Workers : worker[x].request \notin Demos
      BY <3>2 DEF Running
    <3> QED BY <2>1, <3>3, <1>2, <1>3 DEF AloneInv
  <2>2. CASE u # w
    <3>1. worker'[u] = worker[u] /\ worker[u].request \in Demos
      BY <2>2, <1>3, <1>4 DEF Alone
    <3>2. Alone(u) /\ AloneInv(u)
      BY <3>1, <1>3, <1>4, CompanyGrows DEF Alone, CompanyInv
    <3>3. worker[u].request \in Running
      BY <3>1 DEF Running
    <3>4. r \notin Demos
      BY <1>1, <1>3, <1>4, <3>1, <3>3 DEF Alone, Met
    <3> QED BY <2>2, <3>1, <3>2, <3>4, <1>1, <1>2, <1>3 DEF AloneInv
  <2> QED BY <2>1, <2>2
<1>5. ASSUME \A x \in Demos : "demo" \notin company'[x], NEW x \in live'
      PROVE  x = session' \/ OnItsWay(x)'
  <2>1. x = session \/ OnItsWay(x)
    BY <1>1, <1>3, <1>5, CompanyGrows DEF CompanyInv
  <2> QED BY <2>1, <1>1, <1>3 DEF OnItsWay
<1> QED BY <1>4, <1>5 DEF CompanyInv

\* Every step keeps it.
LEMMA NextCompany ==
    ServiceInv /\ SessionInv /\ CompanyInv /\ [Next]_vars => CompanyInv'
<1> SUFFICES ASSUME ServiceInv, SessionInv, CompanyInv, [Next]_vars PROVE CompanyInv'
  OBVIOUS
<1>1. ASSUME NEW w \in Workers, NEW r \in Requests, TraceRequest(w, r)
      PROVE  CompanyInv'
  BY <1>1, CompanyAtRequest
<1>2. ASSUME NEW w \in Workers, WorkerStep(w) PROVE CompanyInv'
  <2>1. CASE TraceResponse(w)
    BY <2>1, CompanyAtResponse
  <2>2. CASE ~TraceResponse(w)
    <3>1. \A u \in Workers : Alone(u)' => AloneInv(u)'
      BY <1>2, <2>2, AloneMoves
    <3>2. (\A r \in Demos : "demo" \notin company'[r]) =>
             \A x \in live' : x = session' \/ OnItsWay(x)'
      BY <1>2, <2>2, LeakMoves
    <3> QED BY <3>1, <3>2 DEF CompanyInv
  <2> QED BY <2>1, <2>2
<1>3. CASE Dies
  <2>1. live' = {} /\ worker' = [w \in Workers |-> Idle]
    BY <1>3 DEF Dies
  <2>2. \A u \in Workers : ~Alone(u)'
    BY <2>1, IdleServesNone DEF Alone
  <2> QED BY <2>1, <2>2 DEF CompanyInv
<1>4. CASE DbFails \/ DbReturns \/ Start \/ UNCHANGED vars
  <2>1. UNCHANGED <<worker, session, live>>
    BY <1>4, OutsideKeeps
  <2>2. /\ \A r \in Demos : "demo" \notin company'[r] => "demo" \notin company[r]
        /\ Demos \subseteq Requests
    BY CompanyGrows, MysqlAssumption DEF ServiceInv
  <2>3. \A u \in Workers : Alone(u)' => AloneInv(u)'
    <3>1. \A u \in Workers : Alone(u)' => Alone(u)
      BY <2>1, <2>2 DEF Alone
    <3>2. \A u \in Workers : AloneInv(u) => AloneInv(u)'
      BY <2>1 DEF AloneInv
    <3> QED BY <3>1, <3>2 DEF CompanyInv
  <2>4. \A x : OnItsWay(x) => OnItsWay(x)'
    BY <2>1 DEF OnItsWay
  <2> QED BY <2>1, <2>2, <2>3, <2>4 DEF CompanyInv
<1>5. CASE Rests
  BY <1>4, <1>5 DEF Rests
<1> QED BY <1>1, <1>2, <1>3, <1>4, <1>5 DEF Next, Crash, Kill

\* It holds in every reachable state.
THEOREM CompanyInvariance == Spec => []CompanyInv
BY InitCompany, NextCompany, ServiceInvariance, SessionInvariance, PTL DEF Spec

\* session_ is used after its end, closed twice, or used by two threads
\* (mysql_example.cpp:134, 222, 278) only where two demos ran at once.
THEOREM UndefinedTakesTwo == Spec => []UndefinedNeedsTwo
<1>1. ServiceInv /\ SessionInv /\ CompanyInv => UndefinedNeedsTwo
  <2> SUFFICES ASSUME ServiceInv, SessionInv, CompanyInv, NEW w \in Workers,
                      Undefined(w), "demo" \notin company[worker[w].request]
               PROVE  FALSE
    BY DEF UndefinedNeedsTwo
  <2>1. worker[w].pc \in {"executing", "closing"}
    BY DEF Undefined
  <2>2. worker[w].request \in Demos
    BY <2>1, Busy DEF Serves, InDemo
  <2>3. AloneInv(w)
    BY <2>2 DEF CompanyInv, Alone
  <2>4. session \in live \cup {NoRequest} /\ NoRequest \notin Demos
    BY IdleServesNone DEF SessionInv, SessionNeverDangles
  <2> QED BY <2>2, <2>3, <2>4 DEF AloneInv, Undefined
<1> QED BY <1>1, ServiceInvariance, SessionInvariance, CompanyInvariance, PTL

\* Between requests no session is open but the one in session_, unless two demos
\* met: connect() closes what it replaces (mysql_example.cpp:134).
THEOREM LeakTakesTwo == Spec => []LeakNeedsTwo
<1>1. ServiceInv /\ CompanyInv => LeakNeedsTwo
  <2> SUFFICES ASSUME ServiceInv, CompanyInv, Running = {}, NEW x \in live,
                      \A r \in Demos : "demo" \notin company[r]
               PROVE  x = session
    BY DEF LeakNeedsTwo
  <2>1. x = session \/ OnItsWay(x)
    BY DEF CompanyInv
  <2>2. \A w \in Workers : worker[w].pc \notin {"replacing", "closing"}
    BY Busy DEF Running, Serves, InDemo
  <2> QED BY <2>1, <2>2 DEF OnItsWay
<1> QED BY <1>1, ServiceInvariance, CompanyInvariance, PTL

-----------------------------------------------------------------------------
(* The report of a demo that met neither a demo nor an outage. *)

\* A table that is ready for a statement accepts it, a missing table apart.
LEMMA ReadyAccepts ==
    ASSUME SetsUpFirst, NEW k \in 1 .. Len(Statements), TableReady(table, k)
    PROVE  Accepts(k) <=> Statements[k] # "missing"
<1>1. k \in Int /\ k >= 1
  BY Lengths
<1>2. k = 1 => Statements[k] = "create"
  BY DEF SetsUpFirst
<1>3. k # 1 => table.exists
  BY <1>1 DEF TableReady
<1>4. CASE Statements[k] \in Users
  <2>1. k \in Inserts
    BY <1>4 DEF Inserts
  <2>2. \E j \in 1 .. k - 1 : Statements[j] = "clear"
    BY <2>1 DEF SetsUpFirst
  <2>3. k \in k .. Len(Statements)
    BY Lengths
  <2>4. Statements[k] \notin table.users
    BY <1>4, <2>2, <2>3 DEF TableReady
  <2>5. k # 1
    BY <1>2, <1>4 DEF Users
  <2> QED BY <2>4, <2>5, <1>3, <1>4 DEF Accepts, Users
<1>5. CASE Statements[k] \notin Users
  BY <1>2, <1>3, <1>5 DEF Accepts
<1> QED BY <1>4, <1>5

\* What a statement makes of a ready table is ready for the next one.
LEMMA ReadyNext ==
    ASSUME SetsUpFirst, TypeOK, NEW k \in 1 .. Len(Statements), TableReady(table, k),
           NEW t, t = IF Statements[k] # "missing" THEN Changed(k) ELSE table
    PROVE  TableReady(t, k + 1)
<1>1. k \in Int /\ k >= 1 /\ Len(Statements) \in Nat
  BY Lengths
<1>2. table \in [exists : BOOLEAN, users : SUBSET Users]
  BY DEF TypeOK
<1>3. t.exists
  <2>1. CASE k = 1
    <3>1. Statements[k] = "create"
      BY <2>1 DEF SetsUpFirst
    <3>2. t = [table EXCEPT !.exists = TRUE]
      BY <3>1 DEF Changed, Users
    <3> QED BY <3>2, <1>2
  <2>2. CASE k # 1
    <3>1. table.exists
      BY <1>1, <2>2 DEF TableReady
    <3> QED BY <3>1, <1>2 DEF Changed
  <2> QED BY <2>1, <2>2
<1>4. ASSUME NEW i \in 1 .. (k + 1) - 1, Statements[i] = "clear",
             NEW j \in k + 1 .. Len(Statements), Statements[j] \in Users
      PROVE  Statements[j] \notin t.users
  <2>1. j \in Inserts /\ j \in k .. Len(Statements) /\ k \in 1 .. j - 1
    <3>1. j \in 1 .. Len(Statements) /\ j \in k .. Len(Statements) /\ k \in 1 .. j - 1
      BY <1>1
    <3> QED BY <3>1, <1>4 DEF Inserts
  <2>2. Statements[k] # Statements[j]
    BY <2>1 DEF SetsUpFirst
  <2>3. CASE Statements[k] = "clear"
    <3>1. t = [table EXCEPT !.users = {}]
      BY <2>3 DEF Changed, Cleared, Users
    <3>2. t.users = {}
      BY <3>1, <1>2
    <3> QED BY <3>2
  <2>4. CASE Statements[k] # "clear"
    <3>1. i \in 1 .. k - 1
      <4>1. i # k
        BY <1>4, <2>4
      <4> QED BY <4>1, <1>1
    <3>2. Statements[j] \notin table.users
      BY <3>1, <2>1, <1>4 DEF TableReady
    <3>3. t.users \subseteq table.users \cup {Statements[k]}
      BY <2>4, <1>2 DEF Changed
    <3> QED BY <3>2, <3>3, <2>2
  <2> QED BY <2>3, <2>4
<1> QED BY <1>3, <1>4 DEF TableReady

\* One more statement has run.
LEMMA RanOneMore ==
    ASSUME NEW k \in 1 .. Len(Statements), NEW done, NEW failed, RanUpTo(k, done, failed)
    PROVE  RanUpTo(k + 1,
                   IF Statements[k] # "missing" THEN done \cup {k} ELSE done,
                   IF Statements[k] # "missing" THEN failed ELSE failed \cup {k})
<1>1. k \in Int /\ k >= 1 /\ Len(Statements) \in Nat
  BY Lengths
<1>2. 1 .. (k + 1) - 1 = (1 .. k - 1) \cup {k}
  BY <1>1
<1>3. k \in Missing <=> Statements[k] = "missing"
  BY DEF Missing
<1>4. k \notin 1 .. k - 1
  BY <1>1
<1> QED BY <1>2, <1>3, <1>4 DEF RanUpTo

\* Before the first statement nothing has run.
LEMMA RanNothing == RanUpTo(1, {}, {})
<1>1. 1 .. 1 - 1 = {}
  OBVIOUS
<1> QED BY <1>1 DEF RanUpTo

\* A demo without company is alone.
LEMMA UndisturbedIsAlone ==
    ASSUME CompanyInv, NEW w \in Workers, Undisturbed(w)
    PROVE  Alone(w) /\ AloneInv(w)
BY DEF Undisturbed, Alone, CompanyInv

\* Nothing is reported at first.
LEMMA InitReports == Init => ReportsInv
<1> SUFFICES ASSUME Init PROVE ReportsInv
  OBVIOUS
<1>1. \A w \in Workers : ~Undisturbed(w)
  BY IdleServesNone DEF Init, Undisturbed
<1>2. \A r \in Requests : effects[r] = {} /\ response[r] = "none"
  BY DEF Init
<1> QED BY <1>1, <1>2, MysqlAssumption DEF ReportsInv

\* Only a statement changes what is on record of effects and failures.
LEMMA RecordMoves ==
    ASSUME ServiceInv, NEW w \in Workers, WorkerStep(w), ~TraceResponse(w), ~Execute(w)
    PROVE  /\ effects' = effects /\ table' = table /\ dbUp' = dbUp
           /\ span'[worker[w].request].failed = span[worker[w].request].failed
<1> DEFINE r == worker[w].request
<1>1. r \in Requests /\ span[r] \in SpanRecords /\ span \in [Requests -> SpanRecords]
  BY WorkerMoves, Busy DEF Steps, ServiceInv, TypeOK
<1>2. /\ effects' = effects /\ table' = table /\ dbUp' = dbUp
      /\ \/ span' = span
         \/ \E e : span' = [span EXCEPT ![r] = NewSpanEvent(@, e)]
         \/ \E e : span' = [span EXCEPT ![r] = EndEvent(@, e, FALSE)]
  BY DEF WorkerStep, EnterHandler, LeaveHandler, OpenSession, WriteNew, CloseOld,
         BeginStatement, LeaveDemo, historyVars, processVars
<1> QED BY <1>1, <1>2 DEF NewSpanEvent, EndEvent, SpanRecords, SpanType

\* A statement of an undisturbed demo does what it says.
LEMMA ReportExecute ==
    ASSUME SetsUpFirst, ServiceInv, SessionInv, CompanyInv, NEW w \in Workers,
           Execute(w), Undisturbed(w), ReportInv(w)
    PROVE  ReportInv(w)'
<1> DEFINE r == worker[w].request
           k == worker[w].at
           good == Statements[k] # "missing"
<1>1. worker[w].pc = "executing" /\ worker[w] \in WorkerRecords
  BY DEF Execute, ServiceInv, TypeOK
<1>2. /\ r \in Requests /\ r \in Demos /\ k \in 1 .. Len(Statements)
      /\ span[r] \in SpanRecords
  BY <1>1, Busy DEF Serves, InDemo
<1>3. /\ dbUp /\ r \in connected /\ TableReady(table, k)
      /\ RanUpTo(k, effects[r], span[r].failed)
  BY <1>1 DEF ReportInv
<1>4. worker[w].on = r /\ ~Undefined(w)
  <2>1. /\ session = r /\ worker[w].on = session /\ ~worker[w].raced
        /\ session \in live \cup {NoRequest}
    BY <1>1, UndisturbedIsAlone DEF AloneInv, SessionInv, SessionNeverDangles
  <2> QED BY <2>1, <1>1, <1>2, IdleServesNone DEF Undefined
<1>5. Accepts(k) <=> good
  BY <1>2, <1>3, ReadyAccepts
<1> HIDE DEF good
<1>6. /\ table' = IF good THEN Changed(k) ELSE table
      /\ effects'[r] = IF good THEN effects[r] \cup {k} ELSE effects[r]
      /\ span'[r].failed = IF good THEN span[r].failed ELSE span[r].failed \cup {k}
  <2> DEFINE reached == dbUp /\ worker[w].on \in connected /\ Accepts(k)
  <2>1. reached <=> good
    BY <1>3, <1>4, <1>5
  <2> HIDE DEF reached
  <2>2. PICK done \in {FALSE, reached}, ok \in BOOLEAN :
           /\ ~Undefined(w) => done = reached /\ ok = reached
           /\ table' = IF done THEN Changed(k) ELSE table
           /\ effects' = [effects EXCEPT ![r] = IF done THEN @ \cup {k} ELSE @]
           /\ span' = [span EXCEPT ![r] = EndStatementEvent(@, k, ok)]
    BY DEF Execute, reached
  <2>3. done = reached /\ ok = reached
    BY <2>2, <1>4
  <2>4. /\ table' = IF reached THEN Changed(k) ELSE table
        /\ effects'[r] = IF reached THEN effects[r] \cup {k} ELSE effects[r]
        /\ span'[r] = EndStatementEvent(span[r], k, ok)
    BY <2>2, <2>3, <1>2 DEF ServiceInv, TypeOK
  <2>5. span'[r].failed = IF ok THEN span[r].failed ELSE span[r].failed \cup {k}
    BY <2>4, <1>2 DEF EndStatementEvent, EndEvent, SpanRecords, SpanType
  <2> QED BY <2>1, <2>3, <2>4, <2>5
<1>7. /\ worker'[w].request = r /\ worker'[w].at = k + 1
      /\ worker'[w].pc = IF k = Len(Statements) THEN "told" ELSE "statement"
  BY Positions, ExecuteMoves DEF Steps
<1>8. dbUp' /\ r \in connected'
  BY <1>3 DEF Execute, sessionVars, processVars
<1>9. TableReady(table', k + 1)
  BY <1>2, <1>3, <1>6, ReadyNext DEF ServiceInv, good
<1>10. RanUpTo(k + 1, effects'[r], span'[r].failed)
  <2>1. RanUpTo(k + 1, IF good THEN effects[r] \cup {k} ELSE effects[r],
                       IF good THEN span[r].failed ELSE span[r].failed \cup {k})
    BY <1>2, <1>3, RanOneMore DEF good
  <2> QED BY <2>1, <1>6
<1>11. k = Len(Statements) => RanUpTo(Len(Statements) + 1, effects'[r], span'[r].failed)
  BY <1>10
<1>12. worker'[w].pc = "told" => k = Len(Statements)
  BY <1>7
<1>13. worker'[w].pc \in {"told", "statement"}
  BY <1>7
<1> QED BY <1>7, <1>8, <1>9, <1>10, <1>11, <1>12, <1>13 DEF ReportInv

\* An undisturbed demo takes a step.
LEMMA ReportOfWorker ==
    ASSUME SetsUpFirst, ServiceInv, SessionInv, CompanyInv, NEW w \in Workers,
           WorkerStep(w), ~TraceResponse(w), Undisturbed(w), ReportInv(w)
    PROVE  ReportInv(w)'
<1> DEFINE r == worker[w].request
<1>1. /\ r \in Requests /\ r \in Demos /\ worker'[w].request = r
      /\ Serves(worker[w], span[r], response[r])
  BY WorkerMoves, Busy DEF Steps, Undisturbed
<1>2. AloneInv(w)
  BY UndisturbedIsAlone
<1>3. CASE Execute(w)
  BY <1>3, ReportExecute
<1>4. CASE ~Execute(w)
  <2>1. /\ effects' = effects /\ table' = table /\ dbUp' = dbUp
        /\ span'[r].failed = span[r].failed
    BY <1>4, RecordMoves
  <2>2. CASE EnterHandler(w)
    <3>1. worker'[w].pc = "connect" /\ worker[w].pc = "traced"
      BY <2>2, <1>1, Positions DEF EnterHandler
    <3> QED BY <3>1, <2>1, <1>1 DEF ReportInv
  <2>3. CASE LeaveHandler(w)
    <3>1. /\ worker'[w].pc = "respond" /\ worker'[w].status = worker[w].status
          /\ worker[w].pc = "leave"
      BY <2>3, Positions DEF LeaveHandler
    <3> QED BY <3>1, <2>1, <1>1 DEF ReportInv
  <2>4. CASE OpenSession(w)
    <3>1. worker[w].pc = "connect"
      BY <2>4 DEF OpenSession
    <3>2. CASE worker'[w].pc = "leave" /\ worker'[w].status = "503"
      BY <3>2 DEF ReportInv
    <3>3. CASE dbUp /\ worker'[w].pc = "replacing"
      <4>1. connected' = connected \cup {r}
        BY <2>4, <3>3, Positions DEF OpenSession
      <4> QED BY <4>1, <3>1, <3>3, <2>1, <1>1 DEF ReportInv
    <3> QED BY <3>2, <3>3, <2>4, Positions
  <2>5. CASE WriteNew(w)
    <3>1. /\ worker[w].pc = "replacing" /\ worker'[w].pc = "closing"
          /\ connected' = connected
      BY <2>5, Positions DEF WriteNew
    <3> QED BY <3>1, <2>1, <1>1 DEF ReportInv
  <2>6. CASE CloseOld(w)
    <3>1. /\ worker[w].pc = "closing" /\ worker'[w].pc = "statement"
          /\ worker'[w].at = 1 /\ connected' = connected \ {worker[w].old}
      BY <2>6, Positions DEF CloseOld, Closed
    <3>2. worker[w].old # r
      BY <3>1, <1>1, <1>2, IdleServesNone DEF AloneInv, SessionInv
    <3>3. TableReady(table', 1)
      BY DEF TableReady
    <3> QED BY <3>1, <3>2, <3>3, <2>1, <1>1 DEF ReportInv
  <2>7. CASE BeginStatement(w)
    <3>1. /\ worker[w].pc = "statement" /\ worker'[w].pc = "executing"
          /\ worker'[w].at = worker[w].at /\ connected' = connected
      BY <2>7, Positions DEF BeginStatement, sessionVars
    <3> QED BY <3>1, <2>1, <1>1 DEF ReportInv
  <2>8. CASE LeaveDemo(w)
    <3>1. worker[w].pc = "told" /\ worker'[w].pc = "leave"
      BY <2>8, Positions DEF LeaveDemo
    <3> QED BY <3>1, <2>1, <1>1 DEF ReportInv
  <2> QED BY <1>4, <2>2, <2>3, <2>4, <2>5, <2>6, <2>7, <2>8 DEF WorkerStep
<1> QED BY <1>3, <1>4

\* A step of another worker leaves an undisturbed demo as it is.
LEMMA ReportOfOther ==
    ASSUME ServiceInv, SessionInv, CompanyInv, NEW w \in Workers, WorkerStep(w),
           ~TraceResponse(w), NEW u \in Workers \ {w}, Undisturbed(u), ReportInv(u)
    PROVE  ReportInv(u)'
<1> DEFINE r == worker[u].request
<1>1. Steps(w) /\ TypeOK /\ AloneInv(u) /\ r \in Demos /\ r \in Requests
  BY WorkerMoves, UndisturbedIsAlone, MysqlAssumption DEF ServiceInv, Undisturbed
<1>2. worker[w].request \in Requests /\ worker[w].request \notin Demos
      /\ Serves(worker[w], span[worker[w].request], response[worker[w].request])
  BY <1>1, Busy DEF AloneInv, Steps
<1>3. EnterHandler(w) \/ LeaveHandler(w)
  BY <1>2 DEF WorkerStep, Serves, InDemo, OpenSession, WriteNew, CloseOld,
              BeginStatement, Execute, LeaveDemo
<1>4. /\ worker'[u] = worker[u]
      /\ UNCHANGED <<connected, table, effects, dbUp>>
  BY <1>1, <1>3 DEF EnterHandler, LeaveHandler, TypeOK, sessionVars, historyVars,
                    processVars
<1>5. span'[r] = span[r]
  BY <1>1, <1>2 DEF Steps
<1> QED BY <1>4, <1>5 DEF ReportInv

\* A worker steps within a request.
LEMMA ReportsMove ==
    ASSUME SetsUpFirst, ServiceInv, SessionInv, CompanyInv, ReportsInv, [Next]_vars,
           NEW w \in Workers, WorkerStep(w), ~TraceResponse(w)
    PROVE  ReportsInv'
<1>1. Steps(w) /\ TypeOK /\ Demos \subseteq Requests
  BY WorkerMoves, MysqlAssumption DEF ServiceInv
<1>2. /\ worker[w].request \in Requests /\ span[worker[w].request].phase = "open"
      /\ response[worker[w].request] = "none"
  BY <1>1, Busy DEF Steps, Serves
<1>3. \A r \in Requests \ {worker[w].request} : effects'[r] = effects[r]
  <2>1. \/ effects' = effects
        \/ \E e : effects' = [effects EXCEPT ![worker[w].request] = e]
    BY RecordMoves DEF Execute
  <2> QED BY <2>1, <1>1 DEF TypeOK
<1>4. ASSUME NEW u \in Workers, Undisturbed(u)' PROVE ReportInv(u)'
  <2>1. worker'[u].request = worker[u].request
    BY <1>1 DEF Steps, AsBefore
  <2>2. Undisturbed(u) /\ ReportInv(u)
    BY <2>1, <1>1, <1>4, CompanyGrows DEF Undisturbed, ReportsInv
  <2> QED BY <2>2, ReportOfWorker, ReportOfOther
<1>5. ASSUME NEW r \in Requests, span'[r].phase = "none" PROVE effects'[r] = {}
  BY <1>1, <1>2, <1>3, <1>5 DEF Steps, ReportsInv
<1>6. ASSUME NEW r \in Demos, response'[r] = "200", company'[r] = {}
      PROVE  RanUpTo(Len(Statements) + 1, effects'[r], span'[r].failed)
  <2>1. response[r] = "200" /\ company[r] = {} /\ r # worker[w].request
    BY <1>1, <1>2, <1>6, CompanyGrows DEF Steps
  <2>2. effects'[r] = effects[r] /\ span'[r] = span[r]
    BY <2>1, <1>1, <1>3 DEF Steps
  <2> QED BY <2>1, <2>2 DEF ReportsInv
<1> QED BY <1>4, <1>5, <1>6 DEF ReportsInv

\* The answer of an undisturbed demo is given.
LEMMA ReportsAtResponse ==
    ASSUME ServiceInv, ReportsInv, NEW w \in Workers, TraceResponse(w)
    PROVE  ReportsInv'
<1> DEFINE r == worker[w].request
<1>1. /\ worker[w].pc = "respond" /\ worker' = [worker EXCEPT ![w] = Idle]
      /\ span' = [span EXCEPT ![r] = EndSpan(@, FALSE)]
      /\ response' = [response EXCEPT ![r] = worker[w].status]
      /\ UNCHANGED <<connected, table, effects, company, dbUp>>
  BY DEF TraceResponse, sessionVars, historyVars, processVars
<1>2. /\ r \in Requests /\ span[r] \in SpanRecords /\ TypeOK
      /\ Demos \subseteq Requests
  BY <1>1, Busy, MysqlAssumption DEF ServiceInv
<1>3. /\ worker'[w] = Idle /\ \A u \in Workers \ {w} : worker'[u] = worker[u]
      /\ \A x \in Requests \ {r} : response'[x] = response[x]
      /\ response'[r] = worker[w].status
  BY <1>1, <1>2 DEF TypeOK
<1>4. \A x \in Requests : span'[x].failed = span[x].failed
  BY <1>1, <1>2 DEF TypeOK, EndSpan, SpanRecords, SpanType
<1>5. \A x \in Requests : span'[x].phase = "none" => span[x].phase = "none"
  BY <1>1, <1>2 DEF TypeOK, EndSpan, SpanRecords, SpanType
<1>6. ASSUME NEW u \in Workers, Undisturbed(u)' PROVE ReportInv(u)'
  <2>1. u # w
    BY <1>3, <1>6, IdleServesNone DEF Undisturbed
  <2>2. Undisturbed(u) /\ worker'[u] = worker[u] /\ worker[u].request \in Requests
    BY <2>1, <1>1, <1>2, <1>3, <1>6 DEF Undisturbed
  <2>3. ReportInv(u)
    BY <2>2 DEF ReportsInv
  <2>4. span'[worker[u].request].failed = span[worker[u].request].failed
    BY <2>2, <1>4
  <2>5. UNCHANGED <<connected, table, effects, dbUp>>
    BY <1>1
  <2> QED BY <2>2, <2>3, <2>4, <2>5 DEF ReportInv
<1>7. ASSUME NEW x \in Demos, response'[x] = "200", company'[x] = {}
      PROVE  RanUpTo(Len(Statements) + 1, effects'[x], span'[x].failed)
  <2>1. CASE x = r
    <3>1. Undisturbed(w) /\ worker[w].status = "200"
      BY <2>1, <1>1, <1>3, <1>7 DEF Undisturbed
    <3>2. RanUpTo(Len(Statements) + 1, effects[r], span[r].failed)
      BY <3>1, <1>1 DEF ReportsInv, ReportInv
    <3> QED BY <2>1, <3>2, <1>1, <1>2, <1>4
  <2>2. CASE x # r
    BY <2>2, <1>1, <1>2, <1>3, <1>4, <1>7 DEF ReportsInv
  <2> QED BY <2>1, <2>2
<1>8. \A x \in Requests : span'[x].phase = "none" => effects'[x] = {}
  BY <1>1, <1>5 DEF ReportsInv
<1> QED BY <1>6, <1>7, <1>8 DEF ReportsInv

\* A request begins: nothing of it has run.
LEMMA ReportsAtRequest ==
    ASSUME ServiceInv, ReportsInv, [Next]_vars, NEW w \in Workers,
           NEW r \in Requests, TraceRequest(w, r)
    PROVE  ReportsInv'
<1> DEFINE v == [Idle EXCEPT !.pc = "traced", !.request = r]
           s == NewSpan(SpanKind, NoContext)
<1>1. /\ worker[w].pc = "idle" /\ span[r].phase = "none"
      /\ worker' = [worker EXCEPT ![w] = v] /\ span' = [span EXCEPT ![r] = s]
      /\ UNCHANGED <<response, connected, table, effects, dbUp>>
  BY DEF TraceRequest, sessionVars, processVars
<1>2. v.pc = "traced" /\ v.request = r /\ s.failed = {} /\ s.phase = "open"
  BY DEF Idle, NewSpan
<1> HIDE DEF v, s
<1>3. /\ worker'[w] = v /\ \A u \in Workers \ {w} : worker'[u] = worker[u]
      /\ span'[r] = s /\ \A x \in Requests \ {r} : span'[x] = span[x]
      /\ TypeOK /\ Demos \subseteq Requests
  BY <1>1, MysqlAssumption DEF ServiceInv, TypeOK
<1>4. effects[r] = {} /\ response[r] = "none"
  BY <1>1 DEF ReportsInv, ServiceInv, RequestInv
<1>5. ASSUME NEW u \in Workers, Undisturbed(u)' PROVE ReportInv(u)'
  <2>1. CASE u = w
    <3>1. worker'[u].pc = "traced" /\ worker'[u].request = r
      BY <2>1, <1>2, <1>3
    <3>2. RanUpTo(1, effects'[r], span'[r].failed)
      BY <1>1, <1>2, <1>3, <1>4, RanNothing
    <3> QED BY <3>1, <3>2 DEF ReportInv
  <2>2. CASE u # w
    <3>1. worker'[u] = worker[u] /\ worker[u].request \in Demos
      BY <2>2, <1>3, <1>5 DEF Undisturbed
    <3>2. Undisturbed(u) /\ ReportInv(u)
      BY <3>1, <1>3, <1>5, CompanyGrows DEF Undisturbed, ReportsInv
    <3>3. worker[u].request # r
      <4>1. worker[u].pc # "idle"
        BY <3>1, IdleServesNone DEF ServiceInv, WorkerInv
      <4> QED BY <4>1, <1>1, Busy DEF Serves
    <3> QED BY <3>1, <3>2, <3>3, <1>1, <1>3 DEF ReportInv
  <2> QED BY <2>1, <2>2
<1>6. \A x \in Requests : span'[x].phase = "none" => effects'[x] = {}
  BY <1>1, <1>2, <1>3 DEF ReportsInv
<1>7. ASSUME NEW x \in Demos, response'[x] = "200", company'[x] = {}
      PROVE  RanUpTo(Len(Statements) + 1, effects'[x], span'[x].failed)
  <2>1. x # r /\ response[x] = "200" /\ company[x] = {}
    BY <1>1, <1>3, <1>4, <1>7, CompanyGrows
  <2> QED BY <2>1, <1>1, <1>3 DEF ReportsInv
<1> QED BY <1>5, <1>6, <1>7 DEF ReportsInv

\* The process ends: what was answered stays.
LEMMA ReportsDie ==
    ASSUME ServiceInv, ReportsInv, Dies PROVE ReportsInv'
<1>1. /\ worker' = [w \in Workers |-> Idle]
      /\ span' = [r \in Requests |-> Lose(span[r])]
      /\ UNCHANGED <<response, effects, company>>
  BY DEF Dies, historyVars
<1>2. \A w \in Workers : ~Undisturbed(w)'
  BY <1>1, IdleServesNone DEF Undisturbed
<1>3. \A r \in Requests : /\ span'[r].failed = span[r].failed
                          /\ span'[r].phase = "none" => span[r].phase = "none"
  BY <1>1 DEF ServiceInv, TypeOK, Lose, SpanRecords, SpanType
<1> QED BY <1>1, <1>2, <1>3, MysqlAssumption DEF ReportsInv

\* The database goes and comes: a demo that runs meets it.
LEMMA ReportsOutside ==
    ASSUME ServiceInv, ReportsInv, [Next]_vars,
           DbFails \/ DbReturns \/ Start \/ UNCHANGED vars
    PROVE  ReportsInv'
<1>1. UNCHANGED <<span, worker, response, table, effects>>
  BY DEF DbFails, DbReturns, Start, vars, sessionVars, historyVars
<1>2. Demos \subseteq Requests /\ \A r \in Requests : company[r] \subseteq company'[r]
  BY CompanyGrows, MysqlAssumption DEF ServiceInv
<1>3. ASSUME NEW u \in Workers, Undisturbed(u)' PROVE ReportInv(u)'
  <2>1. Undisturbed(u) /\ ReportInv(u)
    BY <1>1, <1>2, <1>3 DEF Undisturbed, ReportsInv
  <2>2. ~DbFails
    <3>1. worker[u].request \in Running
      BY <2>1 DEF Running, Undisturbed
    <3> QED BY <3>1, <1>1, <1>2, <1>3, <2>1 DEF DbFails, Met, Undisturbed
  <2>3. connected' = connected /\ (dbUp => dbUp')
    BY <2>2 DEF DbReturns, Start, vars, sessionVars, processVars
  <2> QED BY <2>1, <2>3, <1>1 DEF ReportInv
<1>4. ASSUME NEW r \in Demos, response'[r] = "200", company'[r] = {}
      PROVE  RanUpTo(Len(Statements) + 1, effects'[r], span'[r].failed)
  <2>1. response[r] = "200" /\ company[r] = {}
    BY <1>1, <1>2, <1>4
  <2> QED BY <2>1, <1>1 DEF ReportsInv
<1> QED BY <1>1, <1>3, <1>4 DEF ReportsInv

\* Every step keeps the reports true.
LEMMA NextReports ==
    ASSUME SetsUpFirst
    PROVE  ServiceInv /\ SessionInv /\ CompanyInv /\ ReportsInv /\ [Next]_vars
           => ReportsInv'
<1> SUFFICES ASSUME ServiceInv, SessionInv, CompanyInv, ReportsInv, [Next]_vars
             PROVE  ReportsInv'
  OBVIOUS
<1>1. ASSUME NEW w \in Workers, NEW r \in Requests, TraceRequest(w, r)
      PROVE  ReportsInv'
  BY <1>1, ReportsAtRequest
<1>2. ASSUME NEW w \in Workers, WorkerStep(w) PROVE ReportsInv'
  BY <1>2, ReportsAtResponse, ReportsMove
<1>3. CASE Dies
  BY <1>3, ReportsDie
<1>4. CASE DbFails \/ DbReturns \/ Start \/ UNCHANGED vars
  BY <1>4, ReportsOutside
<1>5. CASE Rests
  BY <1>4, <1>5 DEF Rests
<1> QED BY <1>1, <1>2, <1>3, <1>4, <1>5 DEF Next, Crash, Kill

\* A demo that met no other and no outage did all it reports, and its trace
\* shows the one failure it asks for (runDemoHandler), whatever other demos,
\* crashes and setups left in the table and in session_.
THEOREM LoneReport ==
    ASSUME SetsUpFirst PROVE Spec => []LoneReportIsTrue
<1>1. Spec => []ReportsInv
  BY InitReports, NextReports, ServiceInvariance, SessionInvariance,
     CompanyInvariance, PTL DEF Spec
<1>2. ReportsInv => LoneReportIsTrue
  <2>1. Len(Statements) + 1 - 1 = Len(Statements)
    BY Lengths
  <2>2. \A r \in Demos : ReportsInv /\ response[r] = "200" /\ company[r] = {} =>
           /\ effects[r] = (1 .. Len(Statements)) \ Missing
           /\ span[r].failed = (1 .. Len(Statements)) \cap Missing
    BY <2>1 DEF ReportsInv, RanUpTo
  <2> QED BY <2>2 DEF LoneReportIsTrue, Missing
<1> QED BY <1>1, <1>2, PTL

\* The statements of runDemoHandler do set up first.
LEMMA RunDemoSetsUpFirst == Statements = RunDemoHandler => SetsUpFirst
<1> SUFFICES ASSUME Statements = RunDemoHandler PROVE SetsUpFirst
  OBVIOUS
<1>1. Statements[1] = "create" /\ Statements[2] = "clear" /\ Statements[3] = "John"
      /\ Statements[4] = "Jane" /\ Statements[5] = "Bob" /\ Len(Statements) = 15
  BY DEF RunDemoHandler
<1>2. \A k \in 6 .. 15 : Statements[k] \notin Users
  BY DEF RunDemoHandler, Users
<1>3. Inserts = {3, 4, 5}
  <2>1. \A k \in 1 .. 15 : k \in {1, 2, 3, 4, 5} \/ k \in 6 .. 15
    OBVIOUS
  <2> QED BY <1>1, <1>2, <2>1 DEF Inserts, Users
<1>4. \A k \in {3, 4, 5} : /\ 2 \in 1 .. k - 1
                           /\ \A j \in 1 .. k - 1 : Statements[j] # Statements[k]
  <2>1. \A k \in {3, 4, 5} : \A j \in 1 .. k - 1 : j \in {1, 2, 3, 4} /\ j < k
    OBVIOUS
  <2>2. \A k \in {3, 4, 5} : \A j \in {1, 2, 3, 4} : j < k =>
           Statements[j] # Statements[k]
    BY <1>1
  <2> QED BY <2>1, <2>2
<1> QED BY <1>1, <1>3, <1>4 DEF SetsUpFirst

\* So the report of the fifteen statements that the program runs is true.
THEOREM LoneReportOfRunDemo ==
    ASSUME Statements = RunDemoHandler PROVE Spec => []LoneReportIsTrue
BY RunDemoSetsUpFirst, LoneReport

-----------------------------------------------------------------------------
(* The trace of a demo that met no undefined behaviour. *)

\* The statements before k are done or failed.
OnRecord(k, done, failed) == done \subseteq 1 .. k - 1 /\ failed = (1 .. k - 1) \ done

\* A demo that met no undefined behaviour.
Defined(r) == r \in Demos /\ "undefined" \notin company[r]

\* The failed events of the demo of w are those of its statements without effect.
RecordInv(w) ==
    LET v == worker[w]
        r == v.request
    IN  /\ v.pc \in {"traced", "connect", "replacing", "closing"} =>
              OnRecord(1, effects[r], span[r].failed)
        /\ v.pc \in {"statement", "executing"} =>
              OnRecord(v.at, effects[r], span[r].failed)
        /\ v.pc = "told" \/ (v.pc \in {"leave", "respond"} /\ v.status = "200") =>
              OnRecord(Len(Statements) + 1, effects[r], span[r].failed)

\* So they are while it runs, and when it is answered.
RecordsInv ==
    /\ \A w \in Workers : Defined(worker[w].request) => RecordInv(w)
    /\ \A r \in Requests : span[r].phase = "none" => effects[r] = {}
    /\ \A r \in Demos : response[r] = "200" /\ Defined(r) =>
          OnRecord(Len(Statements) + 1, effects[r], span[r].failed)

\* Nothing has run at first.
LEMMA InitRecords == Init => RecordsInv
<1> SUFFICES ASSUME Init PROVE RecordsInv
  OBVIOUS
<1>1. \A w \in Workers : ~Defined(worker[w].request)
  BY IdleServesNone DEF Init, Defined
<1>2. \A r \in Requests : effects[r] = {} /\ response[r] = "none"
  BY DEF Init
<1> QED BY <1>1, <1>2, MysqlAssumption DEF RecordsInv

\* One more statement is on record.
LEMMA OneMoreOnRecord ==
    ASSUME NEW k \in 1 .. Len(Statements), NEW done, NEW failed, OnRecord(k, done, failed),
           NEW ok \in BOOLEAN
    PROVE  OnRecord(k + 1, IF ok THEN done \cup {k} ELSE done,
                           IF ok THEN failed ELSE failed \cup {k})
<1>1. k \in Int /\ k >= 1
  BY Lengths
<1>2. 1 .. (k + 1) - 1 = (1 .. k - 1) \cup {k} /\ k \notin 1 .. k - 1
  BY <1>1
<1> QED BY <1>2 DEF OnRecord

\* Outside undefined behaviour a statement is done or fails.
LEMMA DefinedExecute ==
    ASSUME ServiceInv, NEW w \in Workers, Execute(w), Defined(worker[w].request)'
    PROVE  LET r == worker[w].request
               k == worker[w].at
               ok == dbUp /\ worker[w].on \in connected /\ Accepts(k)
           IN  /\ worker[w].on \in live /\ Defined(r) /\ k \in 1 .. Len(Statements)
               /\ r \in Requests /\ worker'[w].request = r
               /\ table' = IF ok THEN Changed(k) ELSE table
               /\ effects' = [effects EXCEPT ![r] = IF ok THEN effects[r] \cup {k}
                                                    ELSE effects[r]]
               /\ span'[r].failed = IF ok THEN span[r].failed ELSE span[r].failed \cup {k}
<1> DEFINE r == worker[w].request
           k == worker[w].at
           reached == dbUp /\ worker[w].on \in connected /\ Accepts(k)
<1>1. worker[w].pc = "executing" /\ TypeOK
  BY DEF Execute, ServiceInv
<1>2. /\ r \in Requests /\ r \in Demos /\ k \in 1 .. Len(Statements)
      /\ span[r] \in SpanRecords /\ worker'[w].request = r
  BY <1>1, Busy, ExecuteMoves DEF Serves, InDemo, Steps
<1>3. ~Undefined(w) /\ Defined(r)
  BY <1>1, <1>2 DEF Execute, Met, Defined, TypeOK
<1>4. worker[w].on \in live
  BY <1>1, <1>3 DEF Undefined
<1> HIDE DEF reached
<1>5. PICK done \in {FALSE, reached}, ok \in BOOLEAN :
         /\ ~Undefined(w) => done = reached /\ ok = reached
         /\ table' = IF done THEN Changed(k) ELSE table
         /\ effects' = [effects EXCEPT ![r] = IF done THEN @ \cup {k} ELSE @]
         /\ span' = [span EXCEPT ![r] = EndStatementEvent(@, k, ok)]
  BY DEF Execute, reached
<1>6. done = reached /\ ok = reached
  BY <1>3, <1>5
<1>7. /\ table' = IF reached THEN Changed(k) ELSE table
      /\ effects' = [effects EXCEPT ![r] = IF reached THEN effects[r] \cup {k}
                                           ELSE effects[r]]
      /\ span'[r] = EndStatementEvent(span[r], k, ok)
  BY <1>1, <1>2, <1>5, <1>6 DEF TypeOK
<1>8. span'[r].failed = IF reached THEN span[r].failed ELSE span[r].failed \cup {k}
  BY <1>2, <1>6, <1>7 DEF EndStatementEvent, EndEvent, SpanRecords, SpanType
<1> QED BY <1>2, <1>3, <1>4, <1>7, <1>8 DEF reached

\* A worker takes a step in its demo.
LEMMA RecordOfWorker ==
    ASSUME ServiceInv, NEW w \in Workers, WorkerStep(w), ~TraceResponse(w),
           Defined(worker[w].request)', RecordInv(w)
    PROVE  RecordInv(w)'
<1> DEFINE r == worker[w].request
<1>1. /\ r \in Requests /\ worker'[w].request = r /\ TypeOK
      /\ Serves(worker[w], span[r], response[r])
  BY WorkerMoves, Busy DEF Steps, ServiceInv
<1>2. CASE Execute(w)
  <2> DEFINE k == worker[w].at
             ok == dbUp /\ worker[w].on \in connected /\ Accepts(k)
  <2>1. /\ k \in 1 .. Len(Statements) /\ ok \in BOOLEAN
        /\ effects'[r] = IF ok THEN effects[r] \cup {k} ELSE effects[r]
        /\ span'[r].failed = IF ok THEN span[r].failed ELSE span[r].failed \cup {k}
    <3>1. ok \in BOOLEAN
      BY <1>1 DEF TypeOK
    <3> QED BY <3>1, <1>1, <1>2, DefinedExecute DEF TypeOK
  <2>2. worker[w].pc = "executing"
    BY <1>2 DEF Execute
  <2> HIDE DEF ok
  <2>3. OnRecord(k + 1, effects'[r], span'[r].failed)
    <3>1. OnRecord(k, effects[r], span[r].failed)
      BY <2>2 DEF RecordInv
    <3>2. OnRecord(k + 1, IF ok THEN effects[r] \cup {k} ELSE effects[r],
                          IF ok THEN span[r].failed ELSE span[r].failed \cup {k})
      BY <2>1, <3>1, OneMoreOnRecord
    <3> QED BY <2>1, <3>2
  <2>4. /\ worker'[w].pc = IF k = Len(Statements) THEN "told" ELSE "statement"
        /\ worker'[w].at = k + 1
    BY <1>2, Positions
  <2>5. CASE k = Len(Statements)
    BY <2>3, <2>4, <2>5, <1>1 DEF RecordInv
  <2>6. CASE k # Len(Statements)
    BY <2>3, <2>4, <2>6, <1>1 DEF RecordInv
  <2> QED BY <2>5, <2>6
<1>3. CASE ~Execute(w)
  <2>1. effects' = effects /\ span'[r].failed = span[r].failed /\ r \in Demos
    BY <1>1, <1>3, RecordMoves DEF Defined
  <2>2. \/ worker'[w].pc = "connect" /\ worker[w].pc = "traced"
        \/ /\ worker'[w].pc = "respond" /\ worker'[w].status = worker[w].status
           /\ worker[w].pc = "leave"
        \/ worker'[w].pc = "leave" /\ worker'[w].status = "503"
        \/ worker[w].pc = "connect" /\ worker'[w].pc = "replacing"
        \/ worker[w].pc = "replacing" /\ worker'[w].pc = "closing"
        \/ /\ worker[w].pc = "closing" /\ worker'[w].pc = "statement"
           /\ worker'[w].at = 1
        \/ /\ worker[w].pc = "statement" /\ worker'[w].pc = "executing"
           /\ worker'[w].at = worker[w].at
        \/ worker[w].pc = "told" /\ worker'[w].pc = "leave"
    <3>1. EnterHandler(w) => worker'[w].pc = "connect" /\ worker[w].pc = "traced"
      BY <2>1, Positions DEF EnterHandler
    <3>2. LeaveHandler(w) => /\ worker'[w].pc = "respond"
                             /\ worker'[w].status = worker[w].status
                             /\ worker[w].pc = "leave"
      BY Positions DEF LeaveHandler
    <3>3. OpenSession(w) => \/ worker'[w].pc = "leave" /\ worker'[w].status = "503"
                            \/ worker[w].pc = "connect" /\ worker'[w].pc = "replacing"
      BY Positions DEF OpenSession
    <3>4. WriteNew(w) => worker[w].pc = "replacing" /\ worker'[w].pc = "closing"
      BY Positions DEF WriteNew
    <3>5. CloseOld(w) => /\ worker[w].pc = "closing" /\ worker'[w].pc = "statement"
                         /\ worker'[w].at = 1
      BY Positions DEF CloseOld
    <3>6. BeginStatement(w) => /\ worker[w].pc = "statement"
                               /\ worker'[w].pc = "executing"
                               /\ worker'[w].at = worker[w].at
      BY Positions DEF BeginStatement
    <3>7. LeaveDemo(w) => worker[w].pc = "told" /\ worker'[w].pc = "leave"
      BY Positions DEF LeaveDemo
    <3> QED BY <1>3, <3>1, <3>2, <3>3, <3>4, <3>5, <3>6, <3>7 DEF WorkerStep
  <2> QED BY <1>1, <2>1, <2>2 DEF RecordInv
<1> QED BY <1>2, <1>3

\* Effects are noted of the demo that has them.
LEMMA EffectsMove ==
    ASSUME ServiceInv, NEW w \in Workers, WorkerStep(w), ~TraceResponse(w)
    PROVE  \A r \in Requests \ {worker[w].request} : effects'[r] = effects[r]
<1>1. \/ effects' = effects
      \/ \E e : effects' = [effects EXCEPT ![worker[w].request] = e]
  BY RecordMoves DEF Execute
<1> QED BY <1>1 DEF ServiceInv, TypeOK

\* What a demo met is known of it afterwards.
LEMMA DefinedBefore ==
    ASSUME ServiceInv, [Next]_vars, NEW r, Defined(r)'
    PROVE  Defined(r) /\ r \in Requests
BY CompanyGrows, MysqlAssumption DEF Defined, ServiceInv

\* A worker steps within a request.
LEMMA RecordsMove ==
    ASSUME ServiceInv, RecordsInv, [Next]_vars, NEW w \in Workers, WorkerStep(w),
           ~TraceResponse(w)
    PROVE  RecordsInv'
<1>1. Steps(w) /\ TypeOK /\ Demos \subseteq Requests
  BY WorkerMoves, MysqlAssumption DEF ServiceInv
<1>2. /\ worker[w].request \in Requests /\ span[worker[w].request].phase = "open"
      /\ response[worker[w].request] = "none"
  BY <1>1, Busy DEF Steps, Serves
<1>3. ASSUME NEW u \in Workers, Defined(worker[u].request)' PROVE RecordInv(u)'
  <2>1. worker'[u].request = worker[u].request
    BY <1>1 DEF Steps, AsBefore
  <2>2. Defined(worker[u].request) /\ RecordInv(u) /\ worker[u].request \in Requests
    BY <2>1, <1>3, DefinedBefore DEF RecordsInv, Defined
  <2>3. CASE u = w
    BY <2>2, <2>3, <1>3, RecordOfWorker
  <2>4. CASE u # w
    <3>1. AsBefore(u)
      BY <2>4, <1>1 DEF Steps
    <3>2. CASE worker[u].pc = "idle"
      BY <3>1, <3>2 DEF AsBefore, RecordInv
    <3>3. CASE worker[u].pc # "idle"
      <4>1. worker[u].request # worker[w].request
        BY <2>4, <3>3, <1>1 DEF Steps, ServiceInv, WorkersApart
      <4>2. /\ span'[worker[u].request] = span[worker[u].request]
            /\ effects'[worker[u].request] = effects[worker[u].request]
        BY <4>1, <2>2, <1>1, EffectsMove DEF Steps
      <4> QED BY <4>2, <3>1, <2>2 DEF AsBefore, RecordInv
    <3> QED BY <3>2, <3>3
  <2> QED BY <2>3, <2>4
<1>4. ASSUME NEW r \in Requests, span'[r].phase = "none" PROVE effects'[r] = {}
  BY <1>1, <1>2, <1>4, EffectsMove DEF Steps, RecordsInv
<1>5. ASSUME NEW r \in Demos, response'[r] = "200", Defined(r)'
      PROVE  OnRecord(Len(Statements) + 1, effects'[r], span'[r].failed)
  <2>1. response[r] = "200" /\ Defined(r) /\ r # worker[w].request
    BY <1>1, <1>2, <1>5, DefinedBefore DEF Steps
  <2>2. effects'[r] = effects[r] /\ span'[r] = span[r]
    BY <2>1, <1>1, EffectsMove DEF Steps
  <2> QED BY <2>1, <2>2 DEF RecordsInv
<1> QED BY <1>3, <1>4, <1>5 DEF RecordsInv

\* An answer is given.
LEMMA RecordsAtResponse ==
    ASSUME ServiceInv, RecordsInv, NEW w \in Workers, TraceResponse(w)
    PROVE  RecordsInv'
<1> DEFINE r == worker[w].request
<1>1. /\ worker[w].pc = "respond" /\ worker' = [worker EXCEPT ![w] = Idle]
      /\ span' = [span EXCEPT ![r] = EndSpan(@, FALSE)]
      /\ response' = [response EXCEPT ![r] = worker[w].status]
      /\ UNCHANGED <<effects, company>>
  BY DEF TraceResponse, historyVars
<1>2. /\ r \in Requests /\ span[r] \in SpanRecords /\ TypeOK
      /\ Demos \subseteq Requests
  BY <1>1, Busy, MysqlAssumption DEF ServiceInv
<1>3. /\ worker'[w] = Idle /\ \A u \in Workers \ {w} : worker'[u] = worker[u]
      /\ \A x \in Requests \ {r} : response'[x] = response[x]
      /\ response'[r] = worker[w].status
  BY <1>1, <1>2 DEF TypeOK
<1>4. \A x \in Requests : /\ span'[x].failed = span[x].failed
                          /\ span'[x].phase = "none" => span[x].phase = "none"
  BY <1>1, <1>2 DEF TypeOK, EndSpan, SpanRecords, SpanType
<1>5. ASSUME NEW u \in Workers, Defined(worker[u].request)' PROVE RecordInv(u)'
  <2>1. u # w
    BY <1>3, <1>5, IdleServesNone DEF Defined
  <2>2. /\ Defined(worker[u].request) /\ worker'[u] = worker[u]
        /\ worker[u].request \in Requests
    BY <2>1, <1>1, <1>2, <1>3, <1>5 DEF Defined
  <2>3. RecordInv(u) /\ span'[worker[u].request].failed = span[worker[u].request].failed
    BY <2>2, <1>4 DEF RecordsInv
  <2> QED BY <2>2, <2>3, <1>1 DEF RecordInv
<1>6. ASSUME NEW x \in Demos, response'[x] = "200", Defined(x)'
      PROVE  OnRecord(Len(Statements) + 1, effects'[x], span'[x].failed)
  <2>1. Defined(x) /\ x \in Requests
    BY <1>1, <1>2, <1>6 DEF Defined
  <2>2. OnRecord(Len(Statements) + 1, effects[x], span[x].failed)
    <3>1. CASE x = r
      BY <3>1, <2>1, <1>1, <1>3, <1>6 DEF RecordsInv, RecordInv
    <3>2. CASE x # r
      BY <3>2, <2>1, <1>3, <1>6 DEF RecordsInv
    <3> QED BY <3>1, <3>2
  <2> QED BY <2>1, <2>2, <1>1, <1>4
<1>7. \A x \in Requests : span'[x].phase = "none" => effects'[x] = {}
  BY <1>1, <1>4 DEF RecordsInv
<1> QED BY <1>5, <1>6, <1>7 DEF RecordsInv

\* A request begins: nothing of it has run.
LEMMA RecordsAtRequest ==
    ASSUME ServiceInv, RecordsInv, [Next]_vars, NEW w \in Workers,
           NEW r \in Requests, TraceRequest(w, r)
    PROVE  RecordsInv'
<1> DEFINE v == [Idle EXCEPT !.pc = "traced", !.request = r]
           s == NewSpan(SpanKind, NoContext)
<1>1. /\ worker[w].pc = "idle" /\ span[r].phase = "none"
      /\ worker' = [worker EXCEPT ![w] = v] /\ span' = [span EXCEPT ![r] = s]
      /\ UNCHANGED <<response, effects>>
  BY DEF TraceRequest
<1>2. v.pc = "traced" /\ v.request = r /\ s.failed = {} /\ s.phase = "open"
  BY DEF Idle, NewSpan
<1> HIDE DEF v, s
<1>3. /\ worker'[w] = v /\ \A u \in Workers \ {w} : worker'[u] = worker[u]
      /\ span'[r] = s /\ \A x \in Requests \ {r} : span'[x] = span[x]
      /\ TypeOK /\ Demos \subseteq Requests
  BY <1>1, MysqlAssumption DEF ServiceInv, TypeOK
<1>4. effects[r] = {} /\ response[r] = "none"
  BY <1>1 DEF RecordsInv, ServiceInv, RequestInv
<1>5. ASSUME NEW u \in Workers, Defined(worker[u].request)' PROVE RecordInv(u)'
  <2>1. CASE u = w
    <3>1. OnRecord(1, effects'[r], span'[r].failed)
      <4>1. 1 .. 1 - 1 = {}
        OBVIOUS
      <4> QED BY <4>1, <1>1, <1>2, <1>3, <1>4 DEF OnRecord
    <3> QED BY <2>1, <3>1, <1>2, <1>3 DEF RecordInv
  <2>2. CASE u # w
    <3>1. worker'[u] = worker[u] /\ Defined(worker[u].request)
          /\ worker[u].request \in Requests
      BY <2>2, <1>3, <1>5, DefinedBefore
    <3>2. RecordInv(u)
      BY <3>1 DEF RecordsInv
    <3>3. worker[u].request # r
      <4>1. worker[u].pc # "idle"
        BY <3>1, IdleServesNone DEF ServiceInv, WorkerInv, Defined
      <4> QED BY <4>1, <1>1, Busy DEF Serves
    <3> QED BY <3>1, <3>2, <3>3, <1>1, <1>3 DEF RecordInv
  <2> QED BY <2>1, <2>2
<1>6. \A x \in Requests : span'[x].phase = "none" => effects'[x] = {}
  BY <1>1, <1>2, <1>3 DEF RecordsInv
<1>7. ASSUME NEW x \in Demos, response'[x] = "200", Defined(x)'
      PROVE  OnRecord(Len(Statements) + 1, effects'[x], span'[x].failed)
  <2>1. x # r /\ response[x] = "200" /\ Defined(x) /\ x \in Requests
    BY <1>1, <1>3, <1>4, <1>7, DefinedBefore
  <2> QED BY <2>1, <1>1, <1>3 DEF RecordsInv
<1> QED BY <1>5, <1>6, <1>7 DEF RecordsInv

\* Every step keeps the traces true.
LEMMA NextRecords == ServiceInv /\ RecordsInv /\ [Next]_vars => RecordsInv'
<1> SUFFICES ASSUME ServiceInv, RecordsInv, [Next]_vars PROVE RecordsInv'
  OBVIOUS
<1>1. ASSUME NEW w \in Workers, NEW r \in Requests, TraceRequest(w, r)
      PROVE  RecordsInv'
  BY <1>1, RecordsAtRequest
<1>2. ASSUME NEW w \in Workers, WorkerStep(w) PROVE RecordsInv'
  BY <1>2, RecordsAtResponse, RecordsMove
<1>3. CASE Dies
  <2>1. /\ worker' = [w \in Workers |-> Idle]
        /\ span' = [r \in Requests |-> Lose(span[r])]
        /\ UNCHANGED <<response, effects, company>>
    BY <1>3 DEF Dies, historyVars
  <2>2. \A w \in Workers : ~Defined(worker[w].request)'
    BY <2>1, IdleServesNone DEF Defined
  <2>3. \A r \in Requests : /\ span'[r].failed = span[r].failed
                            /\ span'[r].phase = "none" => span[r].phase = "none"
    BY <2>1 DEF ServiceInv, TypeOK, Lose, SpanRecords, SpanType
  <2> QED BY <2>1, <2>2, <2>3, MysqlAssumption DEF RecordsInv, Defined
<1>4. CASE DbFails \/ DbReturns \/ Start \/ UNCHANGED vars
  <2>1. UNCHANGED <<span, worker, response, effects>>
    BY <1>4 DEF DbFails, DbReturns, Start, vars, historyVars
  <2>2. \A u \in Workers : Defined(worker[u].request)' => RecordInv(u)'
    <3>1. \A u \in Workers : RecordInv(u) => RecordInv(u)'
      BY <2>1 DEF RecordInv
    <3>2. \A u \in Workers : Defined(worker[u].request)' => Defined(worker[u].request)
      BY <2>1, DefinedBefore
    <3> QED BY <3>1, <3>2 DEF RecordsInv
  <2>3. \A r : Defined(r)' => Defined(r)
    BY DefinedBefore
  <2> QED BY <2>1, <2>2, <2>3 DEF RecordsInv
<1>5. CASE Rests
  BY <1>4, <1>5 DEF Rests
<1> QED BY <1>1, <1>2, <1>3, <1>4, <1>5 DEF Next, Crash, Kill

\* It holds in every reachable state.
THEOREM RecordsInvariance == Spec => []RecordsInv
BY InitRecords, NextRecords, ServiceInvariance, PTL DEF Spec

\* The failed events of an answered demo are those of the statements without effect
\* (executeDMLQuery, executeSelectQuery, traceSqlExecution), whatever demos overlap
\* and however often the database goes away.
THEOREM EventsTellTheTruth == Spec => []EventsAreTrue
<1>1. RecordsInv => EventsAreTrue
  <2>1. Len(Statements) + 1 - 1 = Len(Statements)
    BY Lengths
  <2> QED BY <2>1 DEF RecordsInv, EventsAreTrue, Defined, OnRecord
<1> QED BY <1>1, RecordsInvariance, PTL

-----------------------------------------------------------------------------
(* The users that demos take from each other. *)

\* While no demo meets an outage, a demo past connect() reaches the database on the
\* session that session_ holds.
ReachInv(w) ==
    LET v == worker[w]
    IN  /\ v.pc \in {"replacing", "closing", "statement", "executing"} => dbUp
        /\ v.pc = "replacing" => v.request \in connected
        /\ v.pc \in {"closing", "statement", "executing"} => session \in connected
        /\ v.pc = "executing" /\ v.on \in live => v.on \in connected

\* So it is for every worker.
ReachesInv == NoOutage => \A w \in Workers : ReachInv(w)

\* What the demo r finds in a table that it has cleared was inserted around it.
SharedInv(w) ==
    LET v == worker[w]
        r == v.request
    IN  /\ v.pc \in {"statement", "executing"} =>
              /\ v.at > 1 => table.exists
              /\ (\E k \in 1 .. v.at - 1 : Statements[k] = "clear") =>
                    \A user \in table.users : InsertedAround(user, r)
              /\ \A k \in Inserts : k < v.at => InsertedAround(Statements[k], r)
        /\ v.pc = "told" \/ (v.pc \in {"leave", "respond"} /\ v.status = "200") =>
              \A k \in Inserts : InsertedAround(Statements[k], r)

\* So it is for every demo, until it is answered.
SharesInv == NoOutage =>
    /\ \A w \in Workers : Defined(worker[w].request) => SharedInv(w)
    /\ InsertedByOneOfThem

\* An outage is not forgotten.
LEMMA OutageStays ==
    ASSUME ServiceInv, [Next]_vars, NoOutage' PROVE NoOutage
BY CompanyGrows, MysqlAssumption DEF NoOutage, ServiceInv

\* A step of a worker within a demo keeps the database in reach.
LEMMA ReachMoves ==
    ASSUME ServiceInv, SessionInv, \A w \in Workers : ReachInv(w), NEW w \in Workers,
           WorkerStep(w), ~TraceResponse(w), NEW u \in Workers
    PROVE  ReachInv(u)'
<1> DEFINE r == worker[w].request
<1>1. /\ Steps(w) /\ TypeOK /\ r \in Requests /\ ReachInv(w) /\ ReachInv(u)
      /\ worker'[w].request = r /\ Serves(worker[w], span[r], response[r])
  BY WorkerMoves, Busy DEF Steps, ServiceInv
<1>2. u # w => AsBefore(u)
  BY <1>1 DEF Steps
<1>3. dbUp' = dbUp
  BY DEF WorkerStep, EnterHandler, LeaveHandler, OpenSession, WriteNew, CloseOld,
         BeginStatement, Execute, LeaveDemo, TraceResponse, processVars
<1>4. CASE EnterHandler(w) \/ LeaveHandler(w) \/ LeaveDemo(w)
  <2>1. UNCHANGED <<session, live, connected>>
    BY <1>4 DEF EnterHandler, LeaveHandler, LeaveDemo, sessionVars
  <2>2. worker'[w].pc \in {"connect", "leave", "respond"}
    BY <1>4, Positions
  <2> QED BY <2>1, <2>2, <1>1, <1>2, <1>3 DEF ReachInv, AsBefore
<1>5. CASE OpenSession(w)
  <2>1. session' = session
    BY <1>5 DEF OpenSession
  <2>2. CASE dbUp /\ worker'[w].pc = "replacing"
    <3>1. live' = live \cup {r} /\ connected' = connected \cup {r}
      BY <1>5, <2>2, Positions DEF OpenSession, Opened
    <3> QED BY <2>1, <2>2, <3>1, <1>1, <1>2, <1>3 DEF ReachInv, AsBefore
  <2>3. CASE worker'[w].pc = "leave" /\ live' = live /\ connected' = connected
    BY <2>1, <2>3, <1>1, <1>2, <1>3 DEF ReachInv, AsBefore
  <2> QED BY <1>5, <2>2, <2>3, Positions
<1>6. CASE WriteNew(w)
  <2>1. /\ worker[w].pc = "replacing" /\ worker'[w].pc = "closing"
        /\ session' = r /\ live' = live /\ connected' = connected
    BY <1>6, Positions DEF WriteNew, Stored
  <2> QED BY <2>1, <1>1, <1>2, <1>3 DEF ReachInv, AsBefore
<1>7. CASE CloseOld(w)
  <2> DEFINE old == worker[w].old
  <2>1. /\ worker[w].pc = "closing" /\ worker'[w].pc = "statement" /\ session' = session
        /\ live' = live \ {old} /\ connected' = connected \ {old}
    BY <1>7, Positions DEF CloseOld, Closed
  <2>2. session \in connected /\ session # old
    <3>1. session \in connected
      BY <2>1, <1>1 DEF ReachInv
    <3>2. NoRequest \notin connected
      BY <1>1, IdleServesNone DEF TypeOK
    <3> QED BY <2>1, <3>1, <3>2 DEF SessionInv
  <2>3. worker[u].pc = "replacing" => worker[u].request # old
    <3>1. ASSUME worker[u].pc = "replacing", worker[u].request = old PROVE FALSE
      <4>1. old # NoRequest
        BY <3>1, Busy, IdleServesNone DEF Serves
      <4> QED BY <3>1, <4>1 DEF SessionInv, HasStored
    <3> QED BY <3>1
  <2> QED BY <2>1, <2>2, <2>3, <1>1, <1>2, <1>3 DEF ReachInv, AsBefore
<1>8. CASE BeginStatement(w)
  <2>1. /\ worker[w].pc = "statement" /\ worker'[w].pc = "executing"
        /\ worker'[w].on = session /\ UNCHANGED <<session, live, connected>>
    BY <1>8, Positions DEF BeginStatement, sessionVars
  <2> QED BY <2>1, <1>1, <1>2, <1>3 DEF ReachInv, AsBefore
<1>9. CASE Execute(w)
  <2>1. /\ worker[w].pc = "executing" /\ worker'[w].pc \in {"told", "statement"}
        /\ UNCHANGED <<session, live, connected>>
    BY <1>9, Positions DEF Execute, sessionVars
  <2> QED BY <2>1, <1>1, <1>2, <1>3 DEF ReachInv, AsBefore
<1> QED BY <1>4, <1>5, <1>6, <1>7, <1>8, <1>9 DEF WorkerStep

\* Every step keeps the database in reach, but for outages.
LEMMA NextReaches == ServiceInv /\ SessionInv /\ ReachesInv /\ [Next]_vars => ReachesInv'
<1> SUFFICES ASSUME ServiceInv, SessionInv, ReachesInv, [Next]_vars, NoOutage'
             PROVE  \A u \in Workers : ReachInv(u)'
  BY DEF ReachesInv
<1>1. NoOutage /\ \A w \in Workers : ReachInv(w)
  BY OutageStays DEF ReachesInv
<1>2. TypeOK
  BY DEF ServiceInv
<1>3. ASSUME NEW w \in Workers, NEW r \in Requests, TraceRequest(w, r), NEW u \in Workers
      PROVE  ReachInv(u)'
  <2>1. /\ worker' = [worker EXCEPT ![w] = [Idle EXCEPT !.pc = "traced", !.request = r]]
        /\ UNCHANGED <<session, live, connected, dbUp>>
    BY <1>3 DEF TraceRequest, sessionVars, processVars
  <2>2. IF u = w THEN worker'[u].pc = "traced" ELSE worker'[u] = worker[u]
    BY <2>1, <1>2 DEF TypeOK, Idle
  <2> QED BY <2>1, <2>2, <1>1 DEF ReachInv
<1>4. ASSUME NEW w \in Workers, TraceResponse(w), NEW u \in Workers PROVE ReachInv(u)'
  <2>1. /\ worker' = [worker EXCEPT ![w] = Idle]
        /\ UNCHANGED <<session, live, connected, dbUp>>
    BY <1>4 DEF TraceResponse, sessionVars, processVars
  <2>2. IF u = w THEN worker'[u].pc = "idle" ELSE worker'[u] = worker[u]
    BY <2>1, <1>2 DEF TypeOK, Idle
  <2> QED BY <2>1, <2>2, <1>1 DEF ReachInv
<1>5. ASSUME NEW w \in Workers, WorkerStep(w), ~TraceResponse(w), NEW u \in Workers
      PROVE  ReachInv(u)'
  BY <1>1, <1>5, ReachMoves
<1>6. CASE Dies
  <2>1. \A u \in Workers : worker'[u].pc = "idle"
    BY <1>6 DEF Dies, Idle
  <2> QED BY <2>1 DEF ReachInv
<1>7. CASE DbFails
  <2>1. worker' = worker /\ company' = Met(Running, "outage")
    BY <1>7 DEF DbFails
  <2>2. \A q \in Running : q \in Demos /\ q \in Requests /\ "outage" \in company'[q]
    BY <2>1, MysqlAssumption DEF Met, Running
  <2>3. Running = {}
    BY <2>2 DEF NoOutage
  <2>4. \A u \in Workers : worker[u].pc \notin InDemo
    BY <2>3, Busy DEF Running, Serves, InDemo
  <2> QED BY <2>1, <2>4 DEF ReachInv, InDemo
<1>8. CASE DbReturns \/ Start \/ UNCHANGED vars
  <2>1. UNCHANGED <<worker, session, live, connected>> /\ (dbUp => dbUp')
    BY <1>8 DEF DbReturns, Start, vars, sessionVars, processVars
  <2> QED BY <2>1, <1>1 DEF ReachInv
<1>9. CASE Rests
  BY <1>8, <1>9 DEF Rests
<1> QED BY <1>3, <1>4, <1>5, <1>6, <1>7, <1>8, <1>9 DEF Next, Crash, Kill

\* What was inserted is not forgotten.
LEMMA AroundStays ==
    ASSUME ServiceInv, [Next]_vars, NEW user, NEW r \in Demos, InsertedAround(user, r)
    PROVE  InsertedAround(user, r)'
<1>1. \A q \in Requests : effects[q] \subseteq effects'[q]
  <2>1. \/ effects' = effects
        \/ \E q, k : effects' = [effects EXCEPT ![q] = @ \cup {k}]
    <3>1. ASSUME NEW w \in Workers, Execute(w)
          PROVE  \/ effects' = effects
                 \/ \E q, k : effects' = [effects EXCEPT ![q] = @ \cup {k}]
      <4> DEFINE q == worker[w].request
      <4>1. PICK done : effects' = [effects EXCEPT ![q] = IF done THEN @ \cup {worker[w].at}
                                                          ELSE @]
        BY <3>1 DEF Execute
      <4>2. CASE done
        BY <4>1, <4>2
      <4>3. CASE ~done
        BY <4>1, <4>3 DEF ServiceInv, TypeOK
      <4> QED BY <4>2, <4>3
    <3> QED BY <3>1 DEF Next, WorkerStep, EnterHandler, LeaveHandler, TraceResponse,
               OpenSession, WriteNew, CloseOld, BeginStatement, LeaveDemo, TraceRequest,
               Crash, Kill, Dies, DbFails, DbReturns, Start, Rests, historyVars, vars
  <2> QED BY <2>1 DEF ServiceInv, TypeOK
<1>2. \A q \in Demos : q \in Requests /\ company[q] \subseteq company'[q]
  BY CompanyGrows, MysqlAssumption DEF ServiceInv
<1> QED BY <1>1, <1>2 DEF InsertedAround, InsertedBy

\* Two demos that run at once have met.
LEMMA TwoHaveMet ==
    ASSUME ServiceInv, CompanyInv, NEW w \in Workers, NEW u \in Workers \ {w},
           worker[w].request \in Demos, worker[u].request \in Demos
    PROVE  /\ "demo" \in company[worker[w].request]
           /\ "demo" \in company[worker[u].request]
BY DEF CompanyInv, Alone, AloneInv

\* A statement leaves the table where it is, and adds no user but its own.
LEMMA TableMoves ==
    ASSUME ServiceInv, NEW w \in Workers, NEW r, r = worker[w].request, Execute(w)
    PROVE  /\ table.exists => table'.exists
           /\ \A user \in table'.users : user \in table.users \/ InsertedBy(user, r)'
<1> DEFINE k == worker[w].at
<1>1. /\ r \in Requests /\ TypeOK /\ worker'[w].request = r
  BY Busy, ExecuteMoves DEF Execute, ServiceInv, Steps
<1>2. PICK done :
         /\ table' = IF done THEN Changed(k) ELSE table
         /\ effects' = [effects EXCEPT ![r] = IF done THEN @ \cup {k} ELSE @]
  BY DEF Execute
<1>3. CASE done
  <2>1. table' = Changed(k) /\ k \in effects'[r]
    BY <1>1, <1>2, <1>3 DEF TypeOK
  <2>2. \A user \in Changed(k).users : user \in table.users \/ user = Statements[k]
    BY <1>1 DEF Changed, Cleared, TypeOK
  <2>3. table.exists => Changed(k).exists
    BY <1>1 DEF Changed, TypeOK
  <2> QED BY <2>1, <2>2, <2>3, <1>1 DEF InsertedBy
<1>4. CASE ~done
  BY <1>2, <1>4
<1> QED BY <1>3, <1>4

\* A statement of a demo that shares the table.
LEMMA SharedExecute ==
    ASSUME SetsUpFirst, ServiceInv, [Next]_vars, NEW w \in Workers, Execute(w),
           Defined(worker[w].request)', ReachInv(w), SharedInv(w)
    PROVE  SharedInv(w)'
<1> DEFINE ok == dbUp /\ worker[w].on \in connected /\ Accepts(worker[w].at)
<1>0. PICK r, k : r = worker[w].request /\ k = worker[w].at
  OBVIOUS
<1>1. /\ worker[w].on \in live /\ Defined(r) /\ k \in 1 .. Len(Statements)
      /\ r \in Requests /\ worker'[w].request = r
      /\ table' = IF ok THEN Changed(k) ELSE table
      /\ effects' = [effects EXCEPT ![r] = IF ok THEN effects[r] \cup {k} ELSE effects[r]]
  BY <1>0, DefinedExecute
<1>2. worker[w].pc = "executing" /\ TypeOK /\ r \in Demos /\ k \in Int /\ k >= 1
  BY <1>1 DEF Execute, ServiceInv, Defined
<1>3. ok <=> Accepts(k)
  BY <1>0, <1>1, <1>2 DEF ReachInv
<1> HIDE DEF ok
<1>4. /\ worker'[w].pc \in {"statement", "told"} /\ worker'[w].at = k + 1
      /\ worker'[w].pc = "told" => k = Len(Statements)
  BY <1>0, Positions
<1>5. /\ k > 1 => table.exists
      /\ (\E j \in 1 .. k - 1 : Statements[j] = "clear") =>
            \A user \in table.users : InsertedAround(user, r)
      /\ \A j \in Inserts : j < k => InsertedAround(Statements[j], r)
  BY <1>0, <1>2 DEF SharedInv
<1>6. k = 1 => Statements[k] = "create"
  BY DEF SetsUpFirst
<1>11. \A user : InsertedAround(user, r) => InsertedAround(user, r)'
  BY <1>2, AroundStays
<1>12. \A user \in table'.users : user \in table.users \/ InsertedAround(user, r)'
  BY <1>0, TableMoves DEF InsertedAround
<1>7. table'.exists
  <2>1. CASE k = 1
    BY <2>1, <1>1, <1>2, <1>3, <1>6 DEF Accepts, Changed, Users, TypeOK
  <2>2. CASE k # 1
    BY <2>2, <1>2, <1>5, TableMoves
  <2> QED BY <2>1, <2>2
<1>8. ASSUME NEW j \in 1 .. (k + 1) - 1, Statements[j] = "clear", NEW user \in table'.users
      PROVE  InsertedAround(user, r)'
  <2>1. CASE Statements[k] = "clear"
    <3>1. k # 1 /\ Accepts(k)
      BY <2>1, <1>2, <1>5, <1>6 DEF Accepts, Users
    <3>2. table' = [table EXCEPT !.users = {}]
      BY <2>1, <3>1, <1>1, <1>3 DEF Changed, Cleared, Users
    <3> QED BY <3>2, <1>2, <1>8 DEF TypeOK
  <2>2. CASE Statements[k] # "clear"
    <3>1. j \in 1 .. k - 1
      BY <2>2, <1>2, <1>8
    <3>2. \A x \in table.users : InsertedAround(x, r)
      BY <3>1, <1>5, <1>8
    <3> QED BY <3>2, <1>11, <1>12
  <2> QED BY <2>1, <2>2
<1>9. ASSUME NEW j \in Inserts, j < k + 1 PROVE InsertedAround(Statements[j], r)'
  <2>1. CASE j < k
    BY <2>1, <1>5, <1>11
  <2>2. CASE j = k /\ Accepts(k)
    <3>1. k \in effects'[r]
      BY <2>2, <1>1, <1>2, <1>3 DEF TypeOK
    <3>2. InsertedBy(Statements[j], r)'
      BY <2>2, <3>1 DEF InsertedBy
    <3> QED BY <3>2 DEF InsertedAround
  <2>3. CASE j = k /\ ~Accepts(k)
    <3>1. Statements[k] \in Users /\ k # 1
      BY <2>3, <1>6 DEF Inserts, Users
    <3>2. Statements[k] \in table.users
      BY <2>3, <3>1, <1>2, <1>5 DEF Accepts, Users
    <3>3. \E i \in 1 .. k - 1 : Statements[i] = "clear"
      BY <2>3 DEF SetsUpFirst
    <3> QED BY <2>3, <3>2, <3>3, <1>5, <1>11
  <2>4. j \in Int
    BY DEF Inserts
  <2> QED BY <2>1, <2>2, <2>3, <2>4, <1>2, <1>9
<1>10. worker'[w].pc = "told" => \A j \in Inserts : InsertedAround(Statements[j], r)'
  <2>1. \A j \in Inserts : j < Len(Statements) + 1
    BY Lengths DEF Inserts
  <2> QED BY <2>1, <1>4, <1>9
<1> QED BY <1>1, <1>4, <1>7, <1>8, <1>9, <1>10 DEF SharedInv

\* A worker takes a step in its demo.
LEMMA SharedOfWorker ==
    ASSUME SetsUpFirst, ServiceInv, [Next]_vars, NEW w \in Workers, WorkerStep(w),
           ~TraceResponse(w), Defined(worker[w].request)', ReachInv(w), SharedInv(w)
    PROVE  SharedInv(w)'
<1> DEFINE r == worker[w].request
<1>1. /\ r \in Requests /\ worker'[w].request = r
      /\ Serves(worker[w], span[r], response[r])
  BY WorkerMoves, Busy DEF Steps, ServiceInv
<1>2. r \in Demos /\ \A user : InsertedAround(user, r) => InsertedAround(user, r)'
  BY <1>1, AroundStays DEF Defined
<1>3. CASE Execute(w)
  BY <1>3, SharedExecute
<1>4. CASE ~Execute(w)
  <2>1. table' = table
    BY <1>4, RecordMoves
  <2>2. CASE EnterHandler(w) \/ OpenSession(w) \/ WriteNew(w)
    <3>1. \/ worker'[w].pc \in {"connect", "replacing", "closing"}
          \/ worker'[w].pc = "leave" /\ worker'[w].status = "503"
      BY <2>2, <1>2, Positions
    <3> QED BY <3>1 DEF SharedInv
  <2>3. CASE LeaveHandler(w) \/ LeaveDemo(w)
    <3>1. \/ /\ worker'[w].pc = "respond" /\ worker'[w].status = worker[w].status
             /\ worker[w].pc = "leave"
          \/ worker[w].pc = "told" /\ worker'[w].pc = "leave"
      BY <2>3, Positions DEF LeaveHandler, LeaveDemo
    <3> QED BY <3>1, <1>1, <1>2 DEF SharedInv
  <2>4. CASE CloseOld(w)
    <3>1. worker'[w].pc = "statement" /\ worker'[w].at = 1
      BY <2>4, Positions
    <3>2. 1 .. 1 - 1 = {} /\ ~(1 > 1) /\ \A k \in Inserts : ~(k < 1)
      BY DEF Inserts
    <3> QED BY <3>1, <3>2 DEF SharedInv
  <2>5. CASE BeginStatement(w)
    <3>1. /\ worker[w].pc = "statement" /\ worker'[w].pc = "executing"
          /\ worker'[w].at = worker[w].at
      BY <2>5, Positions DEF BeginStatement
    <3> QED BY <3>1, <2>1, <1>1, <1>2 DEF SharedInv
  <2> QED BY <1>4, <2>2, <2>3, <2>4, <2>5 DEF WorkerStep
<1> QED BY <1>3, <1>4

\* Another worker takes a step: what it inserts in a demo, it inserts around others.
LEMMA SharedOfOther ==
    ASSUME ServiceInv, CompanyInv, [Next]_vars, NEW w \in Workers, WorkerStep(w),
           ~TraceResponse(w), NEW u \in Workers \ {w}, Defined(worker[u].request),
           SharedInv(u)
    PROVE  SharedInv(u)'
<1>0. PICK r, q : r = worker[u].request /\ q = worker[w].request
  OBVIOUS
<1>1. /\ Steps(w) /\ AsBefore(u) /\ r \in Demos /\ r \in Requests
      /\ Demos \subseteq Requests /\ TypeOK
  BY <1>0, WorkerMoves, MysqlAssumption DEF Steps, Defined, ServiceInv
<1>2. \A user : InsertedAround(user, r) => InsertedAround(user, r)'
  BY <1>1, AroundStays
<1>3. /\ table.exists => table'.exists
      /\ \A user \in table'.users : user \in table.users \/ InsertedAround(user, r)'
  <2>1. CASE ~Execute(w)
    <3>1. table' = table
      BY <2>1, RecordMoves
    <3> QED BY <3>1
  <2>2. CASE Execute(w)
    <3>1. worker[w].pc = "executing"
      BY <2>2 DEF Execute
    <3>2. q \in Demos /\ q \in Requests
      BY <3>1, <1>0, <1>1, Busy DEF Serves, InDemo
    <3>3. q # r
      <4>1. worker[u].pc # "idle"
        BY <1>0, <1>1, IdleServesNone DEF ServiceInv, WorkerInv
      <4> QED BY <1>0, <3>1, <4>1 DEF ServiceInv, WorkersApart
    <3>4. "demo" \in company'[q] /\ "demo" \in company'[r]
      BY <1>0, <3>2, <1>1, TwoHaveMet, CompanyGrows
    <3>5. \A user : InsertedBy(user, q)' => InsertedAround(user, r)'
      BY <3>2, <3>3, <3>4 DEF InsertedAround
    <3> QED BY <2>2, <1>0, <3>5, TableMoves
  <2> QED BY <2>1, <2>2
<1>4. /\ worker'[u].pc = worker[u].pc /\ worker'[u].request = r
      /\ worker'[u].at = worker[u].at /\ worker'[u].status = worker[u].status
  BY <1>0, <1>1 DEF AsBefore
<1> QED BY <1>0, <1>1, <1>2, <1>3, <1>4 DEF SharedInv

\* Every step leaves users only to demos that run at once.
LEMMA NextShares ==
    ASSUME SetsUpFirst
    PROVE  ServiceInv /\ CompanyInv /\ ReachesInv /\ SharesInv /\ [Next]_vars => SharesInv'
<1> SUFFICES ASSUME ServiceInv, CompanyInv, ReachesInv, SharesInv, [Next]_vars, NoOutage'
             PROVE  /\ \A u \in Workers : Defined(worker[u].request)' => SharedInv(u)'
                    /\ \A x \in Demos : response'[x] = "200" /\ Defined(x)' =>
                          \A k \in Inserts : InsertedAround(Statements[k], x)'
  BY DEF SharesInv, InsertedByOneOfThem, Defined
<1>1. /\ \A u \in Workers : ReachInv(u) /\ (Defined(worker[u].request) => SharedInv(u))
      /\ \A x \in Demos : response[x] = "200" /\ Defined(x) =>
            \A k \in Inserts : InsertedAround(Statements[k], x)
  BY OutageStays DEF ReachesInv, SharesInv, InsertedByOneOfThem, Defined
<1>2. \A x : Defined(x)' => Defined(x) /\ x \in Demos /\ x \in Requests
  BY DefinedBefore DEF Defined
<1>3. \A x \in Demos : \A user : InsertedAround(user, x) => InsertedAround(user, x)'
  BY AroundStays
<1>4. TypeOK
  BY DEF ServiceInv
<1>5. ASSUME NEW x \in Demos, Defined(x)', response[x] = "200"
      PROVE  \A k \in Inserts : InsertedAround(Statements[k], x)'
  BY <1>1, <1>2, <1>3, <1>5
<1>6. ASSUME NEW w \in Workers, NEW r \in Requests, TraceRequest(w, r)
      PROVE  /\ \A u \in Workers : Defined(worker[u].request)' => SharedInv(u)'
             /\ response' = response
  <2>1. /\ worker' = [worker EXCEPT ![w] = [Idle EXCEPT !.pc = "traced", !.request = r]]
        /\ UNCHANGED <<response, table>>
    BY <1>6 DEF TraceRequest
  <2>2. \A u \in Workers : IF u = w THEN worker'[u].pc = "traced"
                           ELSE worker'[u] = worker[u]
    BY <2>1, <1>4 DEF TypeOK, Idle
  <2>3. ASSUME NEW u \in Workers, Defined(worker[u].request)' PROVE SharedInv(u)'
    <3>1. CASE u = w
      BY <3>1, <2>2 DEF SharedInv
    <3>2. CASE u # w
      BY <3>2, <2>1, <2>2, <2>3, <1>1, <1>2, <1>3 DEF SharedInv
    <3> QED BY <3>1, <3>2
  <2> QED BY <2>1, <2>3
<1>7. ASSUME NEW w \in Workers, TraceResponse(w)
      PROVE  /\ \A u \in Workers : Defined(worker[u].request)' => SharedInv(u)'
             /\ \A x \in Demos : response'[x] = "200" /\ Defined(x)' =>
                   \A k \in Inserts : InsertedAround(Statements[k], x)'
  <2> DEFINE r == worker[w].request
  <2>1. /\ worker[w].pc = "respond" /\ worker' = [worker EXCEPT ![w] = Idle]
        /\ response' = [response EXCEPT ![r] = worker[w].status] /\ table' = table
    BY <1>7 DEF TraceResponse
  <2>2. \A u \in Workers : IF u = w THEN worker'[u].pc = "idle"
                           ELSE worker'[u] = worker[u]
    BY <2>1, <1>4 DEF TypeOK, Idle
  <2>3. ASSUME NEW u \in Workers, Defined(worker[u].request)' PROVE SharedInv(u)'
    <3>1. CASE u = w
      BY <3>1, <2>2 DEF SharedInv
    <3>2. CASE u # w
      BY <3>2, <2>1, <2>2, <2>3, <1>1, <1>2, <1>3 DEF SharedInv
    <3> QED BY <3>1, <3>2
  <2>4. ASSUME NEW x \in Demos, response'[x] = "200", Defined(x)'
        PROVE  \A k \in Inserts : InsertedAround(Statements[k], x)'
    <3>1. CASE x # r
      BY <3>1, <2>1, <2>4, <1>2, <1>4, <1>5 DEF TypeOK
    <3>2. CASE x = r
      <4>1. worker[w].status = "200" /\ Defined(r)
        BY <3>2, <2>1, <2>4, <1>2, <1>4 DEF TypeOK
      <4>2. \A k \in Inserts : InsertedAround(Statements[k], r)
        BY <4>1, <2>1, <1>1 DEF SharedInv
      <4> QED BY <3>2, <4>2, <1>3
    <3> QED BY <3>1, <3>2
  <2> QED BY <2>3, <2>4
<1>8. ASSUME NEW w \in Workers, WorkerStep(w), ~TraceResponse(w)
      PROVE  /\ \A u \in Workers : Defined(worker[u].request)' => SharedInv(u)'
             /\ response' = response
  <2>1. /\ response' = response
        /\ \A u \in Workers : worker'[u].request = worker[u].request
    BY <1>8, WorkerMoves DEF Steps, AsBefore
  <2>2. ASSUME NEW u \in Workers, Defined(worker[u].request)' PROVE SharedInv(u)'
    <3>1. Defined(worker[u].request) /\ SharedInv(u) /\ ReachInv(u)
      BY <2>1, <2>2, <1>1, <1>2
    <3>2. CASE u = w
      BY <3>1, <3>2, <2>2, <1>8, SharedOfWorker
    <3>3. CASE u # w
      BY <3>1, <3>3, <1>8, SharedOfOther
    <3> QED BY <3>2, <3>3
  <2> QED BY <2>1, <2>2
<1>9. CASE Dies
  <2>1. response' = response /\ \A u \in Workers : worker'[u].pc = "idle"
    BY <1>9 DEF Dies, Idle
  <2> QED BY <2>1, <1>5 DEF SharedInv
<1>10. CASE DbFails \/ DbReturns \/ Start \/ UNCHANGED vars
  <2>1. UNCHANGED <<worker, response, table>>
    BY <1>10 DEF DbFails, DbReturns, Start, vars
  <2>2. ASSUME NEW u \in Workers, Defined(worker[u].request)' PROVE SharedInv(u)'
    BY <2>1, <2>2, <1>1, <1>2, <1>3 DEF SharedInv
  <2> QED BY <2>1, <2>2, <1>5
<1>11. CASE Rests
  BY <1>10, <1>11 DEF Rests
<1> QED BY <1>5, <1>6, <1>7, <1>8, <1>9, <1>10, <1>11 DEF Next, Crash, Kill

\* Demos that overlap take users from each other and from none else, whatever earlier
\* demos and crashes left in the table (runDemoHandler).
THEOREM UsersAreShared ==
    ASSUME SetsUpFirst PROVE Spec => []InsertedByOneOfThem
<1>1. Init => ReachesInv /\ SharesInv
  <2>1. Init => /\ \A w \in Workers : worker[w] = Idle
                /\ \A r \in Requests : response[r] = "none"
    BY DEF Init
  <2> QED BY <2>1, MysqlAssumption
          DEF ReachesInv, ReachInv, SharesInv, SharedInv, InsertedByOneOfThem, Idle
<1>2. Spec => [](ReachesInv /\ SharesInv)
  BY <1>1, NextReaches, NextShares, ServiceInvariance, SessionInvariance,
     CompanyInvariance, PTL DEF Spec
<1>3. ReachesInv => (SharesInv => InsertedByOneOfThem)
  BY DEF SharesInv, InsertedByOneOfThem
<1> QED BY <1>2, <1>3, PTL

\* The same for the fifteen statements that the program runs.
THEOREM UsersAreSharedInRunDemo ==
    ASSUME Statements = RunDemoHandler PROVE Spec => []InsertedByOneOfThem
BY RunDemoSetsUpFirst, UsersAreShared

-----------------------------------------------------------------------------
(* MysqlDemo implements SpanProtocol. *)

\* Nothing is born at first.
LEMMA MapInit == Init => U!P!Init
<1>1. Init => \A r \in Requests : U!Blank(span[r])
  BY DEF Init, U!Blank, Unborn
<1> QED BY <1>1, U!BlankRecords

\* A scoped event opens.
LEMMA MapOpens ==
    ASSUME ServiceInv, NEW r \in Requests, NEW e \in Events, span[r].phase = "open",
           span' = [span EXCEPT ![r] = NewSpanEvent(@, e)]
    PROVE  U!P!Next
<1> DEFINE v == NewSpanEvent(span[r], e)
<1>1. span = [x \in Requests |-> span[x]] /\ span[r] \in SpanRecords
  BY DEF ServiceInv, TypeOK
<1>2. U!Becomes(r, v)
  BY <1>1 DEF U!Becomes
<1>3. v.stack = Append(span[r].stack, e) /\ U!Keeps(r, v, {"phase", "error", "failed"})
  BY <1>1 DEF NewSpanEvent, SpanRecords, SpanType, U!Keeps
<1> HIDE DEF v
<1> QED BY <1>2, <1>3, U!MapStartEvent

\* A scoped event ends; it is the innermost one.
LEMMA MapEnds ==
    ASSUME ServiceInv, NEW r \in Requests, NEW e, NEW bad \in BOOLEAN,
           span[r].phase = "open", span[r].stack # <<>>,
           span[r].stack[Len(span[r].stack)] = e,
           span' = [span EXCEPT ![r] = EndEvent(@, e, bad)]
    PROVE  U!P!Next
<1> DEFINE v == EndEvent(span[r], e, bad)
<1>1. span = [x \in Requests |-> span[x]] /\ span[r] \in SpanRecords
  BY DEF ServiceInv, TypeOK
<1>2. U!Becomes(r, v)
  BY <1>1 DEF U!Becomes
<1>3. /\ v.stack = SubSeq(span[r].stack, 1, Len(span[r].stack) - 1)
      /\ v.failed = IF bad THEN span[r].failed \cup {e} ELSE span[r].failed
      /\ U!Keeps(r, v, {"phase", "error"})
  BY <1>1 DEF EndEvent, SpanRecords, SpanType, U!Keeps
<1> HIDE DEF v
<1> QED BY <1>2, <1>3, U!MapEndEvent

\* Every step is a step of the protocol, or changes no span.
LEMMA MapNext == ServiceInv /\ [Next]_vars => [U!P!Next]_(U!P!vars)
<1> SUFFICES ASSUME ServiceInv, [Next]_vars PROVE [U!P!Next]_(U!P!vars)
  OBVIOUS
<1>f. span = [x \in Requests |-> span[x]]
      /\ \A x \in Requests : span[x] \in SpanRecords
  BY DEF ServiceInv, TypeOK
<1>1. ASSUME NEW w \in Workers, NEW r \in Requests, TraceRequest(w, r)
      PROVE  U!P!Next
  <2> DEFINE v == NewSpan(SpanKind, NoContext)
  <2>1. span[r] = Unborn
    BY <1>1 DEF ServiceInv, RequestInv, TraceRequest
  <2>2. U!Becomes(r, v)
    BY <1>1, <1>f DEF U!Becomes, TraceRequest
  <2>3. v.phase = "open" /\ span[r].phase = "none"
        /\ U!Keeps(r, v, {"stack", "error", "failed"})
    BY <2>1 DEF NewSpan, Unborn, U!Keeps
  <2> HIDE DEF v
  <2> QED BY <2>2, <2>3, U!MapStart
<1>2. ASSUME NEW w \in Workers, WorkerStep(w) PROVE [U!P!Next]_(U!P!vars)
  <2> DEFINE r == worker[w].request
             st == span[r].stack
  <2>1. worker[w].pc # "idle"
    BY <1>2, WorkerMoves DEF Steps, TraceResponse
  <2>2. /\ r \in Requests /\ span[r].phase = "open" /\ st = OpenEvents(worker[w])
        /\ Serves(worker[w], span[r], response[r]) /\ span[r] \in SpanRecords
    BY <2>1, Busy DEF Serves
  <2>3. CASE EnterHandler(w)
    BY <2>2, <2>3, Lengths, MapOpens DEF EnterHandler
  <2>4. CASE CloseOld(w)
    BY <2>2, <2>4, Lengths, MapOpens DEF CloseOld
  <2>5. CASE BeginStatement(w)
    <3>1. worker[w].at \in Events
      BY <2>2, <2>5, Lengths DEF BeginStatement, Serves
    <3> QED BY <2>2, <2>5, <3>1, MapOpens DEF BeginStatement
  <2>6. CASE LeaveHandler(w)
    <3>1. st = <<HandlerEvent>>
      BY <2>2, <2>6 DEF LeaveHandler, OpenEvents
    <3> HIDE DEF st
    <3>2. st # <<>> /\ st[Len(st)] = HandlerEvent
      BY <3>1, ShortStacks
    <3> QED BY <2>2, <2>6, <3>2, MapEnds DEF LeaveHandler, st
  <2>7. CASE LeaveDemo(w)
    <3>1. st = <<HandlerEvent, DemoEvent>>
      BY <2>2, <2>7 DEF LeaveDemo, OpenEvents
    <3> HIDE DEF st
    <3>2. st # <<>> /\ st[Len(st)] = DemoEvent
      BY <3>1, ShortStacks
    <3> QED BY <2>2, <2>7, <3>2, MapEnds DEF LeaveDemo, st
  <2>8. CASE Execute(w)
    <3> DEFINE k == worker[w].at
    <3>1. st = <<HandlerEvent, DemoEvent, k>>
      BY <2>2, <2>8 DEF Execute, OpenEvents
    <3> HIDE DEF st, k
    <3>2. st # <<>> /\ st[Len(st)] = k
      BY <3>1, PopThird
    <3>3. PICK ok \in BOOLEAN : span' = [span EXCEPT ![r] = EndEvent(@, k, ~ok)]
      BY <2>8 DEF Execute, EndStatementEvent, k
    <3> DEFINE bad == ~ok
    <3>4. bad \in BOOLEAN /\ span' = [span EXCEPT ![r] = EndEvent(@, k, bad)]
      BY <3>3
    <3> HIDE DEF bad
    <3> QED BY <2>2, <3>2, <3>4, MapEnds DEF st
  <2>9. CASE TraceResponse(w)
    <3> DEFINE v == EndSpan(span[r], FALSE)
    <3>1. U!Becomes(r, v) /\ st = <<>>
      BY <2>2, <2>9, <1>f DEF U!Becomes, TraceResponse, OpenEvents
    <3>2. v.phase = "ended" /\ v.error = (span[r].error \/ FALSE)
          /\ U!Keeps(r, v, {"stack", "failed"})
      BY <2>2 DEF EndSpan, SpanRecords, SpanType, U!Keeps
    <3> HIDE DEF v
    <3> QED BY <2>2, <3>1, <3>2, U!MapEnd
  <2>10. CASE OpenSession(w) \/ WriteNew(w)
    <3>1. UNCHANGED span
      BY <2>10 DEF OpenSession, WriteNew
    <3> QED BY <3>1, U!SameRecords
  <2> QED BY <1>2, <2>3, <2>4, <2>5, <2>6, <2>7, <2>8, <2>9, <2>10 DEF WorkerStep
<1>3. CASE Dies
  <2> DEFINE L == {r \in Requests : span[r].phase = "open"}
  <2>1. ASSUME NEW r \in Requests
        PROVE  /\ span'[r].phase = IF r \in L THEN "lost" ELSE span[r].phase
               /\ span'[r].stack = span[r].stack
               /\ span'[r].error = span[r].error
               /\ span'[r].failed = span[r].failed
    <3>1. span'[r] = Lose(span[r]) /\ span[r] \in SpanRecords
      BY <1>3, <1>f DEF Dies
    <3> QED BY <3>1 DEF Lose, SpanRecords, SpanType
  <2>2. L \in SUBSET Requests /\ \A r \in L : span[r].phase = "open"
    OBVIOUS
  <2> HIDE DEF L
  <2> QED BY <2>1, <2>2, U!MapLose
<1>4. CASE DbFails \/ DbReturns \/ Start \/ Rests \/ UNCHANGED vars
  <2>1. UNCHANGED span
    BY <1>4 DEF DbFails, DbReturns, Start, Rests, vars
  <2> QED BY <2>1, U!SameRecords
<1> QED BY <1>1, <1>2, <1>3, <1>4 DEF Next, Crash, Kill

\* handle_db_demo, handle_db_status and DatabaseDemo use the agent as SpanProtocol
\* demands, whatever fails or is undefined: MysqlDemo implements SpanProtocol.
THEOREM ImplementsSpanProtocol == Spec => FollowsSpanProtocol
BY ServiceInvariance, MapInit, MapNext, PTL
   DEF Spec, FollowsSpanProtocol, U!FollowsProtocol, U!P!Spec

\* So no statement, session or failure of the database reaches a span that
\* wrap_handler has ended or the process took with it, and every span that
\* is delivered is balanced.
THEOREM RecordsAreFinal == Spec => []U!BalancedRecords /\ U!FinalRecords
BY ImplementsSpanProtocol, U!FollowingBalances, U!FollowingFreezes
   DEF FollowsSpanProtocol
=============================================================================
