------------------------------ MODULE MysqlDemo ------------------------------
(***************************************************************************)
(* mysql_example: HTTP workers that run handle_db_demo and                 *)
(* handle_db_status, the one DatabaseDemo they share, and the table        *)
(* demo_users.                                                             *)
(*                                                                         *)
(* Every demo connects anew: connect() builds a session and stores it in   *)
(* the shared session_, which closes the session that was there, and no    *)
(* lock guards it.  A statement that runs on a session another worker is   *)
(* closing or using, and a session closed twice, are undefined behaviour:  *)
(* they may do anything, the end of the process included.  The database    *)
(* comes and goes, and the process may be stopped and started again.       *)
(***************************************************************************)
EXTENDS AgentApi, FiniteSets

CONSTANTS Requests,       \* HTTP requests
          Demos,          \* those for /db-demo; the others are for /status
          Workers,        \* worker threads of the HTTP server
          Statements,     \* what a demo runs: RunDemoHandler, or less of it
          SpanKind,       \* the agent's sampling decision
          MaxFaults,      \* bound on outages of the database and stops
          NoRequest

\* The statements of runDemoHandler, in order, by what they do.
RunDemoHandler == <<"create", "clear", "John", "Jane", "Bob", "select", "select",
                    "select", "update", "select", "select", "select", "missing",
                    "prune", "select">>

Users == {"John", "Jane", "Bob"}

ASSUME MysqlAssumption ==
    /\ Statements \in Seq(Users \cup {"create", "clear", "select", "update",
                                      "missing", "prune"})
    /\ Statements # <<>>
    /\ Demos \subseteq Requests
    /\ SpanKind \in Kinds
    /\ MaxFaults \in Nat
    /\ NoRequest \notin Requests

VARIABLES span,        \* span[r]: the span of request r
          worker,      \* worker[w]: what an HTTP worker thread is doing
          response,    \* response[r]: the HTTP status, "none" before it is set
          session,     \* session_: the demo that opened it, or NoRequest
          live,        \* session objects not yet destroyed
          connected,   \* those the database still answers
          table,       \* demo_users: whether it exists, and who is in it
          effects,     \* effects[r]: statements of r that changed the database
          company,     \* company[r]: what r met: another demo, an outage, undefined
                       \* behaviour
          dbUp, up,    \* the database and the process are there
          faults       \* outages and stops so far

sessionVars == <<session, live, connected>>
historyVars == <<effects, company>>
processVars == <<dbUp, up, faults>>
vars == <<span, worker, response, sessionVars, table, historyVars, processVars>>

Inserts == {k \in 1 .. Len(Statements) : Statements[k] \in Users}

\* Events: of the handler, of runDemoHandler, and of each statement.
HandlerEvent == 0
DemoEvent == Len(Statements) + 1
Events == 0 .. DemoEvent

Idle == [pc |-> "idle", request |-> NoRequest, status |-> "none", at |-> 0,
         old |-> NoRequest, on |-> NoRequest, raced |-> FALSE]

\* The database may have been set up without init.sql.
Init == /\ span = [r \in Requests |-> Unborn]
        /\ worker = [w \in Workers |-> Idle]
        /\ response = [r \in Requests |-> "none"]
        /\ session = NoRequest
        /\ live = {}
        /\ connected = {}
        /\ table \in [exists : BOOLEAN, users : {{}}]
        /\ effects = [r \in Requests |-> {}]
        /\ company = [r \in Requests |-> {}]
        /\ dbUp = TRUE /\ up = TRUE
        /\ faults = 0

-----------------------------------------------------------------------------
(* wrap_handler and the two handlers. *)

Running == {worker[w].request : w \in Workers} \cap Demos

\* From now on the demos of S have met what.
Met(S, what) == [r \in Requests |-> IF r \in S THEN company[r] \cup {what}
                                   ELSE company[r]]

\* trace_request and set_span_context.
TraceRequest(w, r) ==
    /\ up
    /\ worker[w].pc = "idle"
    /\ span[r].phase = "none"
    /\ span' = [span EXCEPT ![r] = NewSpan(SpanKind, NoContext)]
    /\ worker' = [worker EXCEPT ![w] = [Idle EXCEPT !.pc = "traced", !.request = r]]
    /\ company' = IF r \notin Demos \/ Running = {} THEN company
                  ELSE Met(Running \cup {r}, "demo")
    /\ UNCHANGED <<response, sessionVars, table, effects, processVars>>

\* The scoped event of handle_db_demo, or of handle_db_status, which does
\* nothing but answer.
EnterHandler(w) ==
    /\ worker[w].pc = "traced"
    /\ span' = [span EXCEPT ![worker[w].request] = NewSpanEvent(@, HandlerEvent)]
    /\ worker' = [worker EXCEPT
         ![w] = IF @.request \in Demos THEN [@ EXCEPT !.pc = "connect"]
                ELSE [@ EXCEPT !.pc = "leave", !.status = "200"]]
    /\ UNCHANGED <<response, sessionVars, table, historyVars, processVars>>

\* handle_db_demo or handle_db_status returns: the event's destructor.
LeaveHandler(w) ==
    /\ worker[w].pc = "leave"
    /\ span' = [span EXCEPT ![worker[w].request] = EndEvent(@, HandlerEvent, FALSE)]
    /\ worker' = [worker EXCEPT ![w].pc = "respond"]
    /\ UNCHANGED <<response, sessionVars, table, historyVars, processVars>>

\* trace_response, and set_span_context(nullptr).
TraceResponse(w) ==
    LET r == worker[w].request
    IN  /\ worker[w].pc = "respond"
        /\ span' = [span EXCEPT ![r] = EndSpan(@, FALSE)]
        /\ response' = [response EXCEPT ![r] = worker[w].status]
        /\ worker' = [worker EXCEPT ![w] = Idle]
        /\ UNCHANGED <<sessionVars, table, historyVars, processVars>>

-----------------------------------------------------------------------------
(* connect(): make_unique, then the move assignment to session_, which reads *)
(* the old pointer, writes the new one and closes the old session.           *)

Opened_Unowned(w) == live                                           \* mutant
Opened(w) == live \cup {worker[w].request}

\* The new session, and a look at the old one; without a database the session
\* throws, and the answer is 503.
OpenSession(w) ==
    /\ worker[w].pc = "connect"
    /\ \/ /\ dbUp
          /\ live' = Opened(w)
          /\ connected' = connected \cup {worker[w].request}
          /\ worker' = [worker EXCEPT ![w].pc = "replacing", ![w].old = session]
       \/ /\ ~dbUp
          /\ worker' = [worker EXCEPT ![w].pc = "leave", ![w].status = "503"]
          /\ UNCHANGED <<live, connected>>
    /\ UNCHANGED <<span, response, session, table, historyVars, processVars>>

Stored_NotAtAll(w) == session                                       \* mutant
Stored(w) == worker[w].request

WriteNew(w) == /\ worker[w].pc = "replacing"
               /\ session' = Stored(w)
               /\ worker' = [worker EXCEPT ![w].pc = "closing"]
               /\ UNCHANGED <<span, response, live, connected, table, historyVars,
                              processVars>>

Closed_Kept(w) == {}                                                \* mutant
Closed_Current(w) == {session}                                      \* mutant
Closed(w) == {worker[w].old}

\* Whoever is executing on the session that goes away is in a race with it.
\* runDemoHandler then opens its scoped event.
CloseOld(w) ==
    /\ worker[w].pc = "closing"
    /\ live' = live \ Closed(w)
    /\ connected' = connected \ Closed(w)
    /\ worker' = [v \in Workers |->
         IF v = w THEN [worker[v] EXCEPT !.pc = "statement", !.old = NoRequest,
                                         !.at = 1]
         ELSE IF worker[v].pc = "executing" /\ worker[v].on \in Closed(w)
              THEN [worker[v] EXCEPT !.raced = TRUE] ELSE worker[v]]
    /\ span' = [span EXCEPT ![worker[w].request] = NewSpanEvent(@, DemoEvent)]
    /\ UNCHANGED <<response, session, table, historyVars, processVars>>

-----------------------------------------------------------------------------
(* runDemoHandler: executeSelectQuery and executeDMLQuery. *)

\* The statement's scoped event, and session_->sql().
BeginStatement(w) ==
    LET racers == {v \in Workers \ {w} : /\ worker[v].pc = "executing"
                                         /\ worker[v].on = session}
    IN  /\ worker[w].pc = "statement"
        /\ span' = [span EXCEPT ![worker[w].request] =
                      NewSpanEvent(@, worker[w].at)]
        /\ worker' = [v \in Workers |->
             IF v = w THEN [worker[v] EXCEPT !.pc = "executing", !.on = session,
                                             !.raced = racers # {}]
             ELSE [worker[v] EXCEPT !.raced = @ \/ v \in racers]]
        /\ UNCHANGED <<response, sessionVars, table, historyVars, processVars>>

\* What the database says of a statement that reaches it: names and emails go
\* together, so a second INSERT of a user violates UNIQUE.
Accepts(k) == CASE Statements[k] = "create"  -> TRUE
                [] Statements[k] = "missing" -> FALSE
                [] Statements[k] \in Users   -> /\ table.exists
                                                /\ Statements[k] \notin table.users
                [] OTHER                     -> table.exists

\* DELETE FROM demo_users; with "age > 30" it finds Bob.
Cleared_NotAll == table.users \ {"Bob"}                             \* mutant
Cleared == {}

Changed(k) == CASE Statements[k] = "create"  -> [table EXCEPT !.exists = TRUE]
                [] Statements[k] = "clear"   -> [table EXCEPT !.users = Cleared]
                [] Statements[k] \in Users   -> [table EXCEPT !.users = @ \cup {Statements[k]}]
                [] Statements[k] = "prune"   -> [table EXCEPT !.users = @ \ {"Bob"}]
                [] OTHER                     -> table

\* A destroyed session, or one that two workers use at a time.
Undefined(w) ==
    \/ /\ worker[w].pc = "executing"
       /\ worker[w].raced \/ worker[w].on \notin live
    \/ /\ worker[w].pc = "closing"
       /\ worker[w].old # NoRequest /\ worker[w].old \notin live

\* The event ends by its destructor; every error is caught and recorded on it.
EndStatementEvent_Leaked(s, k, ok) == IF ok THEN EndEvent(s, k, FALSE) ELSE s   \* mutant
EndStatementEvent_Silent(s, k, ok) == EndEvent(s, k, FALSE)         \* mutant
EndStatementEvent(s, k, ok) == EndEvent(s, k, ~ok)

\* stmt.execute(), traceSqlExecution and the event's destructor.  done says
\* that the database ran the statement, ok that the example saw no exception.
Execute(w) ==
    LET r == worker[w].request
        k == worker[w].at
        reached == dbUp /\ worker[w].on \in connected /\ Accepts(k)
    IN  /\ worker[w].pc = "executing"
        /\ \E done \in {FALSE, reached}, ok \in BOOLEAN :
              /\ ~Undefined(w) => done = reached /\ ok = reached
              /\ table' = IF done THEN Changed(k) ELSE table
              /\ effects' = [effects EXCEPT ![r] = IF done THEN @ \cup {k} ELSE @]
              /\ span' = [span EXCEPT ![r] = EndStatementEvent(@, k, ok)]
              /\ worker' = [worker EXCEPT
                   ![w] = [@ EXCEPT !.at = k + 1, !.on = NoRequest, !.raced = FALSE,
                                    !.pc = IF k = Len(Statements) THEN "told"
                                           ELSE "statement"]]
        /\ company' = IF Undefined(w) THEN Met({r}, "undefined") ELSE company
        /\ UNCHANGED <<response, sessionVars, processVars>>

\* Every addOperation was reached: "3 users inserted", "demo_status": "completed".
LeaveDemo(w) ==
    /\ worker[w].pc = "told"
    /\ span' = [span EXCEPT ![worker[w].request] = EndEvent(@, DemoEvent, FALSE)]
    /\ worker' = [worker EXCEPT ![w].pc = "leave", ![w].status = "200"]
    /\ UNCHANGED <<response, sessionVars, table, historyVars, processVars>>

-----------------------------------------------------------------------------
(* The database and the process. *)

DbFails == /\ dbUp /\ faults < MaxFaults
           /\ dbUp' = FALSE
           /\ faults' = faults + 1
           /\ connected' = {}
           /\ company' = Met(Running, "outage")
           /\ UNCHANGED <<span, worker, response, session, live, table, effects,
                          up>>

DbReturns == /\ ~dbUp
             /\ dbUp' = TRUE
             /\ UNCHANGED <<span, worker, response, sessionVars, table, historyVars,
                            up, faults>>

\* The process ends: its spans, workers and sessions go with it.
Dies == /\ up' = FALSE
        /\ span' = [r \in Requests |-> Lose(span[r])]
        /\ worker' = [w \in Workers |-> Idle]
        /\ session' = NoRequest
        /\ live' = {} /\ connected' = {}
        /\ UNCHANGED <<response, table, historyVars, dbUp>>

Crash(w) == /\ Undefined(w)
            /\ Dies
            /\ UNCHANGED faults

\* A signal: the program handles none, so nothing after listen() is reached.
Kill == /\ up /\ faults < MaxFaults
        /\ Dies
        /\ faults' = faults + 1

\* main.
Start == /\ ~up
         /\ up' = TRUE
         /\ UNCHANGED <<span, worker, response, sessionVars, table, historyVars,
                        dbUp, faults>>

WorkerStep(w) == \/ EnterHandler(w) \/ LeaveHandler(w) \/ TraceResponse(w)
                 \/ OpenSession(w) \/ WriteNew(w) \/ CloseOld(w)
                 \/ BeginStatement(w) \/ Execute(w) \/ LeaveDemo(w)

Rests == /\ \A r \in Requests : span[r].phase \in {"ended", "lost"}
         /\ UNCHANGED vars

Next == \/ \E w \in Workers : \/ \E r \in Requests : TraceRequest(w, r)
                              \/ WorkerStep(w)
                              \/ Crash(w)
        \/ DbFails \/ DbReturns \/ Kill \/ Start \/ Rests

Spec == Init /\ [][Next]_vars
-----------------------------------------------------------------------------
(* Properties. *)

SpanRecords == SpanType(Requests, Events)
WorkerRecords ==
    [pc : {"idle", "traced", "connect", "replacing", "closing", "statement",
            "executing", "told", "leave", "respond"},
     request : Requests \cup {NoRequest}, status : {"none", "200", "503"},
     at : 0 .. Len(Statements) + 1, old : Demos \cup {NoRequest},
     on : Demos \cup {NoRequest}, raced : BOOLEAN]

TypeOK ==
    /\ span \in [Requests -> SpanRecords]
    /\ worker \in [Workers -> WorkerRecords]
    /\ response \in [Requests -> {"none", "200", "503"}]
    /\ session \in Demos \cup {NoRequest}
    /\ live \subseteq Demos /\ connected \subseteq live
    /\ table \in [exists : BOOLEAN, users : SUBSET Users]
    /\ effects \in [Requests -> SUBSET (1 .. Len(Statements))]
    /\ company \in [Requests -> SUBSET {"demo", "outage", "undefined"}]
    /\ dbUp \in BOOLEAN /\ up \in BOOLEAN
    /\ faults \in 0 .. MaxFaults

\* A demo that met no other demo and no outage did all it reports, and its trace
\* has the one failed statement it asks for, whatever earlier demos, crashes
\* and setups left in the table and in the shared session.
LoneReportIsTrue ==
    \A r \in Demos :
        response[r] = "200" /\ company[r] = {} =>
            LET missing == {k \in 1 .. Len(Statements) : Statements[k] = "missing"}
            IN  /\ effects[r] = (1 .. Len(Statements)) \ missing
                /\ span[r].failed = missing

\* Whatever demos overlap and however the database goes away, the trace says what
\* the answer conceals: the failed events of an answered demo are those of the
\* statements that took no effect, none more, but for undefined behaviour.
EventsAreTrue ==
    \A r \in Demos :
        response[r] = "200" /\ "undefined" \notin company[r] =>
            span[r].failed = (1 .. Len(Statements)) \ effects[r]

\* Inserted by r, or by another demo, where both have met one.
InsertedBy(user, r) == \E k \in effects[r] : Statements[k] = user
InsertedAround(user, r) ==
    \/ InsertedBy(user, r)
    \/ \E q \in Demos \ {r} : /\ "demo" \in company[q] /\ "demo" \in company[r]
                              /\ InsertedBy(user, q)

NoOutage == \A q \in Demos : "outage" \notin company[q]

\* Without a transaction around DELETE and INSERTs, demos that overlap take users
\* from each other, but from none else: while no demo meets an outage, a user that
\* an answered demo could not insert was inserted by one that overlapped as it did,
\* and not left there by an earlier one, but for undefined behaviour.
InsertedByOneOfThem ==
    NoOutage => \A r \in Demos, k \in Inserts :
        response[r] = "200" /\ "undefined" \notin company[r] =>
            InsertedAround(Statements[k], r)

\* The shared session_ is used after its end, closed twice or used by two
\* threads only by demos that ran at once: one demo at a time is safe, outages
\* and the sessions of earlier demos notwithstanding.
UndefinedNeedsTwo ==
    \A w \in Workers : Undefined(w) => "demo" \in company[worker[w].request]

\* session_ never holds a session that was closed, whatever demos replace it at
\* the same time.
SessionNeverDangles == session \in live \cup {NoRequest}

\* Between requests no session is left open but the one that session_ holds,
\* unless two demos met.
LeakNeedsTwo ==
    (\A r \in Demos : "demo" \notin company[r]) /\ Running = {} => live \subseteq {session}

\* The answer of /db-demo says "3 users inserted" (mysql_example.cpp:364) only
\* if it inserted them.  The code violates it.
ReportIsTrue ==
    \A r \in Demos : response[r] = "200" => Inserts \subseteq effects[r]

U == INSTANCE SpanUse WITH Spans <- Requests

\* The example uses the agent as SpanProtocol demands: failed statements, failed
\* connections, crashes and stops included.
FollowsSpanProtocol == U!FollowsProtocol
=============================================================================
