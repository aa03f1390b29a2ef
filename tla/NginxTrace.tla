----------------------------- MODULE NginxTrace -----------------------------
(***************************************************************************)
(* The nginx module in nginx's pre-fork model: the master forks the        *)
(* processes of a cycle and makes no agent call; each worker starts its    *)
(* own agent in init_process, traces a request from the LOG phase when it  *)
(* is over, and shuts its agent down in exit_process.  A reload starts a   *)
(* new cycle whose configuration may differ, while the workers of the old  *)
(* one finish their requests; a worker that crashes is forked again.       *)
(*                                                                         *)
(* A worker runs one handler at a time, so the LOG handler is one step.    *)
(* nginx reads two clocks, in milliseconds: the monotonic one times the    *)
(* tries at upstreams, the wall clock gives a request its start and end.   *)
(* They are rounded apart, and the wall clock may be set.                  *)
(***************************************************************************)
EXTENDS Integers, FiniteSets, Sequences, SequencesExt

CONSTANTS Requests,      \* main requests
          Workers,       \* worker_processes
          Configs,       \* Configs[c]: the configurations cycle c may have
          MaxCycle,      \* bound on reloads
          MaxCrashes,    \* bound on crashes of workers
          MaxTime,       \* bound on the monotonic clock
          MaxTries,      \* bound on the tries of one request
          Skew,          \* what the clocks' readings may differ by, unless one is set
          Lag,           \* what nginx's cached time may be behind the agent's
          Offsets        \* what the wall clock may be set off by

\* pinpoint_enable; and pinpoint_config_file: none, usable, or longer than the
\* buffer of init_process.
MainConfs == [enable : BOOLEAN, file : {"none", "usable", "long"}]

ASSUME NginxAssumption ==
    /\ Configs \in [0 .. MaxCycle -> SUBSET MainConfs]
    /\ Workers \in Nat \ {0}
    /\ MaxCycle \in Nat /\ MaxCrashes \in Nat
    /\ MaxTime \in Nat /\ MaxTries \in Nat
    /\ Skew \in Nat /\ Lag \in Nat
    /\ 0 \in Offsets /\ Offsets \subseteq Int

\* <<c, 0>> is the cache manager of cycle c, <<c, i>> its i-th worker.
Processes == (0 .. MaxCycle) \X (0 .. Workers)

VARIABLES now,        \* the monotonic clock, ngx_current_msec
          drift,      \* the wall clock's lead over it by rounding
          offset,     \* its lead by having been set
          cycle,      \* the master's current cycle
          config,     \* config[c]: the main configuration of cycle c
          process,    \* process[p]: one of nginx's processes
          crashes,    \* crashes so far
          request,    \* request[r]: a request on its way through a worker
          busy,       \* busy[r]: history, the time upstreams spent on r
          moved,      \* moved[r]: history, how far the clock was set while r was served
          handles,    \* handles[r]: what the agent returned for r when asked for a span
          spans       \* spans[r]: the spans recorded for r

clocks == <<now, drift, offset>>
masterVars == <<cycle, config, crashes>>
history == <<busy, moved>>
records == <<handles, spans>>
vars == <<clocks, masterVars, process, request, history, records>>

\* ngx_timeofday.
Wall == now + drift + offset

\* What pt_agent_new_span_with_method may return: NULL, a span that the sampling or
\* the caller's headers leave unrecorded, or one that is recorded.
Handles == {"null", "unsampled", "sampled"}

\* g_agent: NULL, started, or started and registered; settings says whether it
\* got the configuration file.
NoAgent == [state |-> "none", settings |-> "default"]
Unforked == [up |-> FALSE, quit |-> FALSE, agent |-> NoAgent]

\* A request: its worker, its start, whether the agent was ready then, when its
\* present try at an upstream began, and the time each try took.
Untimed == -1
Fresh == [pc |-> "new", at |-> <<0, 0>>, start |-> 0, armed |-> FALSE,
          begun |-> Untimed, tries |-> <<>>]

Init == /\ now = 0
        /\ cycle = 0
        /\ config \in {[c \in 0 .. MaxCycle |-> conf] : conf \in Configs[0]}
        /\ process = [p \in Processes |-> Unforked]
        /\ crashes = 0
        /\ request = [r \in Requests |-> Fresh]
        /\ drift = 0
        /\ offset = 0
        /\ busy = [r \in Requests |-> 0]
        /\ moved = [r \in Requests |-> 0]
        /\ handles = [r \in Requests |-> <<>>]
        /\ spans = [r \in Requests |-> <<>>]

-----------------------------------------------------------------------------
(* The life of a process. *)

\* init_process traces only where requests are served and the module is on.
Traces_Everywhere(p) == config[p[1]].enable                         \* mutant
Traces(p) == p[2] # 0 /\ config[p[1]].enable

\* A path that does not fit the buffer is dropped.
Settings_Cut(p) == CASE config[p[1]].file = "usable" -> "file"      \* mutant
                     [] config[p[1]].file = "long"   -> "cut path"
                     [] OTHER                        -> "default"
Settings(p) == IF config[p[1]].file = "usable" THEN "file" ELSE "default"

\* The master forks the workers of its cycle in order and the cache manager last;
\* each runs init_process.  An agent that does not start leaves it untraced.
Fork(p) ==
    /\ p[1] = cycle
    /\ \A i \in 1 .. Workers : p[2] = 0 \/ i < p[2] => process[<<cycle, i>>].up
    /\ ~process[p].up
    /\ \E state \in IF Traces(p) THEN {"started", "none"} ELSE {"none"} :
          process' = [process EXCEPT
            ![p] = [up |-> TRUE, quit |-> FALSE,
                    agent |-> IF state = "none" THEN NoAgent
                              ELSE [state |-> state, settings |-> Settings(p)]]]
    /\ UNCHANGED <<clocks, masterVars, request, history, records>>

\* Registration with the collector completes in the background.
Register(p) ==
    /\ process[p].agent.state = "started"
    /\ process' = [process EXCEPT ![p].agent.state = "ready"]
    /\ UNCHANGED <<clocks, masterVars, request, history, records>>

\* A reload: once the new workers are there, the old ones are told to quit.
Reload == /\ cycle < MaxCycle
          /\ cycle' = cycle + 1
          /\ \E conf \in Configs[cycle + 1] : config' = [config EXCEPT ![cycle + 1] = conf]
          /\ UNCHANGED <<clocks, crashes, process, request, history, records>>

Retire == /\ \A i \in 0 .. Workers : process[<<cycle, i>>].up
          /\ \E p \in Processes : p[1] < cycle /\ process[p].up /\ ~process[p].quit
          /\ process' = [p \in Processes |->
               IF process[p].up THEN [process[p] EXCEPT !.quit = p[1] < cycle]
               ELSE process[p]]
          /\ UNCHANGED <<clocks, masterVars, request, history, records>>

ServedBy(p) == {r \in Requests : request[r].pc = "serving" /\ request[r].at = p}

MayExit_Registered(p) == /\ process[p].quit /\ ServedBy(p) = {}     \* mutant
                         /\ process[p].agent.state # "started"
MayExit(p) == process[p].quit /\ ServedBy(p) = {}

\* exit_process, once the last request is over.
Exit(p) == /\ MayExit(p)
           /\ process' = [process EXCEPT ![p] = Unforked]
           /\ UNCHANGED <<clocks, masterVars, request, history, records>>

\* A worker dies with its requests and its agent.
Crash(p) == /\ process[p].up /\ crashes < MaxCrashes
            /\ crashes' = crashes + 1
            /\ process' = [process EXCEPT ![p] = Unforked]
            /\ request' = [r \in Requests |-> IF r \in ServedBy(p)
                                              THEN [request[r] EXCEPT !.pc = "lost"]
                                              ELSE request[r]]
            /\ UNCHANGED <<clocks, cycle, config, history, records>>

-----------------------------------------------------------------------------
(* Requests. *)

\* A worker that is not quitting accepts a request.
Accept(r, p) ==
    /\ process[p].up /\ ~process[p].quit /\ p[2] # 0
    /\ request[r].pc = "new"
    /\ request' = [request EXCEPT
         ![r] = [Fresh EXCEPT !.pc = "serving", !.at = p, !.start = Wall,
                              !.armed = process[p].agent.state = "ready"]]
    /\ UNCHANGED <<clocks, masterVars, process, history, records>>

Trying(r) == request[r].pc = "serving" /\ request[r].begun # Untimed

\* The request goes to an upstream, again when proxy_next_upstream says so.
BeginTry(r) ==
    /\ request[r].pc = "serving" /\ ~Trying(r)
    /\ Len(request[r].tries) < MaxTries
    /\ request' = [request EXCEPT ![r].begun = now]
    /\ UNCHANGED <<clocks, masterVars, process, history, records>>

\* A try is over; nginx may have timed it or not.
EndTry(r) ==
    /\ Trying(r)
    /\ \E time \in {now - request[r].begun, Untimed} :
          request' = [request EXCEPT ![r].begun = Untimed,
                                     ![r].tries = Append(@, time)]
    /\ UNCHANGED <<clocks, masterVars, process, history, records>>

\* Time passes: either clock's reading moves on by itself, as they are rounded apart.
Tick == \E elapsed \in 0 .. 1, ahead \in 0 .. Skew :
            /\ now + elapsed <= MaxTime
            /\ elapsed + ahead >= drift
            /\ now' = now + elapsed /\ drift' = ahead
            /\ busy' = [r \in Requests |-> busy[r] + IF Trying(r) THEN elapsed ELSE 0]
            /\ UNCHANGED <<offset, masterVars, process, request, moved, records>>

\* The wall clock is set, forward or back.
SetClock == \E to \in Offsets :
    /\ offset' = to
    /\ moved' = [r \in Requests |-> moved[r] + IF request[r].pc = "serving"
                                               THEN to - offset ELSE 0]
    /\ UNCHANGED <<now, drift, masterVars, process, request, busy, records>>

-----------------------------------------------------------------------------
(* log_handler and record_upstream. *)

\* The time of all tries but those that were never timed: the number of their
\* milliseconds, one being told from others by its try and its place in it.
Total_WithUntimed(tries) == FoldLeft(LAMBDA sum, time : sum + time, 0, tries)   \* mutant
Timed(tries) == {i \in DOMAIN tries : tries[i] # Untimed}
Ticks(tries) == UNION {{i} \X (1 .. tries[i]) : i \in Timed(tries)}
Total(tries) == Cardinality(Ticks(tries))

\* One event for all tries, begun their time before the cached clock and ended by
\* the agent's; a request nginx served by itself has none.
Upstream(r, end) == IF request[r].tries = <<>> THEN <<>>
                    ELSE <<[start |-> Wall - Total(request[r].tries), end |-> end]>>

RecordedSpan(r, end) == [start |-> request[r].start, end |-> end, events |-> Upstream(r, end),
                         settings |-> process[request[r].at].agent.settings]

\* The agent is asked for a span; only a sampled one leaves a record.
NewSpan(r) == \E handle \in Handles, end \in Wall .. Wall + Lag :
    /\ handles' = [handles EXCEPT ![r] = Append(@, handle)]
    /\ spans' = IF handle = "sampled"
                THEN [spans EXCEPT ![r] = Append(@, RecordedSpan(r, end))] ELSE spans

\* log_handler for a request, or for a subrequest of it that nginx logs.
Ready(r) == process[request[r].at].agent.state = "ready"
LogHandler_Subrequests(r, main) == IF Ready(r) THEN NewSpan(r)      \* mutant
                                   ELSE UNCHANGED records
LogHandler(r, main) == IF Ready(r) /\ main THEN NewSpan(r) ELSE UNCHANGED records

Subrequest(r) == /\ request[r].pc = "serving"
                 /\ LogHandler(r, FALSE)
                 /\ UNCHANGED <<clocks, masterVars, process, request, history>>

Complete(r) == /\ request[r].pc = "serving" /\ ~Trying(r)
               /\ request' = [request EXCEPT ![r].pc = "done"]
               /\ LogHandler(r, TRUE)
               /\ UNCHANGED <<clocks, masterVars, process, history>>

-----------------------------------------------------------------------------

\* nginx waits for requests, reloads and the clock, which may all be used up.
Rests == /\ \A r \in Requests : request[r].pc \in {"done", "lost"}
         /\ UNCHANGED vars

Next == \/ \E p \in Processes : \/ Fork(p) \/ Register(p) \/ Exit(p)
                                \/ Crash(p)
                                \/ \E r \in Requests : Accept(r, p)
        \/ \E r \in Requests : \/ BeginTry(r) \/ EndTry(r)
                               \/ Subrequest(r) \/ Complete(r)
        \/ Reload \/ Retire \/ Tick \/ SetClock \/ Rests

Spec == Init /\ [][Next]_vars
-----------------------------------------------------------------------------
(* Properties. *)

TypeOK ==
    /\ now \in 0 .. MaxTime /\ drift \in 0 .. Skew /\ offset \in Offsets
    /\ cycle \in 0 .. MaxCycle /\ crashes \in 0 .. MaxCrashes
    /\ config \in [0 .. MaxCycle -> MainConfs]
    /\ process \in [Processes ->
         [up : BOOLEAN, quit : BOOLEAN,
          agent : [state : {"none", "started", "ready"}, settings : {"default", "file"}]]]
    /\ \A r \in Requests :
         /\ request[r].pc \in {"new", "serving", "done", "lost"}
         /\ request[r].start \in Int /\ moved[r] \in Int /\ busy[r] \in 0 .. now
         /\ request[r].begun \in {Untimed} \cup (0 .. now)
         /\ request[r].tries \in Seq({Untimed} \cup (0 .. now))
         /\ Len(request[r].tries) <= MaxTries

\* The agent is asked for a span of a request at most once, whatever subrequests
\* nginx logs, and once if it was ready when the request came, through reloads and
\* the quitting of its worker, unless the worker died; the request is recorded, once,
\* if the agent returned a sampled span, and not if it returned another or none.
TracedOnce ==
    \A r \in Requests :
        /\ Len(handles[r]) <= 1 /\ Len(spans[r]) <= 1
        /\ handles[r] # <<>> => request[r].pc = "done"
        /\ request[r].pc = "done" /\ request[r].armed => handles[r] # <<>>
        /\ spans[r] # <<>> <=> handles[r] = <<"sampled">>

\* log_handler's span ends after it starts, and record_upstream's event takes the
\* time upstreams were busy with the request, or less if some of it was not timed,
\* and what the cached clock is behind.  It need not lie inside the span: it can
\* begin as much earlier as the two clocks were rounded apart, or as the wall clock
\* was set back meanwhile, and by no more.
EventFitsSpan ==
    \A r \in Requests : \A i \in DOMAIN spans[r] :
        LET span == spans[r][i]
        IN  /\ span.start + moved[r] <= span.end
            /\ \A j \in DOMAIN span.events :
                 LET event == span.events[j]
                     took == event.end - event.start
                 IN  /\ event.start <= event.end /\ event.end <= span.end
                     /\ took <= busy[r] + Lag
                     /\ Untimed \notin ToSet(request[r].tries) => busy[r] <= took
                     /\ span.start + moved[r] <= event.start + Skew

\* What init_process should have told the agents of cycle c.
SettingsOf(c) == IF config[c].file = "usable" THEN "file" ELSE "default"

\* The master's helper runs no agent, a worker only one that its own cycle asks
\* for, with the settings of that cycle or, if its path is too long, the default
\* ones, and a process that is gone none; a span has the settings of the cycle that
\* accepted its request, reloads in between notwithstanding.
AgentsWhereTraced ==
    /\ \A p \in Processes : process[p].agent.state # "none" =>
           /\ process[p].up /\ p[2] # 0 /\ config[p[1]].enable
           /\ process[p].agent.settings = SettingsOf(p[1])
    /\ \A r \in Requests : \A i \in DOMAIN spans[r] :
           LET c == request[r].at[1]
           IN  config[c].enable /\ spans[r][i].settings = SettingsOf(c)

\* Requests end, and nginx forks, signals and reaps its processes.
FairSpec == /\ Spec
            /\ WF_vars(Retire)
            /\ \A p \in Processes : WF_vars(Fork(p)) /\ WF_vars(Exit(p))
            /\ \A r \in Requests : WF_vars(EndTry(r)) /\ WF_vars(Complete(r))

\* After a reload every process of an older cycle goes, and its agent with it.
OldCyclesEnd ==
    \A p \in Processes : p[1] < cycle /\ process[p].up ~> ~process[p].up
=============================================================================
