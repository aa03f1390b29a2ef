-------------------------- MODULE NginxTraceProofs --------------------------
(***************************************************************************)
(* Proofs about NginxTrace, for any number of requests, workers, reloads,  *)
(* crashes and tries, and any configurations.                              *)
(***************************************************************************)
EXTENDS NginxTrace, SequenceTheorems, FiniteSetTheorems, TLAPS

-----------------------------------------------------------------------------
(* The inductive invariant. *)

RequestRecords ==
    [pc : {"new", "serving", "done", "lost"}, at : Processes, start : Int,
     armed : BOOLEAN, begun : {Untimed} \cup Nat, tries : Seq({Untimed} \cup Nat)]
AgentRecords == [state : {"none", "started", "ready"}, settings : {"default", "file"}]
ProcessRecords == [up : BOOLEAN, quit : BOOLEAN, agent : AgentRecords]

\* The type of the variables that TypeOK says less about.
Typed == /\ TypeOK
         /\ request \in [Requests -> RequestRecords]
         /\ busy = [r \in Requests |-> busy[r]]
         /\ moved = [r \in Requests |-> moved[r]]
         /\ handles = [r \in Requests |-> handles[r]]
         /\ spans = [r \in Requests |-> spans[r]]

\* The process p runs an agent only if its own cycle wants it, and with the
\* settings of that cycle, which is not one to come.
ProcessInv(p) ==
    /\ process[p].up => p[1] <= cycle
    /\ process[p].agent.state # "none" =>
          /\ process[p].up /\ p[2] # 0
          /\ config[p[1]].enable
          /\ process[p].agent.settings = SettingsOf(p[1])

\* The span s is that of the request v, accepted in a cycle with these settings; it
\* is over after the time that upstreams used and the clock was set by, but for the
\* skew, and its event began the time on record before the cached clock.
Reports(s, v, wanted, settings, used, set) ==
    /\ s.start = v.start /\ s.end \in Int /\ v.start + set <= s.end
    /\ \E end \in Int :
          /\ s.events = IF v.tries = <<>> THEN <<>>
                        ELSE <<[start |-> end - Total(v.tries), end |-> s.end]>>
          /\ end <= s.end /\ s.end <= end + Lag
          /\ v.start + used + set <= end + Skew
    /\ wanted /\ s.settings = settings

\* What the agent gave log_handler for the request v, and what became of it.
Logged(r) ==
    LET v == request[r]
        c == v.at[1]
    IN  \/ handles[r] = <<>> /\ spans[r] = <<>> /\ ~v.armed
        \/ \E handle \in Handles \ {"sampled"} : handles[r] = <<handle>> /\ spans[r] = <<>>
        \/ /\ handles[r] = <<"sampled">>
           /\ \E s : /\ spans[r] = <<s>>
                     /\ Reports(s, v, config[c].enable, SettingsOf(c), busy[r], moved[r])

RequestInv(r) ==
    LET v == request[r]
    IN  /\ v.pc = "new" => v = Fresh /\ busy[r] = 0 /\ moved[r] = 0
        /\ v.pc # "new" => v.at[1] <= cycle
        /\ v.pc = "serving" => process[v.at].up
        /\ v.pc = "serving" /\ v.armed => process[v.at].agent.state = "ready"
        /\ v.begun # Untimed => Len(v.tries) < MaxTries
        /\ v.pc # "done" => handles[r] = <<>> /\ spans[r] = <<>>
        /\ v.pc = "done" => Logged(r) /\ v.begun = Untimed

\* The upstreams' time of r that no finished try accounts for yet.
Pending(r) == IF request[r].begun = Untimed THEN 0 ELSE now - request[r].begun

\* The wall clock has moved on since the request came by what it was set, and in
\* all by no less than the upstreams were busy, but for the rounding.
ClockInv(r) ==
    /\ request[r].start + moved[r] <= Wall
    /\ request[r].start + busy[r] + moved[r] <= now + offset + Skew

\* The finished tries of a request that is not lost account for the time the
\* upstreams were busy, up to what was not timed.
TimeInv(r) ==
    LET tries == request[r].tries
    IN  /\ request[r].pc # "lost" =>
              /\ IsFiniteSet(Ticks(tries)) /\ Total(tries) + Pending(r) <= busy[r]
              /\ Untimed \notin ToSet(tries) => Total(tries) + Pending(r) = busy[r]
        /\ request[r].pc = "serving" => ClockInv(r)

NginxInv == /\ Typed
            /\ \A p \in Processes : ProcessInv(p)
            /\ \A r \in Requests : RequestInv(r)
            /\ \A r \in Requests : TimeInv(r)

-----------------------------------------------------------------------------
(* The time of a request's tries. *)

\* Nothing was tried.
LEMMA NoTries == Ticks(<<>>) = {} /\ IsFiniteSet(Ticks(<<>>)) /\ Total(<<>>) = 0
<1>1. Timed(<<>>) = {}
  BY DEF Timed
<1>2. Ticks(<<>>) = {}
  BY <1>1 DEF Ticks
<1> QED BY <1>2, FS_EmptySet DEF Total

\* The ticks of one timed try.
LEMMA TicksOfOne ==
    ASSUME NEW i, NEW time \in Nat
    PROVE  IsFiniteSet({i} \X (1 .. time)) /\ Cardinality({i} \X (1 .. time)) = time
<1> DEFINE S == 1 .. time
           T == {i} \X (1 .. time)
           f == [t \in S |-> <<i, t>>]
<1>1. IsFiniteSet(S) /\ Cardinality(S) = time
  <2>1. IsFiniteSet(1 .. time)
        /\ Cardinality(1 .. time) = IF 1 > time THEN 0 ELSE time - 1 + 1
    BY FS_Interval
  <2> QED BY <2>1
<1>2. f \in Bijection(S, T)
  <2>1. f \in [S -> T]
    OBVIOUS
  <2>2. \A a, b \in S : f[a] = f[b] => a = b
    OBVIOUS
  <2>3. \A y \in T : \E a \in S : f[a] = y
    OBVIOUS
  <2> QED BY <2>1, <2>2, <2>3 DEF Bijection, Injection, Surjection, IsInjective
<1>3. ExistsBijection(S, T)
  BY <1>2 DEF ExistsBijection
<1> HIDE DEF S, T
<1>4. IsFiniteSet(T) /\ Cardinality(T) = Cardinality(S)
  BY <1>1, <1>3, FS_Bijection
<1> QED BY <1>1, <1>4 DEF S, T

\* One more try adds its time, or nothing if it was not timed (record_upstream).
LEMMA OneMoreTry ==
    ASSUME NEW tries \in Seq({Untimed} \cup Nat), NEW time \in {Untimed} \cup Nat,
           IsFiniteSet(Ticks(tries))
    PROVE  LET more == Append(tries, time)
           IN  /\ IsFiniteSet(Ticks(more))
               /\ Total(more) = IF time = Untimed THEN Total(tries)
                                ELSE Total(tries) + time
               /\ Total(tries) \in Nat
               /\ Untimed \notin ToSet(more) <=>
                      Untimed \notin ToSet(tries) /\ time # Untimed
<1> DEFINE more == Append(tries, time)
           n == Len(tries)
           new == IF time = Untimed THEN {} ELSE {n + 1} \X (1 .. time)
<1>1. /\ n \in Nat /\ DOMAIN tries = 1 .. n /\ DOMAIN more = 1 .. n + 1
      /\ \A i \in 1 .. n : more[i] = tries[i]
      /\ more[n + 1] = time
  OBVIOUS
<1> HIDE DEF more, n
<1>2. Ticks(more) = Ticks(tries) \cup new
  <2>1. Timed(more) = Timed(tries) \cup (IF time = Untimed THEN {} ELSE {n + 1})
    BY <1>1 DEF Timed
  <2>2. \A i \in Timed(tries) : i \in 1 .. n /\ more[i] = tries[i]
    BY <1>1 DEF Timed
  <2>3. CASE time = Untimed
    BY <2>1, <2>2, <2>3 DEF Ticks
  <2>4. CASE time # Untimed
    <3>1. Timed(more) = Timed(tries) \cup {n + 1}
      BY <2>1, <2>4
    <3>2. ASSUME NEW x PROVE x \in Ticks(more) <=> x \in Ticks(tries) \cup new
      <4>1. x \in Ticks(more) <=> \E i \in Timed(more) : x \in {i} \X (1 .. more[i])
        BY DEF Ticks
      <4>2. x \in Ticks(tries) <=> \E i \in Timed(tries) : x \in {i} \X (1 .. tries[i])
        BY DEF Ticks
      <4> QED BY <4>1, <4>2, <3>1, <2>2, <2>4, <1>1
    <3> QED BY <3>2
  <2> QED BY <2>3, <2>4
<1>3. Ticks(tries) \cap new = {}
  <2>1. \A x \in Ticks(tries) : x[1] \in 1 .. n
    BY <1>1 DEF Ticks, Timed
  <2>2. \A x \in new : x[1] = n + 1
    OBVIOUS
  <2> QED BY <2>1, <2>2, <1>1
<1>4. IsFiniteSet(new) /\ Cardinality(new) = IF time = Untimed THEN 0 ELSE time
  <2>1. CASE time = Untimed
    BY <2>1, FS_EmptySet
  <2>2. CASE time # Untimed
    BY <2>2, TicksOfOne
  <2> QED BY <2>1, <2>2
<1>5. Total(tries) \in Nat
  BY FS_CardinalityType DEF Total
<1> HIDE DEF new
<1>6. /\ IsFiniteSet(Ticks(tries) \cup new)
      /\ Cardinality(Ticks(tries) \cup new) =
            Cardinality(Ticks(tries)) + Cardinality(new) - Cardinality({})
  BY <1>3, <1>4, FS_Union
<1>7. IsFiniteSet(Ticks(more))
      /\ Total(more) = IF time = Untimed THEN Total(tries) ELSE Total(tries) + time
  <2>1. Cardinality({}) = 0
    BY FS_EmptySet
  <2>2. Total(more) = Total(tries) + Cardinality(new)
    <3>1. Total(tries) + Cardinality(new) - 0 = Total(tries) + Cardinality(new)
      BY <1>4, <1>5
    <3> QED BY <1>2, <1>6, <2>1, <3>1 DEF Total
  <2> QED BY <2>2, <1>2, <1>4, <1>5, <1>6
<1>8. Untimed \notin ToSet(more) <=> Untimed \notin ToSet(tries) /\ time # Untimed
  BY <1>1 DEF ToSet
<1> QED BY <1>5, <1>7, <1>8 DEF more

-----------------------------------------------------------------------------
(* Steps of the processes, and steps of one request. *)

\* The names of groups of variables stand for the variables themselves.
USE DEF masterVars, clocks, history, records

\* A process belongs to a cycle, and has a place in it.
LEMMA Places ==
    /\ MaxCycle \in Nat /\ Workers \in Nat \ {0} /\ MaxTime \in Nat
    /\ \A p \in Processes : p[1] \in 0 .. MaxCycle /\ p[2] \in 0 .. Workers
    /\ \A c \in 0 .. MaxCycle : <<c, 0>> \in Processes
<1>1. MaxCycle \in Nat /\ Workers \in Nat /\ Workers # 0 /\ MaxTime \in Nat
  BY NginxAssumption
<1>2. 0 \in 0 .. Workers
  BY <1>1, SMT
<1> QED BY <1>1, <1>2 DEF Processes

\* What the invariant says of one request.
LEMMA OfRequest ==
    ASSUME NginxInv, NEW r \in Requests
    PROVE  /\ request[r] \in RequestRecords /\ RequestInv(r) /\ TimeInv(r)
           /\ request[r].at \in Processes /\ now \in Nat /\ cycle \in Nat
           /\ request[r].start \in Int /\ moved[r] \in Int /\ busy[r] \in 0 .. now
           /\ request[r].begun \in {Untimed} \cup (0 .. now)
           /\ request[r].tries \in Seq({Untimed} \cup (0 .. now))
           /\ request[r].tries \in Seq({Untimed} \cup Nat)
           /\ Len(request[r].tries) <= MaxTries
<1>1. now \in 0 .. MaxTime /\ cycle \in 0 .. MaxCycle
  BY DEF NginxInv, Typed, TypeOK
<1>2. now \in Nat /\ cycle \in Nat
  BY <1>1, Places
<1>3. request[r] \in RequestRecords
  BY DEF NginxInv, Typed
<1>4. request[r].at \in Processes /\ request[r].tries \in Seq({Untimed} \cup Nat)
  BY <1>3 DEF RequestRecords
<1> QED BY <1>2, <1>3, <1>4 DEF NginxInv, Typed, TypeOK

\* Nothing happens.
LEMMA StutterKeeps == ASSUME NginxInv, UNCHANGED vars PROVE NginxInv'
<1>1. Typed'
  BY DEF vars, NginxInv, Typed, TypeOK
<1>2. \A p \in Processes : ProcessInv(p)'
  BY DEF vars, NginxInv, ProcessInv, SettingsOf
<1>3. \A r \in Requests : RequestInv(r)'
  BY DEF vars, NginxInv, RequestInv, Logged, SettingsOf
<1>4. \A r \in Requests : TimeInv(r)'
  BY DEF vars, NginxInv, TimeInv, ClockInv, Wall, Pending
<1> QED BY <1>1, <1>2, <1>3, <1>4 DEF NginxInv

\* Processes change, but none that serves a request is gone or has lost a
\* registered agent.
LEMMA ProcessesChange ==
    ASSUME NginxInv, UNCHANGED <<clocks, masterVars, request, history, records>>,
           NEW p \in Processes, NEW v \in ProcessRecords,
           process' = [process EXCEPT ![p] = v], ProcessInv(p)',
           \/ /\ v.up = process[p].up
              /\ process[p].agent.state = "ready" => v.agent.state = "ready"
           \/ ~process[p].up
           \/ ServedBy(p) = {}
    PROVE  NginxInv'
<1>1. /\ process'[p] = v /\ \A q \in Processes \ {p} : process'[q] = process[q]
      /\ process \in [Processes -> ProcessRecords]
      /\ process' \in [Processes -> ProcessRecords]
  BY DEF NginxInv, Typed, TypeOK, ProcessRecords, AgentRecords
<1>2. Typed'
  <2>1. TypeOK'
    BY <1>1 DEF NginxInv, Typed, TypeOK, ProcessRecords, AgentRecords
  <2> QED BY <2>1 DEF NginxInv, Typed
<1>3. ASSUME NEW q \in Processes PROVE ProcessInv(q)'
  <2>1. CASE q = p
    BY <2>1
  <2>2. CASE q # p
    BY <2>2, <1>1 DEF NginxInv, ProcessInv, SettingsOf
  <2> QED BY <2>1, <2>2
<1>4. ASSUME NEW r \in Requests PROVE RequestInv(r)' /\ TimeInv(r)'
  <2>1. RequestInv(r) /\ TimeInv(r) /\ request[r].at \in Processes
    BY OfRequest
  <2>2. /\ request' = request /\ spans' = spans /\ handles' = handles
        /\ busy' = busy /\ moved' = moved /\ now' = now /\ drift' = drift
        /\ offset' = offset /\ config' = config /\ cycle' = cycle
    OBVIOUS
  <2>3. request[r].pc = "serving" =>
           /\ process'[request[r].at].up
           /\ request[r].armed => process'[request[r].at].agent.state = "ready"
    <3>1. CASE request[r].at # p
      BY <3>1, <2>1, <1>1 DEF RequestInv
    <3>2. CASE request[r].at = p
      BY <3>2, <2>1, <1>1 DEF RequestInv, ServedBy
    <3> QED BY <3>1, <3>2
  <2>4. RequestInv(r)'
    BY <2>1, <2>2, <2>3 DEF RequestInv, Logged, SettingsOf
  <2>5. TimeInv(r)'
    BY <2>1, <2>2 DEF TimeInv, ClockInv, Wall, Pending
  <2> QED BY <2>4, <2>5
<1> QED BY <1>2, <1>3, <1>4 DEF NginxInv

\* One request, or its spans, change.
LEMMA OneRequest ==
    ASSUME NginxInv, UNCHANGED <<clocks, masterVars, process, history>>,
           NEW r \in Requests, NEW v \in RequestRecords, NEW asked, NEW list,
           request' = [request EXCEPT ![r] = v],
           handles' = [handles EXCEPT ![r] = asked],
           spans' = [spans EXCEPT ![r] = list],
           /\ v.begun \in {Untimed} \cup (0 .. now)
           /\ v.tries \in Seq({Untimed} \cup (0 .. now)) /\ Len(v.tries) <= MaxTries,
           RequestInv(r)', TimeInv(r)'
    PROVE  NginxInv'
<1>1. /\ request'[r] = v
      /\ \A x \in Requests \ {r} : /\ request'[x] = request[x] /\ spans'[x] = spans[x]
                                    /\ handles'[x] = handles[x]
      /\ request' \in [Requests -> RequestRecords]
      /\ spans' = [x \in Requests |-> spans'[x]]
      /\ handles' = [x \in Requests |-> handles'[x]]
  BY DEF NginxInv, Typed
<1>2. Typed'
  <2>1. ASSUME NEW x \in Requests
        PROVE  /\ request'[x].pc \in {"new", "serving", "done", "lost"}
               /\ request'[x].start \in Int /\ moved[x] \in Int /\ busy[x] \in 0 .. now
               /\ request'[x].begun \in {Untimed} \cup (0 .. now)
               /\ request'[x].tries \in Seq({Untimed} \cup (0 .. now))
               /\ Len(request'[x].tries) <= MaxTries
    <3>1. CASE x = r
      BY <3>1, <1>1, OfRequest DEF RequestRecords
    <3>2. CASE x # r
      BY <3>2, <1>1, OfRequest DEF RequestRecords
    <3> QED BY <3>1, <3>2
  <2>2. TypeOK'
    BY <2>1 DEF NginxInv, Typed, TypeOK
  <2> QED BY <1>1, <2>2 DEF NginxInv, Typed
<1>3. ASSUME NEW q \in Processes PROVE ProcessInv(q)'
  BY DEF NginxInv, ProcessInv, SettingsOf
<1>4. ASSUME NEW x \in Requests PROVE RequestInv(x)' /\ TimeInv(x)'
  <2>1. CASE x = r
    BY <2>1
  <2>2. CASE x # r
    <3>1. /\ request'[x] = request[x] /\ spans'[x] = spans[x] /\ handles'[x] = handles[x]
          /\ busy' = busy /\ moved' = moved /\ UNCHANGED <<now, drift, offset>>
          /\ config' = config /\ cycle' = cycle /\ process' = process
      BY <2>2, <1>1
    <3>2. RequestInv(x) /\ TimeInv(x)
      BY OfRequest
    <3>3. RequestInv(x)'
      BY <3>1, <3>2 DEF RequestInv, Logged, SettingsOf
    <3>4. TimeInv(x)'
      BY <3>1, <3>2 DEF TimeInv, ClockInv, Wall, Pending
    <3> QED BY <3>3, <3>4
  <2> QED BY <2>1, <2>2
<1> QED BY <1>2, <1>3, <1>4 DEF NginxInv

-----------------------------------------------------------------------------
(* The life of a process. *)

\* A process that does not run.
LEMMA UnforkedIsFine == /\ Unforked \in ProcessRecords /\ ~Unforked.up
                        /\ Unforked.agent.state = "none"
BY DEF Unforked, NoAgent, ProcessRecords, AgentRecords

\* Every process was forked in a cycle that has begun.
LEMMA OfProcess ==
    ASSUME NginxInv, NEW p \in Processes
    PROVE  /\ process[p] \in ProcessRecords /\ ProcessInv(p)
           /\ process[p].agent \in AgentRecords
           /\ config[p[1]] \in MainConfs /\ cycle \in 0 .. MaxCycle
<1>1. p[1] \in 0 .. MaxCycle
  BY Places
<1>2. process[p] \in ProcessRecords
  BY DEF NginxInv, Typed, TypeOK, ProcessRecords, AgentRecords
<1>3. process[p].agent \in AgentRecords
  BY <1>2 DEF ProcessRecords
<1> QED BY <1>1, <1>2, <1>3 DEF NginxInv, Typed, TypeOK

\* init_process.
LEMMA ForkKeeps == ASSUME NginxInv, NEW p \in Processes, Fork(p) PROVE NginxInv'
<1>1. PICK state \in {"started", "none"} :
        /\ state = "started" => Traces(p)
        /\ process' = [process EXCEPT
             ![p] = [up |-> TRUE, quit |-> FALSE,
                     agent |-> IF state = "none" THEN NoAgent
                               ELSE [state |-> state, settings |-> Settings(p)]]]
  BY DEF Fork
<1> DEFINE agent == IF state = "none" THEN NoAgent
                    ELSE [state |-> state, settings |-> Settings(p)]
           v == [up |-> TRUE, quit |-> FALSE, agent |-> agent]
<1>2. p[1] = cycle /\ ~process[p].up /\ cycle \in Nat
      /\ UNCHANGED <<clocks, masterVars, request, history, records>>
  BY OfProcess, Places DEF Fork
<1>3. agent \in AgentRecords
  BY DEF AgentRecords, NoAgent, Settings
<1>4. agent.state = state
      /\ (state # "none" => agent.settings = Settings(p))
  BY DEF NoAgent
<1> HIDE DEF agent
<1>5. v \in ProcessRecords /\ v.up = TRUE /\ v.agent = agent
  BY <1>3 DEF ProcessRecords
<1> HIDE DEF v
<1>6. process' = [process EXCEPT ![p] = v] /\ process'[p] = v
  BY <1>1, OfProcess DEF v, agent, NginxInv, Typed, TypeOK
<1>7. ProcessInv(p)'
  BY <1>1, <1>2, <1>4, <1>5, <1>6 DEF ProcessInv, SettingsOf, Traces, Settings
<1> QED BY <1>2, <1>5, <1>6, <1>7, ProcessesChange

\* The agent registers.
LEMMA RegisterKeeps == ASSUME NginxInv, NEW p \in Processes, Register(p) PROVE NginxInv'
<1> DEFINE agent == [process[p].agent EXCEPT !.state = "ready"]
           v == [process[p] EXCEPT !.agent = agent]
<1>1. process[p] \in ProcessRecords /\ process[p].agent \in AgentRecords
      /\ ProcessInv(p)
  BY OfProcess
<1>2. process[p].agent.state = "started"
      /\ UNCHANGED <<clocks, masterVars, request, history, records>>
  BY DEF Register
<1>3. process' = [process EXCEPT ![p] = v]
  BY DEF Register
<1>4. agent \in AgentRecords /\ agent.state = "ready"
      /\ agent.settings = process[p].agent.settings
  BY <1>1 DEF AgentRecords
<1> HIDE DEF agent
<1>5. v \in ProcessRecords /\ v.up = process[p].up /\ v.agent = agent
  BY <1>1, <1>4 DEF ProcessRecords
<1> HIDE DEF v
<1>6. process'[p] = v
  BY <1>3 DEF NginxInv, Typed, TypeOK
<1>7. ProcessInv(p)'
  BY <1>1, <1>2, <1>4, <1>5, <1>6 DEF ProcessInv, SettingsOf
<1> QED BY <1>2, <1>3, <1>4, <1>5, <1>7, ProcessesChange

\* exit_process, after the last request.
LEMMA ExitKeeps == ASSUME NginxInv, NEW p \in Processes, Exit(p) PROVE NginxInv'
<1>1. /\ process' = [process EXCEPT ![p] = Unforked] /\ ServedBy(p) = {}
      /\ UNCHANGED <<clocks, masterVars, request, history, records>>
  BY DEF Exit, MayExit
<1>2. process'[p] = Unforked
  BY <1>1 DEF NginxInv, Typed, TypeOK
<1>3. ProcessInv(p)'
  BY <1>2, UnforkedIsFine DEF ProcessInv, SettingsOf
<1> QED BY <1>1, <1>3, UnforkedIsFine, ProcessesChange

\* The workers of older cycles are told to quit.
LEMMA RetireKeeps == ASSUME NginxInv, Retire PROVE NginxInv'
<1> DEFINE to(p) == IF process[p].up THEN [process[p] EXCEPT !.quit = p[1] < cycle]
                    ELSE process[p]
<1>1. /\ process' = [p \in Processes |-> to(p)]
      /\ UNCHANGED <<clocks, masterVars, request, history, records>>
  BY DEF Retire
<1>2. ASSUME NEW p \in Processes
      PROVE  /\ to(p) \in ProcessRecords /\ to(p).up = process[p].up
             /\ to(p).agent = process[p].agent
  <2> DEFINE quit == p[1] < cycle
  <2>1. quit \in BOOLEAN
    OBVIOUS
  <2> HIDE DEF quit
  <2>2. to(p) = IF process[p].up THEN [process[p] EXCEPT !.quit = quit] ELSE process[p]
    BY DEF quit
  <2> QED BY <2>1, <2>2, OfProcess DEF ProcessRecords
<1> HIDE DEF to
<1>3. Typed'
  <2>1. process' \in [Processes -> ProcessRecords]
    BY <1>1, <1>2
  <2>2. TypeOK'
    BY <1>1, <2>1
       DEF NginxInv, Typed, TypeOK, ProcessRecords, AgentRecords
  <2> QED BY <1>1, <2>2 DEF NginxInv, Typed
<1>4. ASSUME NEW p \in Processes PROVE ProcessInv(p)'
  BY <1>1, <1>2 DEF NginxInv, ProcessInv, SettingsOf
<1>5. ASSUME NEW r \in Requests PROVE RequestInv(r)' /\ TimeInv(r)'
  <2>1. RequestInv(r) /\ TimeInv(r) /\ request[r].at \in Processes
    BY OfRequest
  <2>2. /\ request' = request /\ spans' = spans /\ handles' = handles
        /\ busy' = busy /\ moved' = moved /\ now' = now /\ drift' = drift
        /\ offset' = offset /\ config' = config /\ cycle' = cycle
        /\ process'[request[r].at].up = process[request[r].at].up
        /\ process'[request[r].at].agent = process[request[r].at].agent
    BY <1>1, <1>2, <2>1
  <2>3. RequestInv(r)'
    BY <2>1, <2>2 DEF RequestInv, Logged, SettingsOf
  <2>4. TimeInv(r)'
    BY <2>1, <2>2 DEF TimeInv, ClockInv, Wall, Pending
  <2> QED BY <2>3, <2>4
<1> QED BY <1>3, <1>4, <1>5 DEF NginxInv

\* A new cycle begins; no process belongs to it yet.
LEMMA ReloadKeeps == ASSUME NginxInv, Reload PROVE NginxInv'
<1>1. /\ cycle < MaxCycle /\ cycle' = cycle + 1
      /\ UNCHANGED <<clocks, crashes, process, request, history, records>>
  BY DEF Reload
<1>2. PICK conf \in Configs[cycle + 1] : config' = [config EXCEPT ![cycle + 1] = conf]
  BY DEF Reload
<1>3. cycle \in 0 .. MaxCycle /\ MaxCycle \in Nat
      /\ config \in [0 .. MaxCycle -> MainConfs]
  BY Places DEF NginxInv, Typed, TypeOK
<1>4. cycle + 1 \in 0 .. MaxCycle /\ cycle \in Nat
  BY <1>1, <1>3, SMT
<1>5. conf \in MainConfs
  BY <1>4, NginxAssumption
<1>6. config' \in [0 .. MaxCycle -> MainConfs]
      /\ \A c \in 0 .. MaxCycle : c # cycle + 1 => config'[c] = config[c]
  BY <1>2, <1>3, <1>5
<1>7. Typed'
  <2>1. TypeOK'
    BY <1>1, <1>4, <1>6 DEF NginxInv, Typed, TypeOK
  <2> QED BY <1>1, <2>1 DEF NginxInv, Typed
<1>8. ASSUME NEW p \in Processes, p[1] <= cycle
      PROVE  config'[p[1]] = config[p[1]] /\ p[1] <= cycle'
  <2>1. p[1] \in 0 .. MaxCycle
    BY Places
  <2>2. p[1] # cycle + 1 /\ p[1] <= cycle + 1
    BY <1>4, <1>8, <2>1, SMT
  <2> QED BY <1>1, <1>6, <2>1, <2>2
<1>9. ASSUME NEW p \in Processes PROVE ProcessInv(p)'
  <2>1. ProcessInv(p)
    BY OfProcess
  <2> QED BY <2>1, <1>1, <1>8 DEF ProcessInv, SettingsOf
<1>10. ASSUME NEW r \in Requests PROVE RequestInv(r)' /\ TimeInv(r)'
  <2>1. RequestInv(r) /\ TimeInv(r) /\ request[r].at \in Processes
    BY OfRequest
  <2>2. request[r].pc # "new" => /\ config'[request[r].at[1]] = config[request[r].at[1]]
                                 /\ request[r].at[1] <= cycle'
    BY <2>1, <1>8 DEF RequestInv
  <2>3. RequestInv(r)'
    BY <2>1, <2>2, <1>1 DEF RequestInv, Logged, SettingsOf
  <2>4. TimeInv(r)'
    BY <2>1, <1>1 DEF TimeInv, ClockInv, Wall, Pending
  <2> QED BY <2>3, <2>4
<1> QED BY <1>7, <1>9, <1>10 DEF NginxInv

\* A worker dies with its requests and its agent.
LEMMA CrashKeeps == ASSUME NginxInv, NEW p \in Processes, Crash(p) PROVE NginxInv'
<1> DEFINE to(r) == IF r \in ServedBy(p) THEN [request[r] EXCEPT !.pc = "lost"]
                    ELSE request[r]
<1>1. /\ crashes < MaxCrashes /\ crashes' = crashes + 1
      /\ process' = [process EXCEPT ![p] = Unforked]
      /\ request' = [r \in Requests |-> to(r)]
      /\ UNCHANGED <<clocks, cycle, config, history, records>>
  BY DEF Crash
<1>2. ASSUME NEW r \in Requests
      PROVE  /\ to(r) \in RequestRecords
             /\ to(r).pc = IF r \in ServedBy(p) THEN "lost" ELSE request[r].pc
             /\ to(r).at = request[r].at /\ to(r).start = request[r].start
             /\ to(r).armed = request[r].armed /\ to(r).begun = request[r].begun
             /\ to(r).tries = request[r].tries
             /\ r \notin ServedBy(p) => to(r) = request[r]
  BY OfRequest DEF RequestRecords
<1> HIDE DEF to
<1>3. /\ process'[p] = Unforked
      /\ \A q \in Processes \ {p} : process'[q] = process[q]
      /\ process' \in [Processes -> ProcessRecords]
  BY <1>1, UnforkedIsFine DEF NginxInv, Typed, TypeOK, ProcessRecords, AgentRecords
<1>4. crashes' \in 0 .. MaxCrashes
  <2>1. MaxCrashes \in Nat /\ crashes \in 0 .. MaxCrashes
    BY NginxAssumption DEF NginxInv, Typed, TypeOK
  <2> QED BY <1>1, <2>1, SMT
<1>5. Typed'
  <2>1. \A r \in Requests :
          /\ request'[r].pc \in {"new", "serving", "done", "lost"}
          /\ request'[r].start \in Int /\ moved[r] \in Int /\ busy[r] \in 0 .. now
          /\ request'[r].begun \in {Untimed} \cup (0 .. now)
          /\ request'[r].tries \in Seq({Untimed} \cup (0 .. now))
          /\ Len(request'[r].tries) <= MaxTries
    BY <1>1, <1>2, OfRequest DEF RequestRecords
  <2>2. TypeOK'
    BY <1>1, <1>3, <1>4, <2>1
       DEF NginxInv, Typed, TypeOK, ProcessRecords, AgentRecords
  <2>3. request' \in [Requests -> RequestRecords]
    BY <1>1, <1>2
  <2> QED BY <1>1, <2>2, <2>3 DEF NginxInv, Typed
<1>6. ASSUME NEW q \in Processes PROVE ProcessInv(q)'
  <2>1. CASE q = p
    BY <2>1, <1>3, UnforkedIsFine DEF ProcessInv, SettingsOf
  <2>2. CASE q # p
    BY <2>2, <1>1, <1>3 DEF NginxInv, ProcessInv, SettingsOf
  <2> QED BY <2>1, <2>2
<1>7. ASSUME NEW r \in Requests PROVE RequestInv(r)' /\ TimeInv(r)'
  <2>1. RequestInv(r) /\ TimeInv(r) /\ request[r].at \in Processes
    BY OfRequest
  <2>2. CASE r \in ServedBy(p)
    <3>1. request'[r].pc = "lost" /\ request[r].pc = "serving"
          /\ request'[r].at = request[r].at /\ request'[r].begun = request[r].begun
          /\ request'[r].tries = request[r].tries
      BY <2>2, <1>1, <1>2 DEF ServedBy
    <3>2. RequestInv(r)'
      BY <2>1, <3>1, <1>1 DEF RequestInv, Logged, SettingsOf
    <3> QED BY <3>1, <3>2 DEF TimeInv
  <2>3. CASE r \notin ServedBy(p)
    <3>1. request'[r] = request[r]
      BY <2>3, <1>1, <1>2
    <3>2. request[r].pc = "serving" => request[r].at # p
      BY <2>3 DEF ServedBy
    <3>3. RequestInv(r)'
      BY <2>1, <3>1, <3>2, <1>1, <1>3 DEF RequestInv, Logged, SettingsOf
    <3>4. TimeInv(r)'
      BY <2>1, <3>1, <1>1 DEF TimeInv, ClockInv, Wall, Pending
    <3> QED BY <3>3, <3>4
  <2> QED BY <2>2, <2>3
<1> QED BY <1>5, <1>6, <1>7 DEF NginxInv

-----------------------------------------------------------------------------
(* The clocks. *)

\* What the invariant says of the clocks.
LEMMA OfClocks ==
    ASSUME NginxInv
    PROVE  /\ now \in Nat /\ now <= MaxTime /\ drift \in Nat /\ drift <= Skew
           /\ offset \in Int /\ Skew \in Nat /\ Lag \in Nat /\ MaxTime \in Nat
           /\ Wall \in Int
<1>1. now \in 0 .. MaxTime /\ drift \in 0 .. Skew /\ offset \in Offsets
  BY DEF NginxInv, Typed, TypeOK
<1>2. Skew \in Nat /\ Lag \in Nat /\ MaxTime \in Nat /\ Offsets \subseteq Int
  BY NginxAssumption
<1> QED BY <1>1, <1>2 DEF Wall

\* Time passes, and the upstreams are busy with the tries under way.
LEMMA TickKeeps == ASSUME NginxInv, Tick PROVE NginxInv'
<1>1. PICK elapsed \in 0 .. 1, ahead \in 0 .. Skew :
        /\ now + elapsed <= MaxTime /\ elapsed + ahead >= drift
        /\ now' = now + elapsed /\ drift' = ahead
        /\ busy' = [r \in Requests |-> busy[r] + IF Trying(r) THEN elapsed ELSE 0]
  BY DEF Tick
<1>2. UNCHANGED <<offset, masterVars, process, request, moved, records>>
  BY DEF Tick
<1>3. /\ now \in Nat /\ now' \in Nat /\ now' \in 0 .. MaxTime /\ elapsed \in Nat
      /\ now' >= now /\ drift' \in Nat /\ drift' \in 0 .. Skew
  BY <1>1, OfClocks
<1>4. ASSUME NEW r \in Requests
      PROVE  /\ busy'[r] = busy[r] + (IF Trying(r) THEN elapsed ELSE 0)
             /\ busy[r] \in 0 .. now /\ busy'[r] \in 0 .. now'
  <2>1. busy[r] \in 0 .. now
    BY OfRequest
  <2>2. busy'[r] = busy[r] + (IF Trying(r) THEN elapsed ELSE 0)
    BY <1>1
  <2>3. CASE Trying(r)
    BY <2>1, <2>2, <2>3, <1>1, <1>3, SMT
  <2>4. CASE ~Trying(r)
    BY <2>1, <2>2, <2>4, <1>1, <1>3, SMT
  <2> QED BY <2>3, <2>4
<1>5. Typed'
  <2>1. 0 .. now \subseteq 0 .. now'
    BY <1>3, SMT
  <2>2. Seq({Untimed} \cup (0 .. now)) \subseteq Seq({Untimed} \cup (0 .. now'))
    BY <2>1
  <2>3. \A r \in Requests :
          /\ request[r].start \in Int /\ moved[r] \in Int /\ busy'[r] \in 0 .. now'
          /\ request[r].begun \in {Untimed} \cup (0 .. now')
          /\ request[r].tries \in Seq({Untimed} \cup (0 .. now'))
    BY <2>1, <2>2, <1>4, OfRequest
  <2>4. TypeOK'
    BY <1>2, <1>3, <2>3 DEF NginxInv, Typed, TypeOK
  <2>5. busy' = [r \in Requests |-> busy'[r]]
    BY <1>1
  <2> QED BY <1>2, <2>4, <2>5 DEF NginxInv, Typed
<1>6. ASSUME NEW p \in Processes PROVE ProcessInv(p)'
  BY <1>2 DEF NginxInv, ProcessInv, SettingsOf
<1>7. ASSUME NEW r \in Requests PROVE RequestInv(r)' /\ TimeInv(r)'
  <2>1. RequestInv(r) /\ TimeInv(r)
    BY OfRequest
  <2>2. RequestInv(r)'
    <3>1. request[r].pc \in {"new", "done"} => busy'[r] = busy[r]
      BY <1>4, OfRequest DEF Trying
    <3> QED BY <2>1, <3>1, <1>2 DEF RequestInv, Logged, SettingsOf
  <2> DEFINE total == Total(request[r].tries)
             t == IF Trying(r) THEN elapsed ELSE 0
  <2>3. request[r].begun \in {Untimed} \cup (0 .. now) /\ busy[r] \in Nat
        /\ request[r].start \in Int /\ moved[r] \in Int
    BY OfRequest
  <2>4. t \in Nat /\ t <= elapsed /\ busy'[r] = busy[r] + t
    BY <1>3, <1>4
  <2>5. ASSUME request[r].pc # "lost"
        PROVE  LET tries == request[r].tries
               IN  /\ IsFiniteSet(Ticks(tries)) /\ total + Pending(r)' <= busy'[r]
                   /\ Untimed \notin ToSet(tries) => total + Pending(r)' = busy'[r]
    <3>1. IsFiniteSet(Ticks(request[r].tries)) /\ total \in Nat
      BY <2>1, <2>5, FS_CardinalityType DEF TimeInv, Total
    <3>2. Trying(r) <=> request[r].begun # Untimed
      BY <2>1, <2>5, OfRequest DEF RequestInv, RequestRecords, Trying, Fresh
    <3>3. Pending(r)' = Pending(r) + t /\ Pending(r) \in Int
      BY <2>3, <3>2, <1>1, <1>2, <1>3 DEF Pending, Untimed
    <3>4. /\ total + Pending(r) <= busy[r]
          /\ Untimed \notin ToSet(request[r].tries) => total + Pending(r) = busy[r]
      BY <2>1, <2>5 DEF TimeInv
    <3> HIDE DEF t, total
    <3> QED BY <2>3, <2>4, <3>1, <3>3, <3>4
  <2>6. ASSUME request[r].pc = "serving" PROVE ClockInv(r)'
    <3>1. /\ request[r].start + moved[r] <= now + drift + offset
          /\ request[r].start + busy[r] + moved[r] <= now + offset + Skew
      BY <2>1, <2>6 DEF TimeInv, ClockInv, Wall
    <3> HIDE DEF t
    <3>2. /\ request[r].start + moved[r] <= now' + drift' + offset
          /\ request[r].start + busy'[r] + moved[r] <= now' + offset + Skew
      BY <1>1, <1>3, <2>3, <2>4, <3>1, OfClocks
    <3> QED BY <1>2, <3>2 DEF ClockInv, Wall
  <2>7. TimeInv(r)'
    BY <1>2, <2>5, <2>6 DEF TimeInv
  <2> QED BY <2>2, <2>7
<1> QED BY <1>5, <1>6, <1>7 DEF NginxInv

\* The wall clock is set; every request that is served notices.
LEMMA SetClockKeeps == ASSUME NginxInv, SetClock PROVE NginxInv'
<1>1. PICK to \in Offsets :
        /\ offset' = to
        /\ moved' = [r \in Requests |-> moved[r] + IF request[r].pc = "serving"
                                                   THEN to - offset ELSE 0]
  BY DEF SetClock
<1>2. UNCHANGED <<now, drift, masterVars, process, request, busy, records>>
  BY DEF SetClock
<1>3. to \in Int
  BY NginxAssumption
<1>4. ASSUME NEW r \in Requests
      PROVE  /\ moved[r] \in Int /\ moved'[r] \in Int
             /\ moved'[r] = moved[r] + (IF request[r].pc = "serving" THEN to - offset
                                        ELSE 0)
             /\ request[r].pc # "serving" => moved'[r] = moved[r]
  <2>1. moved[r] \in Int /\ offset \in Int
    BY OfRequest, OfClocks
  <2> QED BY <1>1, <1>3, <2>1
<1>5. Typed'
  <2>1. TypeOK'
    BY <1>1, <1>2, <1>4 DEF NginxInv, Typed, TypeOK
  <2>2. moved' = [r \in Requests |-> moved'[r]]
    BY <1>1
  <2> QED BY <1>2, <2>1, <2>2 DEF NginxInv, Typed
<1>6. ASSUME NEW p \in Processes PROVE ProcessInv(p)'
  BY <1>2 DEF NginxInv, ProcessInv, SettingsOf
<1>7. ASSUME NEW r \in Requests PROVE RequestInv(r)' /\ TimeInv(r)'
  <2>1. RequestInv(r) /\ TimeInv(r)
    BY OfRequest
  <2>2. RequestInv(r)'
    BY <2>1, <1>2, <1>4 DEF RequestInv, Logged, SettingsOf
  <2>3. ASSUME request[r].pc = "serving" PROVE ClockInv(r)'
    <3>1. /\ request[r].start + moved[r] <= now + drift + offset
          /\ request[r].start + busy[r] + moved[r] <= now + offset + Skew
      BY <2>1, <2>3 DEF TimeInv, ClockInv, Wall
    <3>2. moved'[r] = moved[r] + (to - offset)
      BY <1>4, <2>3
    <3>3. request[r].start \in Int /\ busy[r] \in Nat
      BY OfRequest
    <3>4. /\ request[r].start + moved'[r] <= now + drift + to
          /\ request[r].start + busy[r] + moved'[r] <= now + to + Skew
      BY <1>3, <1>4, <3>1, <3>2, <3>3, OfClocks
    <3> QED BY <1>1, <1>2, <3>4 DEF ClockInv, Wall
  <2>4. TimeInv(r)'
    BY <2>1, <2>3, <1>2 DEF TimeInv, Pending
  <2> QED BY <2>2, <2>4
<1> QED BY <1>5, <1>6, <1>7 DEF NginxInv

-----------------------------------------------------------------------------
(* Requests. *)

\* A request that has not come yet.
LEMMA FreshIsFine == /\ Fresh \in RequestRecords /\ Fresh.pc = "new"
                     /\ Fresh.start = 0 /\ Fresh.begun = Untimed /\ Fresh.tries = <<>>
<1>1. <<0, 0>> \in Processes /\ <<>> \in Seq({Untimed} \cup Nat)
  BY Places
<1> QED BY <1>1 DEF Fresh, RequestRecords

\* A worker of the running cycle or an older one accepts a request.
LEMMA AcceptKeeps ==
    ASSUME NginxInv, NEW r \in Requests, NEW p \in Processes, Accept(r, p)
    PROVE  NginxInv'
<1> DEFINE ready == process[p].agent.state = "ready"
           v == [Fresh EXCEPT !.pc = "serving", !.at = p, !.start = Wall,
                              !.armed = ready]
<1>1. /\ process[p].up /\ request[r].pc = "new"
      /\ request' = [request EXCEPT ![r] = v]
      /\ UNCHANGED <<clocks, masterVars, process, history, records>>
  BY DEF Accept
<1>2. /\ v \in RequestRecords
      /\ v.pc = "serving" /\ v.at = p /\ v.start = Wall /\ v.begun = Untimed
      /\ v.tries = <<>> /\ v.armed = ready
  <2>1. ready \in BOOLEAN
    OBVIOUS
  <2> HIDE DEF ready
  <2>2. Fresh \in RequestRecords /\ Fresh.begun = Untimed /\ Fresh.tries = <<>>
    BY FreshIsFine
  <2> QED BY <2>1, <2>2, OfClocks DEF RequestRecords
<1> HIDE DEF v
<1>3. request'[r] = v
  BY <1>1 DEF NginxInv, Typed
<1>4. RequestInv(r) /\ now \in Nat /\ MaxTries \in Nat /\ p[1] <= cycle
  BY <1>1, OfRequest, OfProcess, NginxAssumption DEF ProcessInv
<1>5. spans[r] = <<>> /\ handles[r] = <<>> /\ busy[r] = 0 /\ moved[r] = 0
  BY <1>1, <1>4 DEF RequestInv
<1>6. spans' = [spans EXCEPT ![r] = <<>>] /\ handles' = [handles EXCEPT ![r] = <<>>]
  BY <1>1, <1>5 DEF NginxInv, Typed
<1>7. RequestInv(r)'
  BY <1>1, <1>2, <1>3, <1>4, <1>5 DEF RequestInv
<1>8. TimeInv(r)'
  <2>1. Untimed \notin ToSet(<<>>) /\ 0 + 0 <= 0
    BY DEF ToSet
  <2>2. /\ request'[r].tries = <<>> /\ Pending(r)' = 0 /\ request'[r].start = Wall
        /\ busy'[r] = 0 /\ moved'[r] = 0
        /\ now' = now /\ drift' = drift /\ offset' = offset
    BY <1>1, <1>2, <1>3, <1>5 DEF Pending
  <2>3. ClockInv(r)'
    <3>1. Wall + 0 <= Wall /\ Wall + 0 + 0 <= now + offset + Skew
      BY OfClocks DEF Wall
    <3> QED BY <2>2, <3>1 DEF ClockInv, Wall
  <2> QED BY <2>1, <2>2, <2>3, NoTries DEF TimeInv
<1>9. v.tries \in Seq({Untimed} \cup (0 .. now)) /\ Len(v.tries) <= MaxTries
      /\ v.begun \in {Untimed} \cup (0 .. now)
  BY <1>2, <1>4
<1> QED BY <1>1, <1>2, <1>4, <1>6, <1>7, <1>8, <1>9, OneRequest

\* The request goes to an upstream.
LEMMA BeginTryKeeps ==
    ASSUME NginxInv, NEW r \in Requests, BeginTry(r) PROVE NginxInv'
<1> DEFINE v == [request[r] EXCEPT !.begun = now]
<1>1. /\ request[r].pc = "serving" /\ request[r].begun = Untimed
      /\ Len(request[r].tries) < MaxTries
      /\ request' = [request EXCEPT ![r] = v]
      /\ UNCHANGED <<clocks, masterVars, process, history, records>>
  BY DEF BeginTry, Trying
<1>2. /\ v \in RequestRecords /\ v.pc = "serving" /\ v.at = request[r].at
      /\ v.start = request[r].start /\ v.armed = request[r].armed
      /\ v.begun = now /\ v.tries = request[r].tries
  BY <1>1, OfRequest DEF RequestRecords
<1> HIDE DEF v
<1>3. request'[r] = v
  BY <1>1 DEF NginxInv, Typed
<1>4. RequestInv(r) /\ TimeInv(r) /\ now \in Nat /\ now # Untimed
  BY OfRequest DEF Untimed
<1>5. spans[r] = <<>> /\ handles[r] = <<>>
  BY <1>1, <1>4 DEF RequestInv
<1>6. spans' = [spans EXCEPT ![r] = <<>>] /\ handles' = [handles EXCEPT ![r] = <<>>]
  BY <1>1, <1>5 DEF NginxInv, Typed
<1>7. RequestInv(r)'
  BY <1>1, <1>2, <1>3, <1>4, <1>5 DEF RequestInv, Logged, SettingsOf
<1>8. TimeInv(r)'
  <2>1. Pending(r) = 0 /\ Pending(r)' = 0
    BY <1>1, <1>2, <1>3, <1>4 DEF Pending
  <2> QED BY <1>1, <1>2, <1>3, <1>4, <2>1 DEF TimeInv, ClockInv, Wall
<1>9. now \in 0 .. now
  BY <1>4, SMT
<1> QED BY <1>1, <1>2, <1>6, <1>7, <1>8, <1>9, OfRequest, OneRequest

\* A try is over, timed or not.
LEMMA EndTryKeeps ==
    ASSUME NginxInv, NEW r \in Requests, EndTry(r) PROVE NginxInv'
<1>1. PICK time \in {now - request[r].begun, Untimed} :
        request' = [request EXCEPT ![r].begun = Untimed,
                                   ![r].tries = Append(@, time)]
  BY DEF EndTry
<1> DEFINE tries == request[r].tries
           begun == request[r].begun
           more == Append(tries, time)
           v == [request[r] EXCEPT !.begun = Untimed, !.tries = more]
<1>2. /\ request[r].pc = "serving" /\ begun # Untimed
      /\ UNCHANGED <<clocks, masterVars, process, history, records>>
  BY DEF EndTry, Trying
<1>3. request' = [request EXCEPT ![r] = v] /\ request'[r] = v
  BY <1>1 DEF NginxInv, Typed
<1>4. /\ RequestInv(r) /\ TimeInv(r) /\ now \in Nat /\ begun \in 0 .. now
      /\ busy[r] \in Nat /\ tries \in Seq({Untimed} \cup (0 .. now))
      /\ tries \in Seq({Untimed} \cup Nat)
      /\ request[r] \in RequestRecords
  BY <1>2, OfRequest
<1> DEFINE took == now - begun
<1>5. took \in 0 .. now /\ took \in Nat /\ took # Untimed
  BY <1>4 DEF Untimed
<1>6. time \in {took, Untimed}
  BY <1>1
<1> HIDE DEF took
<1>7. time \in {Untimed} \cup (0 .. now) /\ time \in {Untimed} \cup Nat
  BY <1>5, <1>6
<1>8. more \in Seq({Untimed} \cup (0 .. now)) /\ more \in Seq({Untimed} \cup Nat)
  BY <1>4, <1>7
<1>9. Len(more) <= MaxTries
  <2>1. Len(tries) < MaxTries /\ Len(tries) \in Nat /\ MaxTries \in Nat
        /\ Len(more) = Len(tries) + 1
    BY <1>2, <1>4, NginxAssumption DEF RequestInv
  <2> HIDE DEF tries, more
  <2> QED BY <2>1, SMT
<1>10. /\ v \in RequestRecords /\ v.pc = "serving" /\ v.at = request[r].at
       /\ v.start = request[r].start /\ v.armed = request[r].armed
       /\ v.begun = Untimed /\ v.tries = more
  <2> HIDE DEF more
  <2> QED BY <1>2, <1>4, <1>8 DEF RequestRecords
<1> HIDE DEF v
<1>11. spans[r] = <<>> /\ handles[r] = <<>>
  BY <1>2, <1>4 DEF RequestInv
<1>12. spans' = [spans EXCEPT ![r] = <<>>] /\ handles' = [handles EXCEPT ![r] = <<>>]
  BY <1>2, <1>11 DEF NginxInv, Typed
<1>13. RequestInv(r)'
  BY <1>2, <1>3, <1>4, <1>10, <1>11 DEF RequestInv, Logged, SettingsOf
<1>14. TimeInv(r)'
  <2>1. Pending(r) = took /\ Pending(r)' = 0
    BY <1>2, <1>3, <1>10 DEF Pending, took
  <2>2. /\ IsFiniteSet(Ticks(tries)) /\ Total(tries) + took <= busy[r]
        /\ Untimed \notin ToSet(tries) => Total(tries) + took = busy[r]
    BY <1>2, <1>4, <2>1 DEF TimeInv
  <2>3. /\ IsFiniteSet(Ticks(more)) /\ Total(tries) \in Nat
        /\ Total(more) = IF time = Untimed THEN Total(tries) ELSE Total(tries) + time
        /\ Untimed \notin ToSet(more) <=>
               Untimed \notin ToSet(tries) /\ time # Untimed
    BY <1>4, <1>7, <2>2, OneMoreTry
  <2> HIDE DEF more, tries
  <2>4. /\ Total(more) + 0 <= busy[r]
        /\ Untimed \notin ToSet(more) => Total(more) + 0 = busy[r]
    BY <2>2, <2>3, <1>4, <1>5, <1>6
  <2>5. ClockInv(r)'
    BY <1>2, <1>3, <1>4, <1>10 DEF TimeInv, ClockInv, Wall
  <2> QED BY <1>2, <1>3, <1>10, <2>1, <2>3, <2>4, <2>5 DEF TimeInv
<1>15. /\ v.begun \in {Untimed} \cup (0 .. now)
       /\ v.tries \in Seq({Untimed} \cup (0 .. now)) /\ Len(v.tries) <= MaxTries
  BY <1>8, <1>9, <1>10, OfRequest
<1> QED BY <1>2, <1>3, <1>10, <1>12, <1>13, <1>14, <1>15, OneRequest

-----------------------------------------------------------------------------
(* log_handler. *)

\* A subrequest that nginx logs records nothing.
LEMMA SubrequestKeeps ==
    ASSUME NginxInv, NEW r \in Requests, Subrequest(r) PROVE NginxInv'
<1>1. UNCHANGED vars
  BY DEF Subrequest, LogHandler, vars
<1> QED BY <1>1, StutterKeeps

\* The agent is asked for the span of a request: what it gives is on record, and so is
\* the span if it is sampled.
LEMMA NewSpanLogs ==
    ASSUME NginxInv, NEW r \in Requests, NewSpan(r),
           request[r].pc = "serving", request[r].begun = Untimed,
           process[request[r].at].agent.state = "ready"
    PROVE  \E handle, s :
              LET v == request[r]
                  c == v.at[1]
                  list == IF handle = "sampled" THEN <<s>> ELSE <<>>
              IN  /\ handle \in Handles
                  /\ Reports(s, v, config[c].enable, SettingsOf(c), busy[r], moved[r])
                  /\ handles' = [handles EXCEPT ![r] = <<handle>>]
                  /\ spans' = [spans EXCEPT ![r] = list]
<1>1. PICK handle \in Handles, end \in Wall .. Wall + Lag :
        /\ handles' = [handles EXCEPT ![r] = Append(handles[r], handle)]
        /\ spans' = IF handle = "sampled"
                    THEN [spans EXCEPT ![r] = Append(spans[r], RecordedSpan(r, end))]
                    ELSE spans
  BY DEF NewSpan
<1> DEFINE v == request[r]
           c == v.at[1]
           s == RecordedSpan(r, end)
<1>2. /\ RequestInv(r) /\ TimeInv(r) /\ v.at \in Processes /\ ProcessInv(v.at)
      /\ v.start \in Int /\ busy[r] \in Nat /\ moved[r] \in Int
  BY OfRequest, OfProcess
<1>3. handles[r] = <<>> /\ spans[r] = <<>>
  BY <1>2 DEF RequestInv
<1>4. Append(<<>>, handle) = <<handle>> /\ Append(<<>>, s) = <<s>>
  OBVIOUS
<1>5. Reports(s, v, config[c].enable, SettingsOf(c), busy[r], moved[r])
  <2>1. /\ s.start = v.start /\ s.end = end /\ s.events = Upstream(r, end)
        /\ s.settings = process[v.at].agent.settings
    BY DEF RecordedSpan
  <2>2. end \in Int /\ Wall \in Int /\ Wall <= end /\ end <= Wall + Lag
    BY OfClocks
  <2>3. /\ v.start + moved[r] <= Wall
        /\ v.start + busy[r] + moved[r] <= now + offset + Skew
    BY <1>2 DEF TimeInv, ClockInv
  <2>4. v.start + moved[r] <= end /\ v.start + busy[r] + moved[r] <= Wall + Skew
    <3>1. now + offset + Skew <= Wall + Skew
      BY OfClocks DEF Wall
    <3> QED BY <1>2, <2>2, <2>3, <3>1, OfClocks
  <2>5. Upstream(r, end) = IF v.tries = <<>> THEN <<>>
                           ELSE <<[start |-> Wall - Total(v.tries), end |-> end]>>
    BY DEF Upstream
  <2>6. config[c].enable /\ s.settings = SettingsOf(c)
    BY <1>2, <2>1 DEF ProcessInv
  <2> HIDE DEF s, v
  <2> QED BY <2>1, <2>2, <2>4, <2>5, <2>6 DEF Reports
<1>6. /\ handles' = [handles EXCEPT ![r] = <<handle>>]
      /\ spans' = [spans EXCEPT ![r] = IF handle = "sampled" THEN <<s>> ELSE <<>>]
  <2> HIDE DEF s
  <2>1. CASE handle = "sampled"
    BY <2>1, <1>1, <1>3, <1>4 DEF s
  <2>2. CASE handle # "sampled"
    BY <2>2, <1>1, <1>3, <1>4 DEF NginxInv, Typed
  <2> QED BY <2>1, <2>2
<1> QED BY <1>5, <1>6

\* The request is over: it leaves what the agent gave for it, or nothing if no agent
\* is there.
LEMMA CompleteKeeps ==
    ASSUME NginxInv, NEW r \in Requests, Complete(r) PROVE NginxInv'
<1> DEFINE v == [request[r] EXCEPT !.pc = "done"]
           at == request[r].at
           c == at[1]
           ready == process[at].agent.state = "ready"
<1>1. /\ request[r].pc = "serving" /\ request[r].begun = Untimed
      /\ request' = [request EXCEPT ![r] = v] /\ LogHandler(r, TRUE)
      /\ UNCHANGED <<clocks, masterVars, process, history>>
  BY DEF Complete, Trying
<1>2. /\ RequestInv(r) /\ TimeInv(r) /\ at \in Processes
      /\ request[r] \in RequestRecords
  BY OfRequest
<1>3. /\ v \in RequestRecords /\ v.pc = "done" /\ v.at = at
      /\ v.start = request[r].start /\ v.armed = request[r].armed
      /\ v.begun = Untimed /\ v.tries = request[r].tries
  BY <1>1, <1>2 DEF RequestRecords
<1> HIDE DEF v
<1>4. request'[r] = v
  BY <1>1 DEF NginxInv, Typed
<1>5. PICK asked, list :
        /\ handles' = [handles EXCEPT ![r] = asked]
        /\ spans' = [spans EXCEPT ![r] = list]
        /\ \/ asked = <<>> /\ list = <<>> /\ ~v.armed
           \/ \E handle \in Handles \ {"sampled"} : asked = <<handle>> /\ list = <<>>
           \/ /\ asked = <<"sampled">>
              /\ \E s : /\ list = <<s>>
                        /\ Reports(s, v, config[c].enable, SettingsOf(c), busy[r], moved[r])
  <2>1. CASE ready
    <3>1. NewSpan(r)
      BY <2>1, <1>1 DEF LogHandler, Ready
    <3>2. PICK handle, s :
            /\ handle \in Handles
            /\ Reports(s, request[r], config[c].enable, SettingsOf(c), busy[r], moved[r])
            /\ handles' = [handles EXCEPT ![r] = <<handle>>]
            /\ spans' = [spans EXCEPT ![r] = IF handle = "sampled" THEN <<s>> ELSE <<>>]
      BY <2>1, <3>1, <1>1, NewSpanLogs
    <3>3. Reports(s, v, config[c].enable, SettingsOf(c), busy[r], moved[r])
      BY <3>2, <1>3 DEF Reports
    <3>4. CASE handle = "sampled"
      BY <3>2, <3>3, <3>4
    <3>5. CASE handle # "sampled"
      BY <3>2, <3>5
    <3> QED BY <3>4, <3>5
  <2>2. CASE ~ready
    <3>1. ~v.armed
      BY <2>2, <1>1, <1>2, <1>3 DEF RequestInv
    <3>2. handles[r] = <<>> /\ spans[r] = <<>> /\ UNCHANGED records
      BY <2>2, <1>1, <1>2 DEF RequestInv, LogHandler, Ready
    <3>3. /\ handles' = [handles EXCEPT ![r] = <<>>]
          /\ spans' = [spans EXCEPT ![r] = <<>>]
      BY <3>2 DEF NginxInv, Typed
    <3> QED BY <3>1, <3>3
  <2> QED BY <2>1, <2>2
<1>6. handles'[r] = asked /\ spans'[r] = list
  BY <1>5 DEF NginxInv, Typed
<1>7. Logged(r)'
  BY <1>1, <1>3, <1>4, <1>5, <1>6 DEF Logged, SettingsOf
<1>8. RequestInv(r)'
  <2>1. v.at[1] <= cycle
    BY <1>1, <1>2, <1>3 DEF RequestInv
  <2> QED BY <1>1, <1>3, <1>4, <1>7, <2>1 DEF RequestInv
<1>9. TimeInv(r)'
  BY <1>1, <1>2, <1>3, <1>4 DEF TimeInv, Pending
<1> QED BY <1>1, <1>3, <1>5, <1>8, <1>9, OfRequest, OneRequest

-----------------------------------------------------------------------------
(* The invariant. *)

\* Nothing was forked, and no request has come.
LEMMA InitNginx == ASSUME Init PROVE NginxInv
<1>1. /\ now = 0 /\ cycle = 0 /\ crashes = 0
      /\ process = [p \in Processes |-> Unforked]
      /\ request = [r \in Requests |-> Fresh]
      /\ busy = [r \in Requests |-> 0] /\ moved = [r \in Requests |-> 0]
      /\ handles = [r \in Requests |-> <<>>] /\ spans = [r \in Requests |-> <<>>]
      /\ drift = 0 /\ offset = 0
  BY DEF Init
<1>2. 0 \in 0 .. MaxCycle /\ 0 \in 0 .. MaxTime /\ 0 \in 0 .. MaxCrashes
      /\ MaxTries \in Nat /\ 0 \in 0 .. 0 /\ 0 <= MaxTries
      /\ Skew \in Nat /\ 0 \in 0 .. Skew /\ 0 \in Offsets
  BY NginxAssumption
<1>3. config \in [0 .. MaxCycle -> MainConfs]
  <2>1. PICK conf \in Configs[0] : config = [c \in 0 .. MaxCycle |-> conf]
    BY DEF Init
  <2>2. conf \in MainConfs
    BY <1>2, NginxAssumption
  <2> QED BY <2>1, <2>2
<1>4. /\ process \in [Processes -> ProcessRecords]
      /\ request \in [Requests -> RequestRecords]
  BY <1>1, UnforkedIsFine, FreshIsFine
<1>5. Typed
  <2>1. \A r \in Requests :
          /\ request[r] = Fresh /\ busy[r] = 0 /\ moved[r] = 0
          /\ <<>> \in Seq({Untimed} \cup (0 .. 0)) /\ Len(<<>>) = 0
    BY <1>1
  <2>2. TypeOK
    <3>1. /\ now \in 0 .. MaxTime /\ drift \in 0 .. Skew /\ offset \in Offsets
          /\ cycle \in 0 .. MaxCycle /\ crashes \in 0 .. MaxCrashes
          /\ config \in [0 .. MaxCycle -> MainConfs]
      BY <1>1, <1>2, <1>3
    <3>2. process \in [Processes -> ProcessRecords]
      BY <1>4
    <3>3. ASSUME NEW r \in Requests
          PROVE  /\ request[r].pc \in {"new", "serving", "done", "lost"}
                 /\ request[r].start \in Int /\ moved[r] \in Int /\ busy[r] \in 0 .. now
                 /\ request[r].begun \in {Untimed} \cup (0 .. now)
                 /\ request[r].tries \in Seq({Untimed} \cup (0 .. now))
                 /\ Len(request[r].tries) <= MaxTries
      <4>1. now = 0 /\ MaxTries \in Nat
        BY <1>1, <1>2
      <4>2. Fresh.tries \in Seq({Untimed} \cup (0 .. 0)) /\ Len(Fresh.tries) <= MaxTries
        BY <2>1, <4>1, FreshIsFine
      <4>3. request[r] = Fresh /\ busy[r] = 0 /\ moved[r] = 0
        BY <2>1
      <4> QED BY <4>1, <4>2, <4>3, FreshIsFine
    <3> QED BY <3>1, <3>2, <3>3 DEF TypeOK, ProcessRecords, AgentRecords
  <2> QED BY <1>1, <1>4, <2>2 DEF Typed
<1>6. ASSUME NEW p \in Processes PROVE ProcessInv(p)
  BY <1>1, UnforkedIsFine DEF ProcessInv, SettingsOf
<1>7. ASSUME NEW r \in Requests PROVE RequestInv(r) /\ TimeInv(r)
  <2>1. /\ request[r] = Fresh /\ busy[r] = 0 /\ moved[r] = 0
        /\ handles[r] = <<>> /\ spans[r] = <<>>
    BY <1>1
  <2>2. RequestInv(r)
    BY <2>1, FreshIsFine DEF RequestInv
  <2>3. TimeInv(r)
    BY <1>1, <2>1, FreshIsFine, NoTries DEF TimeInv, ClockInv, Wall, Pending, ToSet
  <2> QED BY <2>2, <2>3
<1> QED BY <1>5, <1>6, <1>7 DEF NginxInv

\* Every step keeps the invariant.
LEMMA NextNginx == ASSUME NginxInv, [Next]_vars PROVE NginxInv'
<1>1. ASSUME NEW p \in Processes, Fork(p) PROVE NginxInv'
  BY <1>1, ForkKeeps
<1>2. ASSUME NEW p \in Processes, Register(p) PROVE NginxInv'
  BY <1>2, RegisterKeeps
<1>3. ASSUME NEW p \in Processes, Exit(p) PROVE NginxInv'
  BY <1>3, ExitKeeps
<1>4. ASSUME NEW p \in Processes, Crash(p) PROVE NginxInv'
  BY <1>4, CrashKeeps
<1>5. ASSUME NEW p \in Processes, NEW r \in Requests, Accept(r, p) PROVE NginxInv'
  BY <1>5, AcceptKeeps
<1>6. ASSUME NEW r \in Requests, BeginTry(r) PROVE NginxInv'
  BY <1>6, BeginTryKeeps
<1>7. ASSUME NEW r \in Requests, EndTry(r) PROVE NginxInv'
  BY <1>7, EndTryKeeps
<1>8. ASSUME NEW r \in Requests, Subrequest(r) PROVE NginxInv'
  BY <1>8, SubrequestKeeps
<1>9. ASSUME NEW r \in Requests, Complete(r) PROVE NginxInv'
  BY <1>9, CompleteKeeps
<1>10. CASE Rests \/ UNCHANGED vars
  BY <1>10, StutterKeeps DEF Rests
<1> QED BY <1>1, <1>2, <1>3, <1>4, <1>5, <1>6, <1>7, <1>8, <1>9, <1>10,
           ReloadKeeps, RetireKeeps, TickKeeps, SetClockKeeps DEF Next

\* NginxInv holds throughout.
THEOREM NginxInvariance == Spec => []NginxInv
BY InitNginx, NextNginx, PTL DEF Spec

\* Requests, processes and times have their types in every run of nginx.
THEOREM NginxTypeCorrect == Spec => []TypeOK
<1>1. NginxInv => TypeOK
  BY DEF NginxInv, Typed
<1> QED BY <1>1, NginxInvariance, PTL

\* What the invariant says of a span on record.
LEMMA OfSpan ==
    ASSUME NginxInv, NEW r \in Requests, NEW i \in DOMAIN spans[r]
    PROVE  LET c == request[r].at[1]
           IN  /\ request[r].pc = "done" /\ spans[r] = <<spans[r][i]>>
               /\ Reports(spans[r][i], request[r], config[c].enable, SettingsOf(c),
                          busy[r], moved[r])
<1>1. RequestInv(r) /\ request[r].pc \in {"new", "serving", "done", "lost"}
  BY OfRequest DEF RequestRecords
<1>2. spans[r] # <<>>
  OBVIOUS
<1>3. request[r].pc = "done" /\ Logged(r)
  BY <1>1, <1>2 DEF RequestInv
<1>4. PICK s : /\ spans[r] = <<s>>
               /\ LET c == request[r].at[1]
                  IN  Reports(s, request[r], config[c].enable, SettingsOf(c),
                              busy[r], moved[r])
  BY <1>2, <1>3 DEF Logged
<1>5. spans[r][i] = s
  BY <1>4
<1> QED BY <1>3, <1>4, <1>5

\* log_handler asks the agent for at most one span of a request, in whatever order
\* subrequests, reloads, crashes and registrations come, and for one if its worker was
\* ready; and the request is recorded just if that span was sampled.
THEOREM OnceTraced == Spec => []TracedOnce
<1>1. ASSUME NginxInv, NEW r \in Requests
      PROVE  /\ Len(handles[r]) <= 1 /\ Len(spans[r]) <= 1
             /\ handles[r] # <<>> => request[r].pc = "done"
             /\ request[r].pc = "done" /\ request[r].armed => handles[r] # <<>>
             /\ spans[r] # <<>> <=> handles[r] = <<"sampled">>
  <2>1. RequestInv(r)
    BY <1>1, OfRequest
  <2>2. /\ \A s : Len(<<s>>) <= 1 /\ <<s>> # <<>>
        /\ Len(<<>>) <= 1 /\ <<>> # <<"sampled">>
    OBVIOUS
  <2>3. CASE request[r].pc # "done"
    BY <2>1, <2>2, <2>3 DEF RequestInv
  <2>4. CASE request[r].pc = "done" /\ handles[r] = <<>> /\ spans[r] = <<>>
             /\ ~request[r].armed
    BY <2>2, <2>4
  <2>5. ASSUME NEW handle \in Handles \ {"sampled"}, request[r].pc = "done",
               handles[r] = <<handle>>, spans[r] = <<>>
        PROVE  /\ Len(handles[r]) <= 1 /\ Len(spans[r]) <= 1
               /\ handles[r] # <<>> /\ handles[r] # <<"sampled">>
    <3>1. handle # "sampled" /\ <<handle>> # <<"sampled">>
      OBVIOUS
    <3> QED BY <2>2, <2>5, <3>1
  <2>6. CASE request[r].pc = "done" /\ handles[r] = <<"sampled">>
             /\ \E s : spans[r] = <<s>>
    BY <2>2, <2>6
  <2>7. request[r].pc = "done" => Logged(r)
    BY <2>1 DEF RequestInv
  <2> QED BY <2>3, <2>4, <2>5, <2>6, <2>7 DEF Logged
<1>2. NginxInv => TracedOnce
  BY <1>1 DEF TracedOnce
<1> QED BY <1>2, NginxInvariance, PTL

\* The one event of record_upstream takes the time upstreams were busy with the request,
\* if every try was timed, and begins no earlier than its span but for what the clocks
\* were rounded apart and the wall clock was set back: for any number of tries, any
\* skew, and a wall clock set as often and as far as one likes.
THEOREM EventFits == Spec => []EventFitsSpan
<1>1. ASSUME NginxInv, NEW r \in Requests, NEW i \in DOMAIN spans[r]
      PROVE  LET span == spans[r][i]
             IN  /\ span.start + moved[r] <= span.end
                 /\ \A j \in DOMAIN span.events :
                      LET event == span.events[j]
                          took == event.end - event.start
                      IN  /\ event.start <= event.end /\ event.end <= span.end
                          /\ took <= busy[r] + Lag
                          /\ Untimed \notin ToSet(request[r].tries) => busy[r] <= took
                          /\ span.start + moved[r] <= event.start + Skew
  <2> DEFINE s == spans[r][i]
             tries == request[r].tries
             total == Total(tries)
             timed == Untimed \notin ToSet(tries)
             c == request[r].at[1]
  <2>1. /\ request[r].pc = "done"
        /\ Reports(s, request[r], config[c].enable, SettingsOf(c), busy[r], moved[r])
    BY <1>1, OfSpan
  <2>2. RequestInv(r) /\ TimeInv(r) /\ busy[r] \in Nat /\ request[r].start \in Int
        /\ moved[r] \in Int /\ Lag \in Nat /\ Skew \in Nat
    BY <1>1, OfRequest, OfClocks
  <2>3. Pending(r) = 0
    BY <2>1, <2>2 DEF RequestInv, Pending
  <2>4. total \in Nat
    BY <2>1, <2>2, FS_CardinalityType DEF TimeInv, Total
  <2>5. total + 0 <= busy[r] /\ (timed => total + 0 = busy[r])
    BY <2>1, <2>2, <2>3 DEF TimeInv
  <2>6. PICK end \in Int :
          /\ s.events = IF tries = <<>> THEN <<>>
                        ELSE <<[start |-> end - total, end |-> s.end]>>
          /\ end <= s.end /\ s.end <= end + Lag
          /\ request[r].start + busy[r] + moved[r] <= end + Skew
    BY <2>1 DEF Reports
  <2>7. s.start = request[r].start /\ s.end \in Int
        /\ request[r].start + moved[r] <= s.end
    BY <2>1 DEF Reports
  <2> HIDE DEF total, timed
  <2>8. /\ end - total <= s.end /\ s.end <= s.end
        /\ s.end - (end - total) <= busy[r] + Lag
        /\ timed => busy[r] <= s.end - (end - total)
        /\ s.start + moved[r] <= (end - total) + Skew
    <3> HIDE DEF s
    <3>1. end - total <= s.end /\ s.end <= s.end
      BY <2>4, <2>6, <2>7
    <3>2. s.end - (end - total) <= busy[r] + Lag
      BY <2>2, <2>4, <2>5, <2>6, <2>7
    <3>3. timed => busy[r] <= s.end - (end - total)
      BY <2>2, <2>4, <2>5, <2>6, <2>7
    <3>4. s.start + moved[r] <= (end - total) + Skew
      BY <2>2, <2>4, <2>5, <2>6, <2>7
    <3> QED BY <3>1, <3>2, <3>3, <3>4
  <2>9. ASSUME NEW j \in DOMAIN s.events
        PROVE  s.events[j].start = end - total /\ s.events[j].end = s.end
    <3> DEFINE event == [start |-> end - total, end |-> s.end]
    <3>1. s.events = <<event>>
      <4>1. s.events # <<>>
        BY <2>9
      <4> QED BY <2>6, <4>1
    <3>2. event.start = end - total /\ event.end = s.end
      OBVIOUS
    <3> HIDE DEF event, s
    <3>3. s.events[j] = event
      BY <2>9, <3>1
    <3> QED BY <3>2, <3>3
  <2> QED BY <2>7, <2>8, <2>9 DEF timed
<1>2. NginxInv => EventFitsSpan
  BY <1>1 DEF EventFitsSpan
<1> QED BY <1>2, NginxInvariance, PTL

\* init_process starts an agent only where the cycle of the process asks for one, with
\* that cycle's settings, and every span has the settings of the cycle that accepted its
\* request, for any number of reloads and any configurations.
THEOREM TracedByItsCycle == Spec => []AgentsWhereTraced
<1>1. ASSUME NginxInv, NEW p \in Processes, process[p].agent.state # "none"
      PROVE  /\ process[p].up /\ p[2] # 0 /\ config[p[1]].enable
             /\ process[p].agent.settings = SettingsOf(p[1])
  BY <1>1, OfProcess DEF ProcessInv
<1>2. ASSUME NginxInv, NEW r \in Requests, NEW i \in DOMAIN spans[r]
      PROVE  LET c == request[r].at[1]
             IN  config[c].enable /\ spans[r][i].settings = SettingsOf(c)
  BY <1>2, OfSpan DEF Reports
<1>3. NginxInv => AgentsWhereTraced
  BY <1>1, <1>2 DEF AgentsWhereTraced
<1> QED BY <1>3, NginxInvariance, PTL
=============================================================================
