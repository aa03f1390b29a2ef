------------------------------- MODULE SpanUse -------------------------------
(***************************************************************************)
(* The span records of a program, read as the state of SpanProtocol, and   *)
(* what a change of one record is in terms of the protocol.  The modules   *)
(* of the programs instantiate it to show that they follow the protocol.   *)
(***************************************************************************)
EXTENDS Integers, Sequences, TLAPS

CONSTANTS Spans, Events

VARIABLE span      \* span[s]: a record as in AgentApi

PhaseOf == [s \in Spans |-> span[s].phase]
StackOf == [s \in Spans |-> span[s].stack]
ErrorOf == [s \in Spans |-> span[s].error]
FailedOf == [s \in Spans |-> span[s].failed]

P == INSTANCE SpanProtocol
     WITH phase <- PhaseOf, stack <- StackOf, error <- ErrorOf, failed <- FailedOf

\* The program's spans follow the protocol.
FollowsProtocol == P!Spec

-----------------------------------------------------------------------------
(* Each change of a record that the agent's API makes is the abstract        *)
(* action of the same meaning.                                               *)

Blank(v) == v.phase = "none" /\ v.stack = <<>> /\ v.error = FALSE /\ v.failed = {}

\* The record of s becomes v, in a function with the right domain.
Becomes(s, v) == /\ s \in Spans
                 /\ span = [x \in Spans |-> span[x]]
                 /\ span' = [span EXCEPT ![s] = v]

Keeps(s, v, fields) ==
    /\ "phase" \in fields => v.phase = span[s].phase
    /\ "stack" \in fields => v.stack = span[s].stack
    /\ "error" \in fields => v.error = span[s].error
    /\ "failed" \in fields => v.failed = span[s].failed

\* An update of one record is an update of one entry of each abstract variable,
\* and none of a variable whose field stays the same.
LEMMA OneRecord ==
    ASSUME NEW s \in Spans, NEW v, Becomes(s, v)
    PROVE  /\ PhaseOf' = [PhaseOf EXCEPT ![s] = v.phase]
           /\ StackOf' = [StackOf EXCEPT ![s] = v.stack]
           /\ ErrorOf' = [ErrorOf EXCEPT ![s] = v.error]
           /\ FailedOf' = [FailedOf EXCEPT ![s] = v.failed]
           /\ v.phase = span[s].phase => PhaseOf' = PhaseOf
           /\ v.stack = span[s].stack => StackOf' = StackOf
           /\ v.error = span[s].error => ErrorOf' = ErrorOf
           /\ v.failed = span[s].failed => FailedOf' = FailedOf
           /\ PhaseOf[s] = span[s].phase /\ StackOf[s] = span[s].stack
           /\ ErrorOf[s] = span[s].error /\ FailedOf[s] = span[s].failed
<1>1. /\ \A x \in Spans : x # s => span'[x] = span[x]
      /\ span'[s] = v
  BY DEF Becomes
<1> QED BY <1>1 DEF PhaseOf, StackOf, ErrorOf, FailedOf

\* Records that stay the same leave the abstract state alone.
LEMMA SameRecords ==
    ASSUME UNCHANGED span PROVE UNCHANGED P!vars
BY DEF P!vars, PhaseOf, StackOf, ErrorOf, FailedOf

\* Blank records are the initial state of the protocol.
LEMMA BlankRecords ==
    ASSUME \A s \in Spans : Blank(span[s])
    PROVE  P!Init
BY DEF P!Init, Blank, PhaseOf, StackOf, ErrorOf, FailedOf

\* NewSpan is Start.
LEMMA MapStart ==
    ASSUME NEW s, NEW v, Becomes(s, v), span[s].phase = "none",
           v.phase = "open", Keeps(s, v, {"stack", "error", "failed"})
    PROVE  P!Next
<1>1. s \in Spans
  BY DEF Becomes
<1>2. /\ PhaseOf[s] = "none" /\ PhaseOf' = [PhaseOf EXCEPT ![s] = "open"]
      /\ StackOf' = StackOf /\ ErrorOf' = ErrorOf /\ FailedOf' = FailedOf
  BY <1>1, OneRecord DEF Keeps
<1>3. P!Start(s)
  BY <1>2 DEF P!Start
<1> QED BY <1>1, <1>3 DEF P!Next

\* NewSpanEvent is StartEvent.
LEMMA MapStartEvent ==
    ASSUME NEW s, NEW v, Becomes(s, v), span[s].phase = "open", NEW e \in Events,
           v.stack = Append(span[s].stack, e), Keeps(s, v, {"phase", "error", "failed"})
    PROVE  P!Next
<1>1. s \in Spans
  BY DEF Becomes
<1>2. /\ PhaseOf[s] = "open" /\ PhaseOf' = PhaseOf
      /\ StackOf' = [StackOf EXCEPT ![s] = Append(StackOf[s], e)]
      /\ ErrorOf' = ErrorOf /\ FailedOf' = FailedOf
  BY <1>1, OneRecord DEF Keeps
<1>3. P!StartEvent(s, e)
  BY <1>2 DEF P!StartEvent
<1> QED BY <1>1, <1>3 DEF P!Next

\* EndEvent of the innermost event is EndTopEvent.
LEMMA MapEndEvent ==
    ASSUME NEW s, NEW v, Becomes(s, v), span[s].phase = "open", NEW e,
           NEW bad \in BOOLEAN,
           span[s].stack # <<>>, span[s].stack[Len(span[s].stack)] = e,
           v.stack = SubSeq(span[s].stack, 1, Len(span[s].stack) - 1),
           v.failed = IF bad THEN span[s].failed \cup {e} ELSE span[s].failed,
           Keeps(s, v, {"phase", "error"})
    PROVE  P!Next
<1> DEFINE top == StackOf[s][Len(StackOf[s])]
<1>1. s \in Spans
  BY DEF Becomes
<1>2. /\ PhaseOf[s] = "open" /\ PhaseOf' = PhaseOf
      /\ StackOf[s] # <<>> /\ top = e
      /\ StackOf' = [StackOf EXCEPT ![s] = SubSeq(StackOf[s], 1, Len(StackOf[s]) - 1)]
      /\ ErrorOf' = ErrorOf
      /\ FailedOf' = [FailedOf EXCEPT ![s] = IF bad THEN FailedOf[s] \cup {e}
                                                    ELSE FailedOf[s]]
  BY <1>1, OneRecord DEF Keeps
<1>3. P!EndTopEvent(s, bad)
  BY <1>2 DEF P!EndTopEvent
<1> QED BY <1>1, <1>3 DEF P!Next

\* SetError on the span is RecordError, or changes nothing.
LEMMA MapSetError ==
    ASSUME NEW s, NEW v, Becomes(s, v), span[s].phase = "open",
           v.error = TRUE \/ v.error = span[s].error,
           Keeps(s, v, {"phase", "stack", "failed"})
    PROVE  [P!Next]_(P!vars)
<1>1. s \in Spans
  BY DEF Becomes
<1>2. /\ PhaseOf[s] = "open" /\ PhaseOf' = PhaseOf
      /\ StackOf' = StackOf /\ FailedOf' = FailedOf
      /\ ErrorOf' = [ErrorOf EXCEPT ![s] = TRUE] \/ ErrorOf' = ErrorOf
  BY <1>1, OneRecord DEF Keeps
<1>3. P!RecordError(s) \/ UNCHANGED P!vars
  BY <1>2 DEF P!RecordError, P!vars
<1> QED BY <1>1, <1>3 DEF P!Next

\* EndSpan on a span without open events is End.
LEMMA MapEnd ==
    ASSUME NEW s, NEW v, Becomes(s, v), span[s].phase = "open",
           span[s].stack = <<>>, NEW bad \in BOOLEAN,
           v.phase = "ended", v.error = (span[s].error \/ bad),
           Keeps(s, v, {"stack", "failed"})
    PROVE  P!Next
<1>1. s \in Spans
  BY DEF Becomes
<1>2. /\ PhaseOf[s] = "open" /\ PhaseOf' = [PhaseOf EXCEPT ![s] = "ended"]
      /\ StackOf[s] = <<>> /\ StackOf' = StackOf /\ FailedOf' = FailedOf
      /\ ErrorOf' = [ErrorOf EXCEPT ![s] = ErrorOf[s] \/ bad]
  BY <1>1, OneRecord DEF Keeps
<1>3. P!End(s, bad)
  BY <1>2 DEF P!End
<1> QED BY <1>1, <1>3 DEF P!Next

\* The death of a process is LoseAll of its open spans.
LEMMA MapLose ==
    ASSUME NEW L \in SUBSET Spans,
           \A s \in L : span[s].phase = "open",
           \A s \in Spans :
              /\ span'[s].phase = IF s \in L THEN "lost" ELSE span[s].phase
              /\ span'[s].stack = span[s].stack
              /\ span'[s].error = span[s].error
              /\ span'[s].failed = span[s].failed
    PROVE  P!Next
<1>1. \A s \in L : PhaseOf[s] = "open"
  BY DEF PhaseOf
<1>2. /\ PhaseOf' = [s \in Spans |-> IF s \in L THEN "lost" ELSE PhaseOf[s]]
      /\ StackOf' = StackOf /\ ErrorOf' = ErrorOf /\ FailedOf' = FailedOf
  BY DEF PhaseOf, StackOf, ErrorOf, FailedOf
<1>3. P!LoseAll(L)
  BY <1>1, <1>2 DEF P!LoseAll
<1> QED BY <1>3 DEF P!Next

-----------------------------------------------------------------------------
(* What a program gains by following the protocol.                           *)

\* A span that has not started is blank, and one that has ended left no event
\* open: an event can only be missing its end in a span that was lost.
BalancedRecords ==
    \A s \in Spans : /\ span[s].phase = "none" => Blank(span[s])
                     /\ span[s].phase = "ended" => span[s].stack = <<>>

\* A span that has ended or was lost stays as it is.
FinalRecords ==
    [][\A s \in Spans : span[s].phase \in {"ended", "lost"} =>
          /\ span'[s].phase = span[s].phase /\ span'[s].stack = span[s].stack
          /\ span'[s].error = span[s].error /\ span'[s].failed = span[s].failed]_span

\* Where the agent's calls come as the protocol has them, what a collector is sent
\* is balanced: EndSpan is not called over an open event, and nothing is recorded
\* on a span before NewSpan.
THEOREM FollowingBalances == FollowsProtocol => []BalancedRecords
<1> DEFINE I == \A s \in Spans :
                   /\ PhaseOf[s] = "none" => /\ StackOf[s] = <<>>
                                             /\ ErrorOf[s] = FALSE
                                             /\ FailedOf[s] = {}
                   /\ PhaseOf[s] = "ended" => StackOf[s] = <<>>
<1>1. P!Init => I
  BY DEF P!Init
<1>2. I /\ [P!Next]_(P!vars) => I'
  <2> SUFFICES ASSUME I, [P!Next]_(P!vars) PROVE I'
    OBVIOUS
  <2>t. /\ PhaseOf = [x \in Spans |-> PhaseOf[x]]
        /\ StackOf = [x \in Spans |-> StackOf[x]]
        /\ ErrorOf = [x \in Spans |-> ErrorOf[x]]
        /\ FailedOf = [x \in Spans |-> FailedOf[x]]
    BY DEF PhaseOf, StackOf, ErrorOf, FailedOf
  <2>1. ASSUME NEW s \in Spans, P!Start(s) PROVE I'
    BY <2>1, <2>t DEF P!Start
  <2>2. ASSUME NEW s \in Spans, NEW e \in Events, P!StartEvent(s, e) PROVE I'
    BY <2>2, <2>t DEF P!StartEvent
  <2>3. ASSUME NEW s \in Spans, NEW bad \in BOOLEAN, P!EndTopEvent(s, bad) PROVE I'
    BY <2>3, <2>t DEF P!EndTopEvent
  <2>4. ASSUME NEW s \in Spans, P!RecordError(s) PROVE I'
    BY <2>4, <2>t DEF P!RecordError
  <2>5. ASSUME NEW s \in Spans, NEW bad \in BOOLEAN, P!End(s, bad) PROVE I'
    BY <2>5, <2>t DEF P!End
  <2>6. ASSUME NEW S \in SUBSET Spans, P!LoseAll(S) PROVE I'
    BY <2>6, <2>t DEF P!LoseAll
  <2>7. CASE UNCHANGED P!vars
    BY <2>7 DEF P!vars
  <2> QED BY <2>1, <2>2, <2>3, <2>4, <2>5, <2>6, <2>7 DEF P!Next
<1>3. I => BalancedRecords
  BY DEF BalancedRecords, Blank, PhaseOf, StackOf, ErrorOf, FailedOf
<1> HIDE DEF I
<1> QED BY <1>1, <1>2, <1>3, PTL DEF FollowsProtocol, P!Spec

\* And what it was sent, it was sent for good: no call reaches a span after
\* EndSpan, or after the death of its process.
THEOREM FollowingFreezes == FollowsProtocol => FinalRecords
<1> DEFINE F == \A s \in Spans : span[s].phase \in {"ended", "lost"} =>
                   /\ span'[s].phase = span[s].phase /\ span'[s].stack = span[s].stack
                   /\ span'[s].error = span[s].error /\ span'[s].failed = span[s].failed
<1>1. [P!Next]_(P!vars) => [F]_span
  <2> SUFFICES ASSUME [P!Next]_(P!vars), NEW s \in Spans, PhaseOf[s] \in {"ended", "lost"}
               PROVE  /\ PhaseOf'[s] = PhaseOf[s] /\ StackOf'[s] = StackOf[s]
                      /\ ErrorOf'[s] = ErrorOf[s] /\ FailedOf'[s] = FailedOf[s]
    BY DEF PhaseOf, StackOf, ErrorOf, FailedOf
  <2>t. /\ PhaseOf = [x \in Spans |-> PhaseOf[x]]
        /\ StackOf = [x \in Spans |-> StackOf[x]]
        /\ ErrorOf = [x \in Spans |-> ErrorOf[x]]
        /\ FailedOf = [x \in Spans |-> FailedOf[x]]
    BY DEF PhaseOf, StackOf, ErrorOf, FailedOf
  <2> QED BY <2>t DEF P!Next, P!Start, P!StartEvent, P!EndTopEvent, P!RecordError, P!End,
              P!LoseAll, P!vars
<1>2. FinalRecords <=> [][F]_span
  BY DEF FinalRecords
<1> HIDE DEF F
<1> QED BY <1>1, <1>2, PTL DEF FollowsProtocol, P!Spec
=============================================================================
