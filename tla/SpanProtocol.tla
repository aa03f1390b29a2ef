---------------------------- MODULE SpanProtocol ----------------------------
(***************************************************************************)
(* How an application may use the agent: the promise every instrumented    *)
(* program of the repository makes to it.  A span is started once, its     *)
(* events open and close in stack order while it is open, it ends once     *)
(* with no event left open, and nothing touches it afterwards.  Only the   *)
(* death of its process leaves a span open.                                *)
(***************************************************************************)
EXTENDS Integers, Sequences

CONSTANTS Spans, Events

VARIABLES phase,     \* phase[s]:  "none", "open", "ended" or "lost"
          stack,     \* stack[s]:  the open events, innermost last
          error,     \* error[s]:  an error was recorded on the span itself
          failed     \* failed[s]: the events that ended with an error

vars == <<phase, stack, error, failed>>

Init == /\ phase = [s \in Spans |-> "none"]
        /\ stack = [s \in Spans |-> <<>>]
        /\ error = [s \in Spans |-> FALSE]
        /\ failed = [s \in Spans |-> {}]

Start(s) == /\ phase[s] = "none"
            /\ phase' = [phase EXCEPT ![s] = "open"]
            /\ UNCHANGED <<stack, error, failed>>

StartEvent(s, e) == /\ phase[s] = "open"
                    /\ stack' = [stack EXCEPT ![s] = Append(@, e)]
                    /\ UNCHANGED <<phase, error, failed>>

EndTopEvent(s, bad) ==
    /\ phase[s] = "open"
    /\ stack[s] # <<>>
    /\ stack' = [stack EXCEPT ![s] = SubSeq(@, 1, Len(@) - 1)]
    /\ failed' = [failed EXCEPT ![s] =
                    IF bad THEN @ \cup {stack[s][Len(stack[s])]} ELSE @]
    /\ UNCHANGED <<phase, error>>

RecordError(s) == /\ phase[s] = "open"
                  /\ error' = [error EXCEPT ![s] = TRUE]
                  /\ UNCHANGED <<phase, stack, failed>>

End(s, bad) == /\ phase[s] = "open"
               /\ stack[s] = <<>>
               /\ phase' = [phase EXCEPT ![s] = "ended"]
               /\ error' = [error EXCEPT ![s] = @ \/ bad]
               /\ UNCHANGED <<stack, failed>>

LoseAll(S) == /\ \A s \in S : phase[s] = "open"
              /\ phase' = [s \in Spans |-> IF s \in S THEN "lost" ELSE phase[s]]
              /\ UNCHANGED <<stack, error, failed>>

Next == \/ \E s \in Spans : \/ Start(s)
                            \/ \E e \in Events : StartEvent(s, e)
                            \/ \E bad \in BOOLEAN : EndTopEvent(s, bad)
                            \/ RecordError(s)
                            \/ \E bad \in BOOLEAN : End(s, bad)
        \/ \E S \in SUBSET Spans : LoseAll(S)

Spec == Init /\ [][Next]_vars
=============================================================================
