------------------------------ MODULE AgentApi ------------------------------
(***************************************************************************)
(* What the Pinpoint C++ agent (pinpoint/tracer.h, not part of this        *)
(* repository) does with the calls the examples make.  A span is a record  *)
(* and every API call maps a span to a span.  No operator is guarded: an   *)
(* out-of-order call yields a record that SpanProtocol rejects.            *)
(***************************************************************************)
EXTENDS Integers, Sequences

CONSTANT NoSpan      \* the null SpanPtr

Kinds == {"noop", "unsampled", "sampled"}

\* A span is unborn, open, ended, or lost together with its process.
Phases == {"none", "open", "ended", "lost"}

\* What InjectContext leaves in the headers of an outgoing call: nothing, a
\* bare "do not sample" flag, or the ids of the calling span.
NoContext == [kind |-> "none", from |-> NoSpan]

Unborn == [phase |-> "none", kind |-> "noop", parent |-> NoSpan,
           error |-> FALSE, failed |-> {}, stack |-> <<>>]

\* NewSpan.  An agent that is not registered hands out no-op spans; a
\* registered one continues the caller's decision or takes its own.
NewSpanKinds(registered, ctx) ==
    IF ~registered THEN {"noop"}
    ELSE IF ctx.kind = "none" THEN {"unsampled", "sampled"}
    ELSE {ctx.kind}

NewSpan(kind, ctx) ==
    [phase |-> "open", kind |-> kind,
     parent |-> IF kind = "sampled" THEN ctx.from ELSE NoSpan,
     error |-> FALSE, failed |-> {}, stack |-> <<>>]

\* NewSpanEvent and the constructor of ScopedSpanEvent.
NewSpanEvent(span, event) == [span EXCEPT !.stack = Append(@, event)]

\* SpanEvent::EndEvent, after SetError on the event when bad.  The agent
\* closes the innermost open event.
EndEvent(span, event, bad) ==
    [span EXCEPT !.stack = SubSeq(@, 1, Len(@) - 1),
                 !.failed = IF bad THEN @ \cup {event} ELSE @]

\* Span::SetError.
SetError(span, bad) == [span EXCEPT !.error = @ \/ bad]

\* Span::EndSpan, after SetError on the span when bad.
EndSpan(span, bad) == [span EXCEPT !.phase = "ended", !.error = @ \/ bad]

\* InjectContext on an event of the span named by id.
InjectContext(span, id) ==
    CASE span.kind = "noop"      -> NoContext
      [] span.kind = "unsampled" -> [kind |-> "unsampled", from |-> NoSpan]
      [] span.kind = "sampled"   -> [kind |-> "sampled", from |-> id]

\* The process that holds the span dies before EndSpan delivers it.
Lose(span) == IF span.phase = "open" THEN [span EXCEPT !.phase = "lost"]
              ELSE span

SpanType(Ids, Events) ==
    [phase : Phases, kind : Kinds, parent : Ids \cup {NoSpan},
     error : BOOLEAN, failed : SUBSET Events, stack : Seq(Events)]
=============================================================================
