--------------------------- MODULE AgentApiProofs ---------------------------
(***************************************************************************)
(* What the operations of AgentApi do to a span, stated once for the proof *)
(* modules of the programs.                                                *)
(***************************************************************************)
EXTENDS AgentApi, SequenceTheorems, TLAPS

-----------------------------------------------------------------------------
(* Stacks of at most three events. *)

\* Pushing on a stack of at most one event, and popping one of at most two.
LEMMA ShortStacks ==
    ASSUME NEW a, NEW b
    PROVE  /\ Append(<<>>, a) = <<a>>
           /\ Append(<<a>>, b) = <<a, b>>
           /\ SubSeq(<<a>>, 1, Len(<<a>>) - 1) = <<>>
           /\ SubSeq(<<a, b>>, 1, Len(<<a, b>>) - 1) = <<a>>
           /\ <<a>>[Len(<<a>>)] = a /\ <<a, b>>[Len(<<a, b>>)] = b
           /\ <<a>> # <<>> /\ <<a, b>> # <<>>
<1> DEFINE S == {a, b}
<1>1. Append(<<a>>, b) = <<a, b>>
  <2>1. Append(<<a>>, b) \in Seq(S) /\ Len(Append(<<a>>, b)) = 2
    OBVIOUS
  <2>2. <<a, b>> \in Seq(S) /\ Len(<<a, b>>) = 2
    OBVIOUS
  <2>3. \A i \in 1 .. 2 : Append(<<a>>, b)[i] = <<a, b>>[i]
    OBVIOUS
  <2> QED BY <2>1, <2>2, <2>3, SeqEqual
<1>2. SubSeq(<<a, b>>, 1, Len(<<a, b>>) - 1) = <<a>>
  <2>1. <<a, b>> \in Seq(S) /\ Len(<<a, b>>) = 2
    OBVIOUS
  <2> DEFINE front == SubSeq(<<a, b>>, 1, 1)
  <2>2. front \in Seq(S) /\ Len(front) = 1
    BY <2>1
  <2>3. \A i \in 1 .. 1 : front[i] = <<a>>[i]
    BY <2>1
  <2>4. <<a>> \in Seq(S) /\ Len(<<a>>) = 1
    OBVIOUS
  <2> HIDE DEF front
  <2>5. front = <<a>>
    BY <2>2, <2>3, <2>4, SeqEqual
  <2> QED BY <2>1, <2>5 DEF front
<1> QED BY <1>1, <1>2

\* Pushing the first or a second event.
LEMMA Pushes == \A a, b : /\ Append(<<>>, b) = <<b>>
                          /\ Append(<<a>>, b) = <<a, b>>
BY ShortStacks

\* Pushing a third event.
LEMMA PushThird ==
    ASSUME NEW a, NEW b, NEW c
    PROVE  Append(<<a, b>>, c) = <<a, b, c>>
<1> DEFINE S == {a, b, c}
<1>1. Append(<<a, b>>, c) \in Seq(S) /\ Len(Append(<<a, b>>, c)) = 3
  OBVIOUS
<1>2. <<a, b, c>> \in Seq(S) /\ Len(<<a, b, c>>) = 3
  OBVIOUS
<1>3. \A i \in 1 .. 3 : Append(<<a, b>>, c)[i] = <<a, b, c>>[i]
  OBVIOUS
<1> QED BY <1>1, <1>2, <1>3, SeqEqual

\* Popping it.
LEMMA PopThird ==
    ASSUME NEW a, NEW b, NEW c
    PROVE  /\ SubSeq(<<a, b, c>>, 1, Len(<<a, b, c>>) - 1) = <<a, b>>
           /\ <<a, b, c>>[Len(<<a, b, c>>)] = c
           /\ <<a, b, c>> # <<>>
<1> DEFINE S == {a, b, c}
           front == SubSeq(<<a, b, c>>, 1, 2)
<1>1. <<a, b, c>> \in Seq(S) /\ Len(<<a, b, c>>) = 3
  OBVIOUS
<1>2. front \in Seq(S) /\ Len(front) = 2
  BY <1>1
<1>3. \A i \in 1 .. 2 : front[i] = <<a, b>>[i]
  BY <1>1
<1>4. <<a, b>> \in Seq(S) /\ Len(<<a, b>>) = 2
  OBVIOUS
<1> HIDE DEF front
<1>5. front = <<a, b>>
  BY <1>2, <1>3, <1>4, SeqEqual
<1> QED BY <1>1, <1>5 DEF front

-----------------------------------------------------------------------------
(* The agent's operations keep the type of a span. *)

\* What each API call does to a span of the right type.
LEMMA ApiTypes ==
    ASSUME NEW Ids, NEW Evs, NEW s \in SpanType(Ids, Evs), NEW e \in Evs,
           NEW bad \in BOOLEAN
    PROVE  /\ NewSpanEvent(s, e) \in SpanType(Ids, Evs)
           /\ EndEvent(s, e, bad) \in SpanType(Ids, Evs)
           /\ SetError(s, bad) \in SpanType(Ids, Evs)
           /\ EndSpan(s, bad) \in SpanType(Ids, Evs)
           /\ Lose(s) \in SpanType(Ids, Evs)
<1>1. s.stack \in Seq(Evs) /\ s.failed \in SUBSET Evs /\ s.error \in BOOLEAN
  BY DEF SpanType
<1>2. Append(s.stack, e) \in Seq(Evs)
  BY <1>1
<1>3. SubSeq(s.stack, 1, Len(s.stack) - 1) \in Seq(Evs)
  BY <1>1
<1>4. NewSpanEvent(s, e) \in SpanType(Ids, Evs)
  BY <1>2 DEF NewSpanEvent, SpanType
<1>5. EndEvent(s, e, bad) \in SpanType(Ids, Evs)
  BY <1>1, <1>3 DEF EndEvent, SpanType
<1>6. SetError(s, bad) \in SpanType(Ids, Evs)
  BY <1>1 DEF SetError, SpanType
<1>7. EndSpan(s, bad) \in SpanType(Ids, Evs)
  BY <1>1 DEF EndSpan, SpanType, Phases
<1>8. Lose(s) \in SpanType(Ids, Evs)
  BY DEF Lose, SpanType, Phases
<1> QED BY <1>4, <1>5, <1>6, <1>7, <1>8

\* A new span is open, without events or errors.
LEMMA NewSpanIsOpen ==
    ASSUME NEW kind \in Kinds, NEW ctx, NEW Ids, NEW Evs,
           ctx.from \in Ids \cup {NoSpan}
    PROVE  /\ NewSpan(kind, ctx) \in SpanType(Ids, Evs)
           /\ NewSpan(kind, ctx).phase = "open"
           /\ NewSpan(kind, ctx).stack = <<>>
           /\ NewSpan(kind, ctx).error = FALSE
           /\ NewSpan(kind, ctx).failed = {}
<1> DEFINE new == NewSpan(kind, ctx)
           parent == IF kind = "sampled" THEN ctx.from ELSE NoSpan
<1>1. new = [phase |-> "open", kind |-> kind, parent |-> parent,
             error |-> FALSE, failed |-> {}, stack |-> <<>>]
  BY DEF NewSpan
<1>2. parent \in Ids \cup {NoSpan}
  OBVIOUS
<1>3. <<>> \in Seq(Evs)
  OBVIOUS
<1> HIDE DEF parent, new
<1>4. new \in SpanType(Ids, Evs)
  BY <1>1, <1>2, <1>3 DEF SpanType, Phases
<1>5. new.phase = "open" /\ new.stack = <<>> /\ new.error = FALSE /\ new.failed = {}
  BY <1>1
<1> QED BY <1>4, <1>5 DEF new
=============================================================================
