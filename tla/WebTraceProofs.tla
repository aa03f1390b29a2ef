--------------------------- MODULE WebTraceProofs ---------------------------
(***************************************************************************)
(* Proofs about WebTrace, for chains of any depth through any of the five  *)
(* programs, pools of any size, and any number of commands and of broken   *)
(* connections.                                                            *)
(***************************************************************************)
EXTENDS WebTrace, AgentApiProofs, TLAPS

-----------------------------------------------------------------------------
(* The inductive invariant: what a hop says of itself, and what a call ties  *)
(* to the hop it makes.                                                      *)

SpanRecords == SpanType(Hops, Events)

Untouched == {"none", "sent", "dropped"}
InThread == {"traced", "handling", "calling", "command", "executing", "leaving",
             "responding"}

\* Below, v is the record of a hop, s its span, answer its response, and bad
\* the events during which something went wrong.

\* The open events of a span, which follow from the place in the handler.
OpenEvents(v) ==
    CASE v.pc \in {"handling", "command", "leaving"} -> <<HandlerEvent>>
      [] v.pc = "executing" -> <<HandlerEvent, v.at>>
      [] v.pc = "calling" -> IF v.app = "curl" THEN <<CallEvent>>
                             ELSE <<HandlerEvent, CallEvent>>
      [] OTHER -> <<>>

\* A program is only at places of its own handler, and does not know the result
\* before it has it.
Placed(v) ==
    /\ (v.app = "none") = (v.pc = "none")
    /\ v.pc \in Untouched \cup {"traced", "handling"} =>
          v.calls = "none" /\ v.result = "none" /\ ~v.broken
    /\ v.pc \in {"calling", "command", "executing"} => v.result = "none"
    /\ v.calls = "here" /\ v.result = "none" => v.pc = "calling"
    /\ v.pc \in {"handling", "leaving"} => v.app # "curl"
    /\ v.pc = "calling" \/ v.calls = "here" => v.app \in Relays
    /\ v.pc \in {"command", "executing"} => v.app \in Stores /\ v.at \in 1 .. Commands

\* A span lives as long as its thread, and was begun from the hop's headers.
Recorded(v, s) ==
    /\ v.pc \in Untouched => s = Unborn
    /\ v.pc \in InThread => s.phase = "open" /\ s.stack = OpenEvents(v)
    /\ v.pc = "done" => s.phase = "ended" \/ (s = Unborn /\ v.app = "civetweb")
    /\ s.phase # "none" =>
          /\ s.kind = "noop" \/ s.kind \in NewSpanKinds(TRUE, v.headers)
          /\ s.parent = IF s.kind = "sampled" THEN v.headers.from ELSE NoSpan

\* What went wrong, in the words of each program.
Blames(v, s, bad) ==
    /\ v.app \notin Stores =>
          bad = IF v.result = "bad" THEN {CallEvent} ELSE {}
    /\ v.app \in {"none", "curl"} => s.failed = bad
    /\ v.app = "cpptrace" =>
          s.failed = IF v.result = "bad" /\ v.pc # "leaving" THEN {HandlerEvent} ELSE {}
    /\ v.app = "civetweb" => s.failed = {} /\ v.result # "bad"
    /\ v.app \in Stores =>
          /\ IF v.pc = "leaving" /\ v.result = "bad"
             THEN bad = {HandlerEvent} /\ s.failed = {} ELSE s.failed = bad
          /\ v.pc \in {"traced", "handling"} => bad = {}
          /\ (HandlerEvent \in bad) = (v.result = "bad")
          /\ v.broken /\ v.pc \notin {"command", "executing"} => Commands \in bad

\* The answer and the error of the span come last; civetweb answers earlier.
Answers(v, s, answer) ==
    /\ v.pc # "done" =>
          /\ ~s.error
          /\ answer = IF v.app = "civetweb" /\ v.pc \in {"leaving", "responding"}
                      THEN "200" ELSE "none"
    /\ s.phase = "ended" =>
          /\ s.error = (v.app = "curl" /\ v.result = "bad")
          /\ answer = CASE v.result = "bad" /\ v.app = "curl" -> "500"
                        [] v.result = "bad" /\ v.app \in Stores -> "503"
                        [] OTHER -> "200"

Says(v, s, answer, bad) ==
    Placed(v) /\ Recorded(v, s) /\ Blames(v, s, bad) /\ Answers(v, s, answer)

\* The hop c, with record cv and span cs, and the hop that its call makes.
Tied(c, cv, cs, v, answer) ==
    /\ v.pc # "none" => cv.calls = "here" /\ v.headers = InjectContext(cs, c)
    /\ cv.calls = "here" /\ cv.result = "ok" => answer # "none"

WebInv ==
    /\ TypeOK
    /\ \A h \in Hops : Says(hop[h], span[h], response[h], wrong[h])
    /\ \A c \in Hops : Callee(c) \in Hops =>
          Tied(c, hop[c], span[c], hop[Callee(c)], response[Callee(c)])

-----------------------------------------------------------------------------
(* Hops and events. *)

\* A hop's caller and callee are its neighbours in the chain of its user.
LEMMA Neighbours ==
    ASSUME NEW h \in Hops
    PROVE  /\ Callee(h) # h /\ Callee(h)[2] # 0 /\ Callee(Callee(h)) # h
           /\ \A c \in Hops : Callee(c) = Callee(h) => c = h
           /\ h[2] > 0 => Caller(h) \in Hops /\ Callee(Caller(h)) = h
<1>1. \A c \in Hops : \E u \in Users : \E n \in 0 .. Depth[u] : c = <<u, n>>
  BY DEF Hops
<1>u. PICK u \in Users : \E n \in 0 .. Depth[u] : h = <<u, n>>
  BY <1>1
<1>2. PICK n \in 0 .. Depth[u] : h = <<u, n>>
  BY <1>u
<1>3. Depth[u] \in Nat /\ n \in Nat /\ h[1] = u /\ h[2] = n
  BY <1>2, WebAssumption
<1>4. Callee(h) = <<u, n + 1>> /\ Caller(h) = <<u, n - 1>>
  BY <1>3 DEF Callee, Caller
<1>5. ASSUME NEW c \in Hops, Callee(c) = Callee(h) PROVE c = h
  <2>0. PICK x \in Users : \E m \in 0 .. Depth[x] : c = <<x, m>>
    BY <1>1
  <2>1. PICK m \in 0 .. Depth[x] : c = <<x, m>>
    BY <2>0
  <2>2. Callee(c) = <<x, m + 1>> /\ Depth[x] \in Nat /\ m \in Nat
    BY <2>1, WebAssumption DEF Callee
  <2>3. x = u /\ m + 1 = n + 1
    BY <2>2, <1>4, <1>5
  <2> QED BY <2>1, <2>2, <2>3, <1>2, <1>3
<1>6. ASSUME h[2] > 0 PROVE Caller(h) \in Hops /\ Callee(Caller(h)) = h
  <2>1. n - 1 \in 0 .. Depth[u] /\ (n - 1) + 1 = n
    BY <1>3, <1>6
  <2>2. Callee(<<u, n - 1>>) = <<u, n>>
    BY <2>1 DEF Callee
  <2>3. <<u, n - 1>> \in Hops
    BY <2>1 DEF Hops
  <2> QED BY <2>2, <2>3, <1>2, <1>4
<1>7. Callee(Callee(h)) = <<u, (n + 1) + 1>>
  BY <1>4 DEF Callee
<1> QED BY <1>2, <1>3, <1>4, <1>5, <1>6, <1>7

\* The events of a span, all different.
LEMMA EventsApart ==
    /\ HandlerEvent \in Events /\ CallEvent \in Events
    /\ 1 .. Commands \subseteq Events /\ Commands \in Nat \ {0}
    /\ HandlerEvent # CallEvent
    /\ \A k \in 1 .. Commands : k # HandlerEvent /\ k # CallEvent
<1>1. Commands \in Nat /\ Commands # 0
  BY WebAssumption
<1> QED BY <1>1, SMT DEF HandlerEvent, CallEvent, Events

-----------------------------------------------------------------------------
(* A step of one hop. *)

Statuses == {"none", "200", "404", "500", "503"}

\* The part of the type that is about no hop.
Elsewhere == /\ ready \subseteq Apps
             /\ civetweb \in {"starting", "no handlers", "root only", "serving",
                              "stopping", "shut down"}
             /\ cuts \in 0 .. MaxCuts

\* The hop h, which somebody has sent, goes on: its record becomes v, and its
\* span s; a call keeps its callee, and succeeds only with its answer.
Goes(h, v, s, answer, bad) ==
    /\ hop[h].pc # "none"
    /\ hop' = [hop EXCEPT ![h] = v] /\ span' = [span EXCEPT ![h] = s]
    /\ response' = [response EXCEPT ![h] = answer]
    /\ wrong' = [wrong EXCEPT ![h] = bad]
    /\ v \in HopRecords /\ s \in SpanRecords
    /\ answer \in Statuses /\ bad \subseteq Events
    /\ Says(v, s, answer, bad)
    /\ v.pc # "none" /\ v.headers = hop[h].headers
    /\ (v.calls = "here") = (hop[h].calls = "here")
    /\ v.calls = "here" => s.kind = span[h].kind
    /\ v.calls = "here" /\ v.result = "ok" /\ Callee(h) \in Hops =>
          response[Callee(h)] # "none"
    /\ response[h] # "none" => answer # "none"

\* What the invariant says of one hop.
LEMMA OfHop ==
    ASSUME WebInv, NEW h \in Hops
    PROVE  /\ hop[h] \in HopRecords /\ span[h] \in SpanRecords
           /\ response[h] \in Statuses /\ wrong[h] \subseteq Events
           /\ hop[h].app \in Apps \cup {"none"}
           /\ Placed(hop[h]) /\ Recorded(hop[h], span[h])
           /\ Blames(hop[h], span[h], wrong[h])
           /\ Answers(hop[h], span[h], response[h])
           /\ hop = [hop EXCEPT ![h] = hop[h]] /\ span = [span EXCEPT ![h] = span[h]]
           /\ response = [response EXCEPT ![h] = response[h]]
           /\ wrong = [wrong EXCEPT ![h] = wrong[h]]
           /\ Elsewhere
<1>1. hop[h] \in HopRecords /\ span[h] \in SpanRecords
      /\ response[h] \in Statuses /\ wrong[h] \subseteq Events /\ Elsewhere
  BY DEF WebInv, TypeOK, SpanRecords, Statuses, Elsewhere
<1>2. hop[h].app \in Apps \cup {"none"}
  BY <1>1 DEF HopRecords
<1>3. Says(hop[h], span[h], response[h], wrong[h])
  BY DEF WebInv
<1>4. /\ hop = [hop EXCEPT ![h] = hop[h]] /\ span = [span EXCEPT ![h] = span[h]]
      /\ response = [response EXCEPT ![h] = response[h]]
      /\ wrong = [wrong EXCEPT ![h] = wrong[h]]
  BY DEF WebInv, TypeOK
<1> QED BY <1>1, <1>2, <1>3, <1>4 DEF Says

\* What the other hops and calls say stays true.
LEMMA HopGoes ==
    ASSUME WebInv, Elsewhere', NEW h \in Hops,
           NEW v, NEW s, NEW answer, NEW bad, Goes(h, v, s, answer, bad)
    PROVE  WebInv'
<1>1. /\ hop'[h] = v /\ span'[h] = s /\ response'[h] = answer /\ wrong'[h] = bad
      /\ \A g \in Hops \ {h} : /\ hop'[g] = hop[g] /\ span'[g] = span[g]
                               /\ response'[g] = response[g] /\ wrong'[g] = wrong[g]
  BY DEF Goes, WebInv, TypeOK
<1>2. TypeOK'
  <2>1. hop' \in [Hops -> HopRecords] /\ span' \in [Hops -> SpanRecords]
        /\ response' \in [Hops -> Statuses] /\ wrong' \in [Hops -> SUBSET Events]
    BY DEF Goes, WebInv, TypeOK, SpanRecords, Statuses
  <2> QED BY <2>1 DEF TypeOK, Elsewhere, SpanRecords, Statuses
<1>3. \A g \in Hops : Says(hop'[g], span'[g], response'[g], wrong'[g])
  <2> SUFFICES ASSUME NEW g \in Hops
               PROVE  Says(hop'[g], span'[g], response'[g], wrong'[g])
    OBVIOUS
  <2>1. CASE g = h
    BY <2>1, <1>1 DEF Goes
  <2>2. CASE g # h
    BY <2>2, <1>1 DEF WebInv
  <2> QED BY <2>1, <2>2
<1>4. \A c \in Hops : Callee(c) \in Hops =>
         Tied(c, hop'[c], span'[c], hop'[Callee(c)], response'[Callee(c)])
  <2> SUFFICES ASSUME NEW c \in Hops, Callee(c) \in Hops
               PROVE  Tied(c, hop'[c], span'[c], hop'[Callee(c)], response'[Callee(c)])
    OBVIOUS
  <2> DEFINE d == Callee(c)
  <2>1. d \in Hops /\ d # c /\ Tied(c, hop[c], span[c], hop[d], response[d])
    BY Neighbours DEF WebInv
  <2> HIDE DEF d
  <2>2. CASE c = h
    <3>1. /\ hop'[d] = hop[d] /\ response'[d] = response[d]
          /\ hop'[c] = v /\ span'[c] = s /\ (v.calls = "here") = (hop[c].calls = "here")
      BY <2>1, <2>2, <1>1 DEF Goes
    <3>2. /\ v.calls = "here" => s.kind = span[c].kind
          /\ v.calls = "here" /\ v.result = "ok" => response[d] # "none"
      BY <2>1, <2>2 DEF Goes, d
    <3>3. s.kind = span[c].kind => InjectContext(s, c) = InjectContext(span[c], c)
      BY DEF InjectContext
    <3>4. Tied(c, hop'[c], span'[c], hop'[d], response'[d])
      BY <2>1, <3>1, <3>2, <3>3 DEF Tied
    <3> QED BY <3>4 DEF d
  <2>3. CASE d = h
    <3>1. /\ hop'[c] = hop[c] /\ span'[c] = span[c]
          /\ hop'[d] = v /\ response'[d] = answer /\ v.headers = hop[d].headers
          /\ hop[d].pc # "none" /\ (response[d] # "none" => answer # "none")
      BY <2>1, <2>3, <1>1 DEF Goes
    <3>2. Tied(c, hop'[c], span'[c], hop'[d], response'[d])
      BY <2>1, <3>1 DEF Tied
    <3> QED BY <3>2 DEF d
  <2>4. CASE c # h /\ d # h
    <3>1. /\ hop'[c] = hop[c] /\ span'[c] = span[c]
          /\ hop'[d] = hop[d] /\ response'[d] = response[d]
      BY <2>1, <2>4, <1>1
    <3> QED BY <2>1, <3>1 DEF d
  <2> QED BY <2>2, <2>3, <2>4
<1> QED BY <1>2, <1>3, <1>4 DEF WebInv

\* A step that moves no hop.
LEMMA HopsRest ==
    ASSUME WebInv, Elsewhere', UNCHANGED <<span, hop, response, wrong>>
    PROVE  WebInv' /\ UNCHANGED U!P!vars
<1>1. TypeOK'
  BY DEF WebInv, TypeOK, Elsewhere
<1>2. UNCHANGED U!P!vars
  BY U!SameRecords
<1> QED BY <1>1, <1>2 DEF WebInv

\* Nobody has sent anything yet.
LEMMA InitWeb == Init => WebInv /\ U!P!Init
<1> SUFFICES ASSUME Init PROVE WebInv /\ U!P!Init
  OBVIOUS
<1>1. Unborn \in SpanRecords /\ Absent \in HopRecords
  <2>1. Unborn \in SpanRecords
    BY DEF Unborn, SpanRecords, SpanType, Phases, Kinds
  <2>2. 0 \in 0 .. Commands
    BY EventsApart, SMT
  <2>3. Absent \in HopRecords
    BY <2>2 DEF Absent, HopRecords, NoContext
  <2> QED BY <2>1, <2>3
<1>2. TypeOK
  <2>1. Elsewhere
    BY WebAssumption, SMT DEF Init, Elsewhere
  <2> QED BY <1>1, <2>1 DEF Init, TypeOK, Elsewhere, SpanRecords
<1>3. Says(Absent, Unborn, "none", {})
  BY DEF Absent, Unborn, Says, Placed, Recorded, Blames, Answers, Untouched, InThread,
         Stores
<1>4. \A c \in Hops, h \in Hops : Tied(c, Absent, Unborn, Absent, "none")
  BY DEF Absent, Tied
<1>5. \A h \in Hops : U!Blank(span[h])
  BY DEF Init, U!Blank, Unborn
<1> QED BY <1>2, <1>3, <1>4, <1>5, U!BlankRecords DEF Init, WebInv

-----------------------------------------------------------------------------
(* What a step does to a span, in terms of SpanProtocol. *)

\* A span starts.
LEMMA MapStarts ==
    ASSUME WebInv, NEW h \in Hops, span[h] = Unborn, NEW s,
           s.phase = "open", s.stack = <<>>, s.error = FALSE, s.failed = {},
           span' = [span EXCEPT ![h] = s]
    PROVE  U!P!Next
<1>1. span = [x \in Hops |-> span[x]]
  BY DEF WebInv, TypeOK
<1>2. U!Becomes(h, s)
  BY <1>1 DEF U!Becomes
<1>3. /\ span[h].phase = "none" /\ span[h].stack = <<>>
      /\ span[h].error = FALSE /\ span[h].failed = {}
  BY DEF Unborn
<1>4. U!Keeps(h, s, {"stack", "error", "failed"})
  BY <1>3 DEF U!Keeps
<1> QED BY <1>2, <1>3, <1>4, U!MapStart

\* An event opens.
LEMMA MapOpens ==
    ASSUME WebInv, NEW h \in Hops, NEW e \in Events, span[h].phase = "open",
           span' = [span EXCEPT ![h] = NewSpanEvent(span[h], e)]
    PROVE  U!P!Next
<1> DEFINE s == NewSpanEvent(span[h], e)
<1>1. span = [x \in Hops |-> span[x]] /\ span[h] \in SpanRecords
  BY DEF WebInv, TypeOK, SpanRecords
<1>2. U!Becomes(h, s)
  BY <1>1 DEF U!Becomes
<1>3. s.stack = Append(span[h].stack, e) /\ U!Keeps(h, s, {"phase", "error", "failed"})
  BY <1>1 DEF NewSpanEvent, SpanRecords, SpanType, U!Keeps
<1> HIDE DEF s
<1> QED BY <1>2, <1>3, U!MapStartEvent

\* The innermost event ends.
LEMMA MapEnds ==
    ASSUME WebInv, NEW h \in Hops, NEW e, NEW bad \in BOOLEAN,
           span[h].phase = "open", span[h].stack # <<>>,
           span[h].stack[Len(span[h].stack)] = e,
           span' = [span EXCEPT ![h] = EndEvent(span[h], e, bad)]
    PROVE  U!P!Next
<1> DEFINE s == EndEvent(span[h], e, bad)
<1>1. span = [x \in Hops |-> span[x]] /\ span[h] \in SpanRecords
  BY DEF WebInv, TypeOK, SpanRecords
<1>2. U!Becomes(h, s)
  BY <1>1 DEF U!Becomes
<1>3. /\ s.stack = SubSeq(span[h].stack, 1, Len(span[h].stack) - 1)
      /\ s.failed = IF bad THEN span[h].failed \cup {e} ELSE span[h].failed
      /\ U!Keeps(h, s, {"phase", "error"})
  BY <1>1 DEF EndEvent, SpanRecords, SpanType, U!Keeps
<1> HIDE DEF s
<1> QED BY <1>2, <1>3, U!MapEndEvent

\* The span ends.
LEMMA MapEndsSpan ==
    ASSUME WebInv, NEW h \in Hops, NEW bad \in BOOLEAN,
           span[h].phase = "open", span[h].stack = <<>>,
           span' = [span EXCEPT ![h] = EndSpan(span[h], bad)]
    PROVE  U!P!Next
<1> DEFINE s == EndSpan(span[h], bad)
<1>1. span = [x \in Hops |-> span[x]] /\ span[h] \in SpanRecords
  BY DEF WebInv, TypeOK, SpanRecords
<1>2. U!Becomes(h, s)
  BY <1>1 DEF U!Becomes
<1>3. /\ s.phase = "ended" /\ s.error = (span[h].error \/ bad)
      /\ U!Keeps(h, s, {"stack", "failed"})
  BY <1>1 DEF EndSpan, SpanRecords, SpanType, U!Keeps
<1> HIDE DEF s
<1> QED BY <1>2, <1>3, U!MapEnd

-----------------------------------------------------------------------------
(* A hop reaches a thread of a program. *)

\* trace_request, and the beginning of civetweb's handlers.
LEMMA TraceRequestKeeps ==
    ASSUME WebInv, NEW h \in Hops, TraceRequest(h)
    PROVE  WebInv' /\ U!P!Next
<1> DEFINE v == [hop[h] EXCEPT !.pc = "traced"]
<1>1. /\ hop[h].pc = "sent" /\ hop' = [hop EXCEPT ![h] = v]
      /\ UNCHANGED <<response, wrong, ready, civetweb, cuts>>
  BY OfHop DEF TraceRequest, HasThread
<1>2. PICK kind \in NewSpanKinds(hop[h].app \in ready, hop[h].headers) :
        span' = [span EXCEPT ![h] = NewSpan(kind, hop[h].headers)]
  BY DEF TraceRequest
<1> DEFINE s == NewSpan(kind, hop[h].headers)
<1>3. /\ hop[h] \in HopRecords /\ span[h] = Unborn /\ Placed(hop[h])
      /\ Blames(hop[h], span[h], wrong[h]) /\ Answers(hop[h], span[h], response[h])
      /\ wrong[h] \subseteq Events /\ response[h] \in Statuses
  BY <1>1, OfHop DEF Recorded, Untouched
<1>4. /\ hop[h].headers.kind \in {"none", "unsampled", "sampled"}
      /\ hop[h].headers.from \in Hops \cup {NoSpan}
  BY <1>3 DEF HopRecords
<1>5. kind \in Kinds /\ (kind = "noop" \/ kind \in NewSpanKinds(TRUE, hop[h].headers))
  BY <1>4 DEF NewSpanKinds, Kinds
<1>6. /\ s \in SpanRecords /\ s.phase = "open" /\ s.stack = <<>>
      /\ s.error = FALSE /\ s.failed = {}
  BY <1>4, <1>5, NewSpanIsOpen DEF SpanRecords
<1>7. s.kind = kind
      /\ s.parent = IF s.kind = "sampled" THEN hop[h].headers.from ELSE NoSpan
  BY DEF NewSpan
<1>8. /\ v \in HopRecords /\ v.pc = "traced" /\ v.app = hop[h].app
      /\ v.headers = hop[h].headers /\ v.calls = hop[h].calls
      /\ v.result = hop[h].result /\ v.broken = hop[h].broken
  BY <1>3 DEF HopRecords
<1>9. v.calls = "none" /\ v.result = "none" /\ ~v.broken /\ v.app # "none"
  BY <1>1, <1>3, <1>8 DEF Placed, Untouched
<1> HIDE DEF s, v
<1>10. Placed(v) /\ Recorded(v, s)
  BY <1>5, <1>6, <1>7, <1>8, <1>9
     DEF Placed, Recorded, Untouched, InThread, OpenEvents
<1>11. Blames(v, s, wrong[h]) /\ Answers(v, s, response[h])
  BY <1>1, <1>3, <1>6, <1>8, <1>9 DEF Blames, Answers, Unborn
<1>12. Goes(h, v, s, response[h], wrong[h])
  BY <1>1, <1>2, <1>3, <1>6, <1>8, <1>9, <1>10, <1>11, OfHop DEF Goes, Says, s
<1>13. WebInv'
  BY <1>1, <1>12, HopGoes, OfHop DEF Elsewhere
<1>14. U!P!Next
  BY <1>2, <1>3, <1>6, MapStarts DEF s
<1> QED BY <1>13, <1>14

\* civetweb answers without a span.
LEMMA ServeUntracedKeeps ==
    ASSUME WebInv, NEW h \in Hops, ServeUntraced(h)
    PROVE  WebInv' /\ UNCHANGED U!P!vars
<1> DEFINE v == [hop[h] EXCEPT !.pc = "done"]
<1>1. /\ hop[h].pc = "sent" /\ hop[h].app = "civetweb"
      /\ hop' = [hop EXCEPT ![h] = v]
      /\ UNCHANGED <<span, wrong, ready, civetweb, cuts>>
  BY OfHop DEF ServeUntraced, HasThread
<1>2. PICK status \in {"200", "404", "500"} :
        response' = [response EXCEPT ![h] = status]
  BY DEF ServeUntraced
<1>3. /\ hop[h] \in HopRecords /\ span[h] = Unborn /\ span[h] \in SpanRecords
      /\ Placed(hop[h]) /\ Blames(hop[h], span[h], wrong[h])
      /\ wrong[h] \subseteq Events
  BY <1>1, OfHop DEF Recorded, Untouched
<1>4. /\ v \in HopRecords /\ v.pc = "done" /\ v.app = "civetweb"
      /\ v.headers = hop[h].headers /\ v.calls = hop[h].calls
      /\ v.result = hop[h].result
  BY <1>1, <1>3 DEF HopRecords
<1>5. v.calls = "none" /\ v.result = "none"
  BY <1>1, <1>3, <1>4 DEF Placed, Untouched
<1> HIDE DEF v
<1>6. Placed(v) /\ Recorded(v, span[h])
  BY <1>3, <1>4, <1>5 DEF Placed, Recorded, Untouched, InThread, Unborn
<1>7. Blames(v, span[h], wrong[h]) /\ Answers(v, span[h], status)
  BY <1>1, <1>3, <1>4, <1>5 DEF Blames, Answers, Unborn, Stores
<1>8. status \in Statuses /\ status # "none"
  BY DEF Statuses
<1>9. Goes(h, v, span[h], status, wrong[h])
  BY <1>1, <1>2, <1>3, <1>4, <1>5, <1>6, <1>7, <1>8, OfHop DEF Goes, Says
<1>10. WebInv'
  BY <1>1, <1>9, HopGoes, OfHop DEF Elsewhere
<1> QED BY <1>1, <1>10, U!SameRecords

\* The handler's own event.
LEMMA EnterHandlerKeeps ==
    ASSUME WebInv, NEW h \in Hops, EnterHandler(h)
    PROVE  WebInv' /\ U!P!Next
<1> DEFINE v == [hop[h] EXCEPT !.pc = "handling"]
           s == NewSpanEvent(span[h], HandlerEvent)
<1>1. /\ hop[h].pc = "traced" /\ hop[h].app # "curl"
      /\ hop' = [hop EXCEPT ![h] = v] /\ span' = [span EXCEPT ![h] = s]
      /\ UNCHANGED <<response, wrong, ready, civetweb, cuts>>
  BY OfHop DEF EnterHandler
<1>2. /\ hop[h] \in HopRecords /\ span[h] \in SpanRecords
      /\ Placed(hop[h]) /\ Recorded(hop[h], span[h])
      /\ Blames(hop[h], span[h], wrong[h]) /\ Answers(hop[h], span[h], response[h])
      /\ wrong[h] \subseteq Events /\ response[h] \in Statuses
  BY OfHop
<1>3. span[h].phase = "open" /\ span[h].stack = <<>>
  BY <1>1, <1>2 DEF Recorded, InThread, OpenEvents
<1>4. /\ s \in SpanRecords /\ s.phase = "open" /\ s.stack = <<HandlerEvent>>
      /\ s.kind = span[h].kind /\ s.parent = span[h].parent
      /\ s.error = span[h].error /\ s.failed = span[h].failed
  <2>1. s \in SpanRecords
    BY <1>2, EventsApart, ApiTypes DEF SpanRecords
  <2>2. s.stack = Append(<<>>, HandlerEvent)
    BY <1>2, <1>3 DEF NewSpanEvent, SpanRecords, SpanType
  <2> QED BY <1>2, <1>3, <2>1, <2>2, ShortStacks DEF NewSpanEvent, SpanRecords, SpanType
<1>5. /\ v \in HopRecords /\ v.pc = "handling" /\ v.app = hop[h].app
      /\ v.headers = hop[h].headers /\ v.calls = hop[h].calls
      /\ v.result = hop[h].result /\ v.broken = hop[h].broken
  BY <1>2 DEF HopRecords
<1>6. v.calls = "none" /\ v.result = "none" /\ ~v.broken /\ v.app # "none"
  BY <1>1, <1>2, <1>5 DEF Placed, Untouched
<1> HIDE DEF s, v
<1>7. Placed(v) /\ Recorded(v, s)
  BY <1>1, <1>2, <1>3, <1>4, <1>5, <1>6
     DEF Placed, Recorded, Untouched, InThread, OpenEvents
<1>8. Blames(v, s, wrong[h]) /\ Answers(v, s, response[h])
  BY <1>1, <1>2, <1>4, <1>5, <1>6 DEF Blames, Answers
<1>9. Goes(h, v, s, response[h], wrong[h])
  BY <1>1, <1>2, <1>4, <1>5, <1>6, <1>7, <1>8, OfHop DEF Goes, Says
<1>10. WebInv'
  BY <1>1, <1>9, HopGoes, OfHop DEF Elsewhere
<1>11. U!P!Next
  BY <1>1, <1>3, EventsApart, MapOpens DEF s
<1> QED BY <1>10, <1>11

\* handle_users.
LEMMA HandleUsersKeeps ==
    ASSUME WebInv, NEW h \in Hops, HandleUsers(h)
    PROVE  WebInv' /\ UNCHANGED U!P!vars
<1> DEFINE v == [hop[h] EXCEPT !.pc = "leaving", !.result = "ok"]
           answer == IF hop[h].app = "civetweb" THEN "200" ELSE response[h]
<1>1. /\ hop[h].pc = "handling" /\ hop[h].app \in {"cpptrace", "civetweb"}
      /\ hop' = [hop EXCEPT ![h] = v] /\ response' = [response EXCEPT ![h] = answer]
      /\ UNCHANGED <<span, wrong, ready, civetweb, cuts>>
  BY OfHop DEF HandleUsers
<1>2. /\ hop[h] \in HopRecords /\ span[h] \in SpanRecords
      /\ Placed(hop[h]) /\ Recorded(hop[h], span[h])
      /\ Blames(hop[h], span[h], wrong[h]) /\ Answers(hop[h], span[h], response[h])
      /\ wrong[h] \subseteq Events /\ response[h] \in Statuses
  BY OfHop
<1>3. /\ v \in HopRecords /\ v.pc = "leaving" /\ v.app = hop[h].app
      /\ v.headers = hop[h].headers /\ v.calls = hop[h].calls
      /\ v.result = "ok" /\ v.broken = hop[h].broken
  BY <1>2 DEF HopRecords
<1>4. hop[h].calls = "none" /\ hop[h].result = "none" /\ v.app \notin Stores
      /\ answer \in Statuses /\ (response[h] # "none" => answer # "none")
  BY <1>1, <1>2, <1>3 DEF Placed, Stores, Statuses
<1>5. span[h].phase = "open" /\ response[h] = "none"
      /\ answer = IF v.app = "civetweb" THEN "200" ELSE "none"
  BY <1>1, <1>2, <1>3 DEF Recorded, InThread, Answers
<1> HIDE DEF v, answer
<1>6. Placed(v) /\ Recorded(v, span[h])
  BY <1>1, <1>2, <1>3, <1>4, <1>5
     DEF Placed, Recorded, Untouched, InThread, OpenEvents
<1>7. Blames(v, span[h], wrong[h]) /\ Answers(v, span[h], answer)
  BY <1>1, <1>2, <1>3, <1>4, <1>5 DEF Blames, Answers
<1>8. Goes(h, v, span[h], answer, wrong[h])
  BY <1>1, <1>2, <1>3, <1>4, <1>6, <1>7, OfHop DEF Goes, Says
<1>9. WebInv'
  BY <1>1, <1>8, HopGoes, OfHop DEF Elsewhere
<1> QED BY <1>1, <1>9, U!SameRecords

-----------------------------------------------------------------------------
(* A call. *)

\* The callee of a hop that has made no call is not there, and may be sent.
LEMMA CalleeIsAbsent ==
    ASSUME WebInv, NEW h \in Hops, hop[h].calls # "here", Callee(h) \in Hops
    PROVE  /\ hop[Callee(h)].pc = "none" /\ hop[Callee(h)].calls = "none"
           /\ span[Callee(h)] = Unborn
           /\ response[Callee(h)] = "none" /\ wrong[Callee(h)] = {}
<1> DEFINE d == Callee(h)
<1>1. hop[d].pc = "none"
  BY DEF WebInv, Tied
<1>2. /\ Placed(hop[d]) /\ Recorded(hop[d], span[d])
      /\ Blames(hop[d], span[d], wrong[d]) /\ Answers(hop[d], span[d], response[d])
  BY OfHop
<1> HIDE DEF d
<1>3. hop[d].app = "none" /\ hop[d].result = "none" /\ hop[d].calls = "none"
      /\ span[d] = Unborn
  BY <1>1, <1>2 DEF Placed, Recorded, Untouched
<1>4. response[d] = "none" /\ wrong[d] = {}
  BY <1>1, <1>2, <1>3 DEF Blames, Answers, Stores
<1> QED BY <1>1, <1>3, <1>4 DEF d

\* A hop that was sent.
LEMMA SentIsFine ==
    ASSUME NEW a \in Apps, NEW headers,
           headers \in [kind : {"none", "unsampled", "sampled"},
                        from : Hops \cup {NoSpan}]
    PROVE  /\ Sent(a, headers) \in HopRecords
           /\ Sent(a, headers).pc = "sent" /\ Sent(a, headers).calls = "none"
           /\ Sent(a, headers).headers = headers
           /\ Says(Sent(a, headers), Unborn, "none", {})
<1> DEFINE v == Sent(a, headers)
<1>1. /\ Absent \in HopRecords
      /\ Absent.calls = "none" /\ Absent.result = "none" /\ ~Absent.broken
  <2>1. 0 \in 0 .. Commands
    BY EventsApart, SMT
  <2> QED BY <2>1 DEF Absent, HopRecords, NoContext
<1>2. v = [Absent EXCEPT !.pc = "sent", !.app = a, !.headers = headers]
  BY DEF Sent
<1>3. v \in HopRecords
  BY <1>1, <1>2 DEF HopRecords
<1>4. a # "none"
  BY DEF Apps, Relays, Stores
<1>5. v.pc = "sent" /\ v.app = a /\ v.calls = "none" /\ v.result = "none" /\ ~v.broken
      /\ v.headers = headers
  BY <1>1, <1>2 DEF HopRecords
<1> HIDE DEF v
<1>6. Says(v, Unborn, "none", {})
  BY <1>4, <1>5 DEF Says, Placed, Recorded, Blames, Answers, Untouched, InThread, Unborn
<1> QED BY <1>3, <1>5, <1>6 DEF v

\* A user sends a first hop.
LEMMA UserSendsKeeps ==
    ASSUME WebInv, NEW h \in Hops, NEW a \in Apps, UserSends(h, a)
    PROVE  WebInv' /\ UNCHANGED U!P!vars
<1> DEFINE v == Sent(a, NoContext)
<1>1. /\ h[2] = 0 /\ hop[h].pc = "none" /\ hop' = [hop EXCEPT ![h] = v]
      /\ UNCHANGED <<span, response, wrong, ready, civetweb, cuts>>
  BY DEF UserSends
<1>2. /\ Placed(hop[h]) /\ Recorded(hop[h], span[h])
      /\ Blames(hop[h], span[h], wrong[h]) /\ Answers(hop[h], span[h], response[h])
  BY OfHop
<1>3. hop[h].app = "none" /\ hop[h].result = "none" /\ hop[h].calls = "none"
      /\ span[h] = Unborn
  BY <1>1, <1>2 DEF Placed, Recorded, Untouched
<1>4. response[h] = "none" /\ wrong[h] = {}
  BY <1>1, <1>2, <1>3 DEF Blames, Answers, Stores
<1>5. v \in HopRecords /\ Says(v, Unborn, "none", {}) /\ v.calls = "none"
  BY SentIsFine DEF NoContext
<1> HIDE DEF v
<1>6. hop'[h] = v /\ \A g \in Hops \ {h} : hop'[g] = hop[g]
  BY <1>1 DEF WebInv, TypeOK
<1>7. TypeOK'
  BY <1>1, <1>5 DEF WebInv, TypeOK
<1>8. \A g \in Hops : Says(hop'[g], span'[g], response'[g], wrong'[g])
  BY <1>1, <1>3, <1>4, <1>5, <1>6 DEF WebInv
<1>9. ASSUME NEW c \in Hops, Callee(c) \in Hops
      PROVE  Tied(c, hop'[c], span'[c], hop'[Callee(c)], response'[Callee(c)])
  <2>1. Callee(c) # h /\ Tied(c, hop[c], span[c], hop[Callee(c)], response[Callee(c)])
    BY <1>1, <1>9, Neighbours DEF WebInv
  <2>2. CASE c = h
    BY <2>1, <2>2, <1>1, <1>3, <1>5, <1>6, <1>9 DEF Tied
  <2>3. CASE c # h
    BY <2>1, <2>3, <1>1, <1>6, <1>9
  <2> QED BY <2>2, <2>3
<1> QED BY <1>1, <1>7, <1>8, <1>9, U!SameRecords DEF WebInv

\* The record and the span of the hop h when its call begins.
Calling(h, calls) == [hop[h] EXCEPT !.pc = "calling", !.calls = calls]
CallSpan(h) == NewSpanEvent(span[h], CallEvent)

\* The caller's side of a call: its event opens, and its headers are the
\* context of its span.
LEMMA CallerBegins ==
    ASSUME WebInv, NEW h \in Hops, hop[h].app \in Relays,
           hop[h].pc = IF hop[h].app = "curl" THEN "traced" ELSE "handling",
           NEW calls \in {"here", "elsewhere"}
    PROVE  /\ span[h].phase = "open" /\ hop[h].calls = "none"
           /\ Calling(h, calls) \in HopRecords
           /\ Calling(h, calls).calls = calls /\ Calling(h, calls).pc = "calling"
           /\ Calling(h, calls).headers = hop[h].headers
           /\ Calling(h, calls).result = "none"
           /\ CallSpan(h) \in SpanRecords /\ CallSpan(h).kind = span[h].kind
           /\ Says(Calling(h, calls), CallSpan(h), response[h], wrong[h])
           /\ OutgoingHeaders(h) \in [kind : {"none", "unsampled", "sampled"},
                                      from : Hops \cup {NoSpan}]
<1> DEFINE v == Calling(h, calls)
           s == CallSpan(h)
<1>0. v = [hop[h] EXCEPT !.pc = "calling", !.calls = calls]
      /\ s = NewSpanEvent(span[h], CallEvent)
  BY DEF Calling, CallSpan
<1> HIDE DEF v, s
<1>1. /\ hop[h] \in HopRecords /\ span[h] \in SpanRecords
      /\ Placed(hop[h]) /\ Recorded(hop[h], span[h])
      /\ Blames(hop[h], span[h], wrong[h]) /\ Answers(hop[h], span[h], response[h])
  BY OfHop
<1>2. /\ span[h].phase = "open"
      /\ span[h].stack = IF hop[h].app = "curl" THEN <<>> ELSE <<HandlerEvent>>
  BY <1>1 DEF Recorded, InThread, OpenEvents
<1>3. /\ s.stack = IF hop[h].app = "curl" THEN <<CallEvent>>
                   ELSE <<HandlerEvent, CallEvent>>
      /\ s \in SpanRecords /\ s.phase = "open"
      /\ s.kind = span[h].kind /\ s.parent = span[h].parent
      /\ s.error = span[h].error /\ s.failed = span[h].failed
  <2>1. s \in SpanRecords
    BY <1>1, EventsApart, <1>0, ApiTypes DEF SpanRecords
  <2>2. s.stack = Append(span[h].stack, CallEvent)
    BY <1>0, <1>1 DEF NewSpanEvent, SpanRecords, SpanType
  <2>3. /\ s.phase = span[h].phase /\ s.kind = span[h].kind
        /\ s.parent = span[h].parent /\ s.error = span[h].error
        /\ s.failed = span[h].failed
    BY <1>0, <1>1 DEF NewSpanEvent, SpanRecords, SpanType
  <2>4. /\ Append(<<>>, CallEvent) = <<CallEvent>>
        /\ Append(<<HandlerEvent>>, CallEvent) = <<HandlerEvent, CallEvent>>
    BY Pushes
  <2> QED BY <1>2, <2>1, <2>2, <2>3, <2>4
<1>4. /\ v \in HopRecords /\ v.pc = "calling" /\ v.app = hop[h].app
      /\ v.headers = hop[h].headers /\ v.calls = calls
      /\ v.result = hop[h].result /\ v.broken = hop[h].broken
  BY <1>0, <1>1 DEF HopRecords
<1>5. hop[h].calls = "none" /\ hop[h].result = "none" /\ ~hop[h].broken
      /\ v.app # "none" /\ v.app \notin Stores /\ v.app # "civetweb"
  BY <1>1, <1>4 DEF Placed, Relays, Stores
<1>6. OutgoingHeaders(h) \in [kind : {"none", "unsampled", "sampled"},
                              from : Hops \cup {NoSpan}]
  BY <1>1 DEF OutgoingHeaders, InjectContext, NoContext, SpanRecords, SpanType, Kinds
<1>7. Placed(v) /\ Recorded(v, s)
  BY <1>1, <1>2, <1>3, <1>4, <1>5
     DEF Placed, Recorded, Untouched, InThread, OpenEvents
<1>8. Blames(v, s, wrong[h]) /\ Answers(v, s, response[h])
  BY <1>1, <1>3, <1>4, <1>5 DEF Blames, Answers
<1> QED BY <1>2, <1>3, <1>4, <1>5, <1>6, <1>7, <1>8 DEF Says, v, s

\* perform_curl_request and handle_outgoing send their call.
LEMMA BeginCallKeeps ==
    ASSUME WebInv, NEW h \in Hops, BeginCall(h)
    PROVE  WebInv' /\ U!P!Next
<1> DEFINE s == CallSpan(h)
           d == Callee(h)
<1>1. /\ hop[h].pc = IF hop[h].app = "curl" THEN "traced" ELSE "handling"
      /\ hop[h].app \in Relays
      /\ span' = [span EXCEPT ![h] = s]
      /\ UNCHANGED <<response, wrong, ready, civetweb, cuts>>
  BY OfHop DEF BeginCall, CallSpan
<1>2. /\ wrong[h] \subseteq Events /\ response[h] \in Statuses /\ Elsewhere'
  BY <1>1, OfHop DEF Elsewhere
<1>3. span[h].phase = "open"
  BY <1>1, CallerBegins
<1>4. U!P!Next
  BY <1>1, <1>3, EventsApart, MapOpens DEF CallSpan
<1>5. CASE hop' = [hop EXCEPT ![h].pc = "calling", ![h].calls = "elsewhere"]
  <2> DEFINE v == Calling(h, "elsewhere")
  <2>1. hop' = [hop EXCEPT ![h] = v]
    BY <1>5, OfHop DEF Calling
  <2>2. /\ v \in HopRecords /\ v.calls = "elsewhere" /\ v.pc = "calling"
        /\ v.headers = hop[h].headers /\ s \in SpanRecords
        /\ hop[h].calls = "none" /\ Says(v, s, response[h], wrong[h])
    BY <1>1, CallerBegins
  <2> HIDE DEF v, s
  <2>3. Goes(h, v, s, response[h], wrong[h])
    BY <1>1, <1>2, <2>1, <2>2, OfHop DEF Goes
  <2> QED BY <1>2, <1>4, <2>3, HopGoes
<1>6. ASSUME NEW a \in Apps, d \in Hops,
             hop' = [hop EXCEPT ![h].pc = "calling", ![h].calls = "here",
                                ![d] = Sent(a, OutgoingHeaders(h))]
      PROVE  WebInv'
  <2> DEFINE v == Calling(h, "here")
             w == Sent(a, OutgoingHeaders(h))
  <2>1. /\ v \in HopRecords /\ v.calls = "here" /\ v.pc = "calling"
        /\ v.headers = hop[h].headers /\ v.result = "none"
        /\ s \in SpanRecords /\ s.kind = span[h].kind
        /\ hop[h].calls = "none" /\ Says(v, s, response[h], wrong[h])
        /\ OutgoingHeaders(h) \in [kind : {"none", "unsampled", "sampled"},
                                   from : Hops \cup {NoSpan}]
    BY <1>1, CallerBegins
  <2>2. /\ w \in HopRecords /\ w.pc = "sent" /\ w.calls = "none"
        /\ w.headers = OutgoingHeaders(h) /\ Says(w, Unborn, "none", {})
    BY <2>1, SentIsFine
  <2>3. /\ d # h /\ Callee(d) # h /\ Callee(d) # d
        /\ \A c \in Hops : Callee(c) = d => c = h
    BY <1>6, Neighbours
  <2>4. /\ hop[d].pc = "none" /\ hop[d].calls = "none" /\ span[d] = Unborn
        /\ response[d] = "none" /\ wrong[d] = {}
    BY <1>6, <2>1, CalleeIsAbsent
  <2>5. InjectContext(s, h) = OutgoingHeaders(h)
    BY <2>1 DEF InjectContext, OutgoingHeaders
  <2>6. hop' = [hop EXCEPT ![h] = v, ![d] = w]
    BY <1>6, <2>3, OfHop DEF Calling
  <2> HIDE DEF v, w, s, d
  <2>7. /\ hop'[h] = v /\ hop'[d] = w /\ \A g \in Hops \ {h, d} : hop'[g] = hop[g]
        /\ span'[h] = s /\ \A g \in Hops \ {h} : span'[g] = span[g]
    BY <1>1, <1>6, <2>3, <2>6 DEF WebInv, TypeOK
  <2>8. TypeOK'
    <3>1. hop' \in [Hops -> HopRecords] /\ span' \in [Hops -> SpanRecords]
      BY <1>1, <2>1, <2>2, <2>6 DEF WebInv, TypeOK, SpanRecords
    <3> QED BY <1>1, <3>1 DEF WebInv, TypeOK, SpanRecords
  <2>9. ASSUME NEW g \in Hops PROVE Says(hop'[g], span'[g], response'[g], wrong'[g])
    <3>1. CASE g = h
      BY <3>1, <1>1, <2>1, <2>7
    <3>2. CASE g = d
      BY <3>2, <1>1, <2>2, <2>3, <2>4, <2>7
    <3>3. CASE g # h /\ g # d
      BY <3>3, <1>1, <2>7 DEF WebInv
    <3> QED BY <3>1, <3>2, <3>3
  <2>10. ASSUME NEW c \in Hops, NEW e \in Hops, e = Callee(c)
         PROVE  Tied(c, hop'[c], span'[c], hop'[e], response'[e])
    <3>1. Tied(c, hop[c], span[c], hop[e], response[e])
      BY <2>10 DEF WebInv
    <3>2. CASE c = h
      <4>1. e = d /\ hop'[c] = v /\ span'[c] = s /\ hop'[e] = w
        BY <3>2, <2>7, <2>10 DEF d
      <4>2. v.calls = "here" /\ v.result # "ok"
        BY <2>1
      <4>3. w.headers = InjectContext(s, c)
        BY <3>2, <2>2, <2>5
      <4> QED BY <4>1, <4>2, <4>3 DEF Tied
    <3>3. CASE c = d
      <4>1. e # h /\ e # d
        BY <3>3, <2>3, <2>10
      <4>2. hop'[c] = w /\ hop'[e] = hop[e]
        BY <3>3, <4>1, <2>7
      <4> QED BY <3>1, <3>3, <4>2, <2>2, <2>4 DEF Tied
    <3>4. CASE c # h /\ c # d
      <4>1. hop'[c] = hop[c] /\ span'[c] = span[c] /\ response'[e] = response[e]
        BY <3>4, <2>7, <1>1
      <4>2. e # d
        BY <3>4, <2>3, <2>10
      <4>3. CASE e = h
        BY <3>1, <4>1, <4>3, <2>1, <2>7, <1>1, OfHop DEF Tied, Relays
      <4>4. CASE e # h
        BY <3>1, <4>1, <4>2, <4>4, <2>7
      <4> QED BY <4>3, <4>4
    <3> QED BY <3>2, <3>3, <3>4
  <2> QED BY <2>8, <2>9, <2>10 DEF WebInv
<1> QED BY <1>4, <1>5, <1>6 DEF BeginCall

\* The end of a call, however it comes about.
LEMMA CallReturnsKeeps ==
    ASSUME WebInv, NEW h \in Hops, NEW ok \in BOOLEAN, hop[h].pc = "calling",
           CallReturns(h, ok), cuts' \in 0 .. MaxCuts,
           ok /\ hop[h].calls = "here" => response[Callee(h)] # "none"
    PROVE  WebInv' /\ U!P!Next
<1> DEFINE a == hop[h].app
           pc == IF a = "curl" THEN "responding" ELSE "leaving"
           result == IF ok THEN "ok" ELSE "bad"
           v == [hop[h] EXCEPT !.pc = pc, !.result = result]
           blamed == ~ok /\ a = "curl"
           s == EndEvent(span[h], CallEvent, blamed)
           bad == IF ok THEN wrong[h] ELSE wrong[h] \cup {CallEvent}
<1>1. /\ hop' = [hop EXCEPT ![h] = v] /\ span' = [span EXCEPT ![h] = s]
      /\ wrong' = [wrong EXCEPT ![h] = bad]
      /\ UNCHANGED <<response, ready, civetweb>>
  BY OfHop DEF CallReturns, EndCallEvent
<1>2. /\ hop[h] \in HopRecords /\ span[h] \in SpanRecords
      /\ Placed(hop[h]) /\ Recorded(hop[h], span[h])
      /\ Blames(hop[h], span[h], wrong[h]) /\ Answers(hop[h], span[h], response[h])
      /\ wrong[h] \subseteq Events /\ response[h] \in Statuses
  BY OfHop
<1>3. a \in {"curl", "cpptrace"} /\ hop[h].result = "none"
      /\ span[h].phase = "open" /\ wrong[h] = {} /\ span[h].failed = {}
      /\ span[h].stack = IF a = "curl" THEN <<CallEvent>>
                         ELSE <<HandlerEvent, CallEvent>>
  BY <1>2 DEF Placed, Recorded, Blames, InThread, OpenEvents, Relays, Stores
<1>4. /\ span[h].stack # <<>> /\ span[h].stack[Len(span[h].stack)] = CallEvent
      /\ SubSeq(span[h].stack, 1, Len(span[h].stack) - 1) =
            IF a = "curl" THEN <<>> ELSE <<HandlerEvent>>
  <2> DEFINE st == span[h].stack
  <2> HIDE DEF st
  <2>1. ASSUME st = <<CallEvent>>
        PROVE  st # <<>> /\ st[Len(st)] = CallEvent /\ SubSeq(st, 1, Len(st) - 1) = <<>>
    BY <2>1, ShortStacks
  <2>2. ASSUME st = <<HandlerEvent, CallEvent>>
        PROVE  /\ st # <<>> /\ st[Len(st)] = CallEvent
               /\ SubSeq(st, 1, Len(st) - 1) = <<HandlerEvent>>
    BY <2>2, ShortStacks
  <2> QED BY <2>1, <2>2, <1>3 DEF st
<1>5. blamed \in BOOLEAN /\ bad \subseteq Events /\ bad = (IF ok THEN {} ELSE {CallEvent})
  BY <1>2, <1>3, EventsApart
<1>6. /\ s \in SpanRecords /\ s.phase = "open"
      /\ s.stack = IF a = "curl" THEN <<>> ELSE <<HandlerEvent>>
      /\ s.failed = IF blamed THEN {CallEvent} ELSE {}
      /\ s.kind = span[h].kind /\ s.parent = span[h].parent
      /\ s.error = span[h].error
  <2> HIDE DEF blamed
  <2>1. s \in SpanRecords
    BY <1>2, <1>5, EventsApart, ApiTypes DEF SpanRecords
  <2>2. /\ s.stack = SubSeq(span[h].stack, 1, Len(span[h].stack) - 1)
        /\ s.failed = IF blamed THEN span[h].failed \cup {CallEvent}
                      ELSE span[h].failed
        /\ s.phase = span[h].phase
        /\ s.kind = span[h].kind /\ s.parent = span[h].parent
        /\ s.error = span[h].error
    BY <1>2 DEF EndEvent, SpanRecords, SpanType
  <2> HIDE DEF s
  <2> QED BY <2>1, <2>2, <1>3, <1>4
<1>7. /\ v \in HopRecords /\ v.pc = pc /\ v.app = a
      /\ v.headers = hop[h].headers /\ v.calls = hop[h].calls
      /\ v.result = result /\ v.broken = hop[h].broken
  BY <1>2 DEF HopRecords
<1>8. U!P!Next
  <2> HIDE DEF blamed
  <2> QED BY <1>1, <1>3, <1>4, <1>5, MapEnds
<1> HIDE DEF v, s, bad
<1>9. Placed(v) /\ Recorded(v, s)
  BY <1>2, <1>3, <1>6, <1>7
     DEF Placed, Recorded, Untouched, InThread, OpenEvents, Relays, Stores
<1>10. Blames(v, s, bad) /\ Answers(v, s, response[h])
  BY <1>2, <1>3, <1>5, <1>6, <1>7 DEF Blames, Answers, Stores
<1>11. Goes(h, v, s, response[h], bad)
  <2>1. v.pc # "none" /\ hop[h].pc # "none" /\ (result = "ok" => ok)
    BY <1>7
  <2>2. response' = [response EXCEPT ![h] = response[h]]
    BY <1>1, OfHop
  <2> QED BY <1>1, <1>2, <1>5, <1>6, <1>7, <1>9, <1>10, <2>1, <2>2 DEF Goes, Says
<1>12. Elsewhere'
  BY <1>1, OfHop DEF Elsewhere
<1>13. WebInv'
  BY <1>11, <1>12, HopGoes
<1> QED BY <1>8, <1>13

\* An answer, a refusal, a timeout, a broken connection.
LEMMA CallEndsKeeps ==
    ASSUME WebInv, NEW h \in Hops,
           CallAnswered(h) \/ CallDropped(h) \/ CallTimesOut(h) \/ CallCut(h)
    PROVE  WebInv' /\ U!P!Next
<1>1. MaxCuts \in Nat /\ cuts \in 0 .. MaxCuts
  BY WebAssumption DEF WebInv, TypeOK
<1>2. CASE CallAnswered(h)
  <2>1. cuts' = cuts /\ hop[h].pc = "calling"
    BY <1>2 DEF CallAnswered, CallsHere
  <2>2. PICK ok \in BOOLEAN : /\ CallReturns(h, ok)
                              /\ ok /\ hop[h].calls = "here" =>
                                    response[Callee(h)] # "none"
    <3>1. CASE CallsHere(h) /\ response[Callee(h)] # "none" /\ CallReturns(h, TRUE)
      BY <3>1
    <3>2. CASE hop[h].calls = "elsewhere" /\ \E ok \in BOOLEAN : CallReturns(h, ok)
      BY <3>2
    <3> QED BY <1>2, <3>1, <3>2 DEF CallAnswered
  <2> QED BY <1>1, <2>1, <2>2, CallReturnsKeeps
<1>3. CASE CallDropped(h) \/ CallTimesOut(h) \/ CallCut(h)
  <2>1. hop[h].pc = "calling" /\ CallReturns(h, FALSE)
    BY <1>3 DEF CallDropped, CallTimesOut, CallCut, CallsHere
  <2>2. cuts' = cuts \/ (cuts < MaxCuts /\ cuts' = cuts + 1)
    BY <1>3 DEF CallDropped, CallTimesOut, CallCut
  <2>3. cuts' \in 0 .. MaxCuts
    BY <1>1, <2>2, SMT
  <2> QED BY <2>1, <2>3, CallReturnsKeeps
<1> QED BY <1>2, <1>3

-----------------------------------------------------------------------------
(* Commands. *)

\* redisConnectWithTimeout, or the URI of mongo.
LEMMA ConnectKeeps ==
    ASSUME WebInv, NEW h \in Hops, Connect(h)
    PROVE  WebInv' /\ UNCHANGED U!P!vars
<1>1. /\ hop[h].pc = "handling" /\ hop[h].app \in Stores
      /\ UNCHANGED <<span, response, ready, civetweb, cuts>>
  BY DEF Connect
<1>2. /\ hop[h] \in HopRecords /\ span[h] \in SpanRecords
      /\ Placed(hop[h]) /\ Recorded(hop[h], span[h])
      /\ Blames(hop[h], span[h], wrong[h]) /\ Answers(hop[h], span[h], response[h])
      /\ wrong[h] \subseteq Events /\ response[h] \in Statuses
  BY OfHop
<1>3. /\ hop[h].calls = "none" /\ hop[h].result = "none" /\ ~hop[h].broken
      /\ hop[h].app # "none" /\ hop[h].app \notin {"curl", "cpptrace", "civetweb"}
      /\ span[h].phase = "open" /\ span[h].stack = <<HandlerEvent>>
      /\ span[h].failed = wrong[h] /\ HandlerEvent \notin wrong[h]
  BY <1>1, <1>2 DEF Placed, Recorded, Blames, InThread, OpenEvents, Stores
<1>4. Elsewhere'
  BY <1>1, OfHop DEF Elsewhere
<1>5. CASE hop' = [hop EXCEPT ![h].pc = "command", ![h].at = 1] /\ UNCHANGED wrong
  <2> DEFINE v == [hop[h] EXCEPT !.pc = "command", !.at = 1]
  <2>1. hop' = [hop EXCEPT ![h] = v]
    BY <1>5, OfHop
  <2>2. 1 \in 1 .. Commands /\ 1 \in 0 .. Commands
    BY EventsApart, SMT
  <2>3. /\ v \in HopRecords /\ v.pc = "command" /\ v.app = hop[h].app /\ v.at = 1
        /\ v.headers = hop[h].headers /\ v.calls = hop[h].calls
        /\ v.result = hop[h].result /\ v.broken = hop[h].broken
    BY <1>2, <2>2 DEF HopRecords
  <2> HIDE DEF v
  <2>4. Placed(v) /\ Recorded(v, span[h])
    BY <1>1, <1>2, <1>3, <2>2, <2>3
       DEF Placed, Recorded, Untouched, InThread, OpenEvents
  <2>5. Blames(v, span[h], wrong[h]) /\ Answers(v, span[h], response[h])
    BY <1>1, <1>2, <1>3, <2>3 DEF Blames, Answers
  <2>6. Goes(h, v, span[h], response[h], wrong[h])
    BY <1>1, <1>2, <1>3, <1>5, <2>1, <2>3, <2>4, <2>5, OfHop DEF Goes, Says
  <2> QED BY <1>1, <1>4, <2>6, HopGoes, U!SameRecords
<1>6. CASE /\ hop' = [hop EXCEPT ![h].pc = "leaving", ![h].result = "bad"]
           /\ wrong' = [wrong EXCEPT ![h] = {HandlerEvent}]
  <2> DEFINE v == [hop[h] EXCEPT !.pc = "leaving", !.result = "bad"]
  <2>1. hop' = [hop EXCEPT ![h] = v]
    BY <1>6, OfHop
  <2>2. wrong[h] = {} /\ {HandlerEvent} \subseteq Events
    BY <1>1, <1>2, EventsApart DEF Blames, Placed
  <2>3. /\ v \in HopRecords /\ v.pc = "leaving" /\ v.app = hop[h].app
        /\ v.headers = hop[h].headers /\ v.calls = hop[h].calls
        /\ v.result = "bad" /\ v.broken = hop[h].broken
    BY <1>2 DEF HopRecords
  <2> HIDE DEF v
  <2>4. Placed(v) /\ Recorded(v, span[h])
    BY <1>1, <1>2, <1>3, <2>3
       DEF Placed, Recorded, Untouched, InThread, OpenEvents
  <2>5. Blames(v, span[h], {HandlerEvent}) /\ Answers(v, span[h], response[h])
    BY <1>1, <1>2, <1>3, <2>2, <2>3 DEF Blames, Answers
  <2>6. Goes(h, v, span[h], response[h], {HandlerEvent})
    BY <1>1, <1>2, <1>3, <1>6, <2>1, <2>2, <2>3, <2>4, <2>5, OfHop DEF Goes, Says
  <2> QED BY <1>1, <1>4, <2>6, HopGoes, U!SameRecords
<1> QED BY <1>5, <1>6 DEF Connect

\* A command's event opens.
LEMMA BeginCommandKeeps ==
    ASSUME WebInv, NEW h \in Hops, BeginCommand(h)
    PROVE  WebInv' /\ U!P!Next
<1> DEFINE v == [hop[h] EXCEPT !.pc = "executing"]
           k == hop[h].at
           s == NewSpanEvent(span[h], k)
<1>1. /\ hop[h].pc = "command"
      /\ hop' = [hop EXCEPT ![h] = v] /\ span' = [span EXCEPT ![h] = s]
      /\ UNCHANGED <<response, wrong, ready, civetweb, cuts>>
  BY OfHop DEF BeginCommand
<1>2. /\ hop[h] \in HopRecords /\ span[h] \in SpanRecords
      /\ Placed(hop[h]) /\ Recorded(hop[h], span[h])
      /\ Blames(hop[h], span[h], wrong[h]) /\ Answers(hop[h], span[h], response[h])
      /\ wrong[h] \subseteq Events /\ response[h] \in Statuses
  BY OfHop
<1>3. /\ span[h].phase = "open" /\ span[h].stack = <<HandlerEvent>>
      /\ hop[h].app \in Stores /\ k \in 1 .. Commands /\ k \in Events
      /\ hop[h].result = "none"
  BY <1>1, <1>2, EventsApart DEF Recorded, Placed, InThread, OpenEvents
<1>4. /\ s \in SpanRecords /\ s.phase = "open" /\ s.stack = <<HandlerEvent, k>>
      /\ s.kind = span[h].kind /\ s.parent = span[h].parent
      /\ s.error = span[h].error /\ s.failed = span[h].failed
  <2> HIDE DEF k
  <2>1. s \in SpanRecords
    BY <1>2, <1>3, ApiTypes DEF SpanRecords
  <2>2. s.stack = Append(<<HandlerEvent>>, k)
    BY <1>2, <1>3 DEF NewSpanEvent, SpanRecords, SpanType
  <2>3. /\ s.phase = span[h].phase /\ s.kind = span[h].kind
        /\ s.parent = span[h].parent /\ s.error = span[h].error
        /\ s.failed = span[h].failed
    BY <1>2 DEF NewSpanEvent, SpanRecords, SpanType
  <2> HIDE DEF s
  <2>4. Append(<<HandlerEvent>>, k) = <<HandlerEvent, k>>
    BY ShortStacks
  <2> QED BY <1>3, <2>1, <2>2, <2>3, <2>4
<1>5. /\ v \in HopRecords /\ v.pc = "executing" /\ v.app = hop[h].app /\ v.at = k
      /\ v.headers = hop[h].headers /\ v.calls = hop[h].calls
      /\ v.result = hop[h].result /\ v.broken = hop[h].broken
  BY <1>2 DEF HopRecords
<1>6. v.app # "none" /\ v.app \notin {"curl", "cpptrace", "civetweb"}
  BY <1>3, <1>5 DEF Stores
<1>7. U!P!Next
  BY <1>1, <1>3, MapOpens
<1> HIDE DEF s, v, k
<1>8. Placed(v) /\ Recorded(v, s)
  BY <1>1, <1>2, <1>3, <1>4, <1>5, <1>6
     DEF Placed, Recorded, Untouched, InThread, OpenEvents
<1>9. Blames(v, s, wrong[h]) /\ Answers(v, s, response[h])
  BY <1>1, <1>2, <1>3, <1>4, <1>5, <1>6 DEF Blames, Answers
<1>10. Goes(h, v, s, response[h], wrong[h])
  BY <1>1, <1>2, <1>3, <1>4, <1>5, <1>8, <1>9, OfHop DEF Goes, Says
<1>11. WebInv'
  BY <1>1, <1>10, HopGoes, OfHop DEF Elsewhere
<1> QED BY <1>7, <1>11

\* A command's event ends, with an error unless there was a result; without a
\* connection there is none, up to the last command.
LEMMA EndCommandKeeps ==
    ASSUME WebInv, NEW h \in Hops, EndCommand(h)
    PROVE  WebInv' /\ U!P!Next
<1> DEFINE k == hop[h].at
<1>1. PICK outcome \in Outcomes(h) :
        /\ hop[h].pc = "executing"
        /\ span' = [span EXCEPT ![h] = EndEvent(span[h], k, outcome # "result")]
        /\ hop' = [hop EXCEPT
             ![h] = IF k = Commands
                    THEN [hop[h] EXCEPT !.pc = "leaving", !.result = "ok"]
                    ELSE [hop[h] EXCEPT !.pc = "command", !.at = k + 1,
                                        !.broken = \/ hop[h].broken
                                                   \/ /\ hop[h].app = "redis"
                                                      /\ outcome = "nothing"]]
        /\ wrong' = [wrong EXCEPT ![h] = IF outcome = "result" THEN @ ELSE @ \cup {k}]
        /\ UNCHANGED <<response, ready, civetweb, cuts>>
  BY DEF EndCommand, EndCommandEvent, LastCommand
<1> DEFINE failing == outcome # "result"
           lost == hop[h].broken \/ (hop[h].app = "redis" /\ outcome = "nothing")
           v == IF k = Commands THEN [hop[h] EXCEPT !.pc = "leaving", !.result = "ok"]
                ELSE [hop[h] EXCEPT !.pc = "command", !.at = k + 1, !.broken = lost]
           s == EndEvent(span[h], k, failing)
           bad == IF failing THEN wrong[h] \cup {k} ELSE wrong[h]
<1>2. /\ hop' = [hop EXCEPT ![h] = v] /\ span' = [span EXCEPT ![h] = s]
      /\ wrong' = [wrong EXCEPT ![h] = bad]
  <2>1. hop' = [hop EXCEPT ![h] = v]
    BY <1>1
  <2>2. wrong' = [wrong EXCEPT ![h] = bad]
    BY <1>1, OfHop
  <2> QED BY <1>1, <2>1, <2>2
<1>3. /\ hop[h] \in HopRecords /\ span[h] \in SpanRecords
      /\ Placed(hop[h]) /\ Recorded(hop[h], span[h])
      /\ Blames(hop[h], span[h], wrong[h]) /\ Answers(hop[h], span[h], response[h])
      /\ wrong[h] \subseteq Events /\ response[h] \in Statuses
  BY OfHop
<1>4. /\ span[h].phase = "open" /\ span[h].stack = <<HandlerEvent, k>>
      /\ hop[h].app \in Stores /\ k \in 1 .. Commands /\ k \in Events
      /\ hop[h].result = "none" /\ hop[h].broken \in BOOLEAN
  BY <1>1, <1>3, EventsApart DEF Recorded, Placed, InThread, OpenEvents, HopRecords
<1>5. /\ failing \in BOOLEAN /\ bad \subseteq Events
      /\ k # HandlerEvent /\ (hop[h].broken => failing)
  BY <1>1, <1>3, <1>4, EventsApart DEF Outcomes
<1>6. /\ v.app = hop[h].app /\ v.headers = hop[h].headers /\ v.calls = hop[h].calls
      /\ v \in HopRecords
      /\ \/ /\ k = Commands /\ v.pc = "leaving" /\ v.result = "ok"
            /\ v.broken = hop[h].broken
         \/ v.pc = "command" /\ v.result = "none" /\ v.at \in 1 .. Commands
  <2>1. k # Commands => k + 1 \in 1 .. Commands /\ k + 1 \in 0 .. Commands
    BY <1>4, EventsApart, SMT
  <2>2. lost \in BOOLEAN
    BY <1>4
  <2> HIDE DEF k, lost
  <2>3. CASE k = Commands
    BY <2>3, <1>3, <1>4 DEF HopRecords
  <2>4. CASE k # Commands
    BY <2>1, <2>2, <2>4, <1>3, <1>4 DEF HopRecords
  <2> QED BY <2>3, <2>4
<1> HIDE DEF failing, lost
<1>7. span[h].stack # <<>> /\ span[h].stack[Len(span[h].stack)] = k
      /\ SubSeq(span[h].stack, 1, Len(span[h].stack) - 1) = <<HandlerEvent>>
  <2> DEFINE st == span[h].stack
  <2> HIDE DEF st, k
  <2>1. st = <<HandlerEvent, k>>
    BY <1>4 DEF st
  <2>2. st # <<>> /\ st[Len(st)] = k /\ SubSeq(st, 1, Len(st) - 1) = <<HandlerEvent>>
    BY <2>1, ShortStacks
  <2> QED BY <2>2 DEF st
<1>8. /\ s \in SpanRecords /\ s.phase = "open" /\ s.stack = <<HandlerEvent>>
      /\ s.failed = IF failing THEN span[h].failed \cup {k} ELSE span[h].failed
      /\ s.kind = span[h].kind /\ s.parent = span[h].parent
      /\ s.error = span[h].error
  <2> HIDE DEF k
  <2>1. s \in SpanRecords
    BY <1>3, <1>4, <1>5, ApiTypes DEF SpanRecords
  <2>2. /\ s.stack = SubSeq(span[h].stack, 1, Len(span[h].stack) - 1)
        /\ s.failed = IF failing THEN span[h].failed \cup {k} ELSE span[h].failed
        /\ s.phase = span[h].phase
        /\ s.kind = span[h].kind /\ s.parent = span[h].parent
        /\ s.error = span[h].error
    BY <1>3 DEF EndEvent, SpanRecords, SpanType
  <2> HIDE DEF s
  <2> QED BY <2>1, <2>2, <1>4, <1>7
<1>9. U!P!Next
  <2> HIDE DEF k
  <2> QED BY <1>2, <1>4, <1>5, <1>7, MapEnds
<1>10. v.app # "none" /\ v.app \notin {"curl", "cpptrace", "civetweb"}
  BY <1>4, <1>6 DEF Stores
<1>11. s.failed = bad /\ HandlerEvent \notin bad
       /\ (k = Commands /\ hop[h].broken => Commands \in bad)
  BY <1>1, <1>3, <1>4, <1>5, <1>8 DEF Blames
<1> HIDE DEF s, v, k, bad
<1>12. Placed(v) /\ Recorded(v, s)
  BY <1>1, <1>3, <1>4, <1>6, <1>8, <1>10
     DEF Placed, Recorded, Untouched, InThread, OpenEvents
<1>13. Blames(v, s, bad) /\ Answers(v, s, response[h])
  BY <1>1, <1>3, <1>4, <1>6, <1>8, <1>10, <1>11 DEF Blames, Answers
<1>14. Goes(h, v, s, response[h], bad)
  <2>1. (v.calls = "here") => v.result # "ok"
    BY <1>4, <1>6, <1>3 DEF Placed, Relays, Stores
  <2> QED BY <2>1, <1>1, <1>2, <1>3, <1>5, <1>6, <1>8, <1>12, <1>13, OfHop DEF Goes, Says
<1>15. WebInv'
  BY <1>1, <1>14, HopGoes, OfHop DEF Elsewhere
<1> QED BY <1>9, <1>15

-----------------------------------------------------------------------------
(* The end of a hop. *)

\* The handler returns.
LEMMA LeaveHandlerKeeps ==
    ASSUME WebInv, NEW h \in Hops, LeaveHandler(h)
    PROVE  WebInv' /\ U!P!Next
<1> DEFINE blamed == hop[h].result = "bad"
           v == [hop[h] EXCEPT !.pc = "responding"]
           s == EndEvent(span[h], HandlerEvent, blamed)
<1>1. /\ hop[h].pc = "leaving"
      /\ hop' = [hop EXCEPT ![h] = v] /\ span' = [span EXCEPT ![h] = s]
      /\ UNCHANGED <<response, wrong, ready, civetweb, cuts>>
  BY OfHop DEF LeaveHandler
<1>2. /\ hop[h] \in HopRecords /\ span[h] \in SpanRecords
      /\ Placed(hop[h]) /\ Recorded(hop[h], span[h])
      /\ Blames(hop[h], span[h], wrong[h]) /\ Answers(hop[h], span[h], response[h])
      /\ wrong[h] \subseteq Events /\ response[h] \in Statuses
  BY OfHop
<1>3. /\ span[h].phase = "open" /\ span[h].stack = <<HandlerEvent>>
      /\ hop[h].app # "curl" /\ hop[h].app # "none"
  BY <1>1, <1>2 DEF Recorded, Placed, InThread, OpenEvents
<1>4. span[h].stack # <<>> /\ span[h].stack[Len(span[h].stack)] = HandlerEvent
      /\ SubSeq(span[h].stack, 1, Len(span[h].stack) - 1) = <<>>
  BY <1>3, ShortStacks
<1>5. /\ s \in SpanRecords /\ s.phase = "open" /\ s.stack = <<>>
      /\ s.failed = IF blamed THEN span[h].failed \cup {HandlerEvent}
                    ELSE span[h].failed
      /\ s.kind = span[h].kind /\ s.parent = span[h].parent
      /\ s.error = span[h].error
  <2> HIDE DEF blamed
  <2>1. s \in SpanRecords
    BY <1>2, EventsApart, ApiTypes DEF SpanRecords, blamed
  <2>2. /\ s.stack = SubSeq(span[h].stack, 1, Len(span[h].stack) - 1)
        /\ s.failed = IF blamed THEN span[h].failed \cup {HandlerEvent}
                      ELSE span[h].failed
        /\ s.phase = span[h].phase
        /\ s.kind = span[h].kind /\ s.parent = span[h].parent
        /\ s.error = span[h].error
    BY <1>2 DEF EndEvent, SpanRecords, SpanType
  <2> HIDE DEF s
  <2> QED BY <2>1, <2>2, <1>3, <1>4
<1>6. /\ v \in HopRecords /\ v.pc = "responding" /\ v.app = hop[h].app
      /\ v.headers = hop[h].headers /\ v.calls = hop[h].calls
      /\ v.result = hop[h].result /\ v.broken = hop[h].broken
  BY <1>2 DEF HopRecords
<1>7. U!P!Next
  <2>1. blamed \in BOOLEAN
    OBVIOUS
  <2> HIDE DEF blamed
  <2> QED BY <1>1, <1>3, <1>4, <2>1, MapEnds
<1> HIDE DEF s, v
<1>8. Placed(v) /\ Recorded(v, s)
  BY <1>1, <1>2, <1>3, <1>5, <1>6
     DEF Placed, Recorded, Untouched, InThread, OpenEvents
<1>9. Blames(v, s, wrong[h]) /\ Answers(v, s, response[h])
  <2>1. Answers(v, s, response[h])
    BY <1>1, <1>2, <1>3, <1>5, <1>6 DEF Answers
  <2>2. CASE v.app \in Stores
    <3>1. s.failed = wrong[h]
      BY <2>2, <1>1, <1>2, <1>5, <1>6 DEF Blames
    <3>2. v.app \notin {"none", "curl", "cpptrace", "civetweb"}
      BY <2>2 DEF Stores
    <3>3. /\ (HandlerEvent \in wrong[h]) = (v.result = "bad")
          /\ v.broken => Commands \in wrong[h]
      BY <2>2, <1>1, <1>2, <1>6 DEF Blames
    <3> QED BY <2>1, <2>2, <3>1, <3>2, <3>3, <1>6 DEF Blames
  <2>3. CASE v.app \notin Stores
    <3>1. wrong[h] = IF v.result = "bad" THEN {CallEvent} ELSE {}
      BY <2>3, <1>2, <1>6 DEF Blames
    <3>2. v.app \in {"cpptrace", "civetweb"} => span[h].failed = {}
      BY <1>1, <1>2, <1>6 DEF Blames
    <3>3. v.app = "civetweb" => v.result # "bad"
      BY <1>2, <1>6 DEF Blames
    <3>4. v.app \in {"cpptrace", "civetweb"} =>
             s.failed = IF v.result = "bad" THEN {HandlerEvent} ELSE {}
      BY <3>2, <1>5, <1>6
    <3> QED BY <2>1, <2>3, <3>1, <3>3, <3>4, <1>3, <1>6 DEF Blames
  <2> QED BY <2>1, <2>2, <2>3
<1>10. Goes(h, v, s, response[h], wrong[h])
  <2>1. hop[h].calls = "here" /\ hop[h].result = "ok" /\ Callee(h) \in Hops =>
           response[Callee(h)] # "none"
    BY DEF WebInv, Tied
  <2> QED BY <2>1, <1>1, <1>2, <1>5, <1>6, <1>8, <1>9, OfHop DEF Goes, Says
<1>11. WebInv'
  BY <1>1, <1>10, HopGoes, OfHop DEF Elsewhere
<1> QED BY <1>7, <1>11

\* trace_response, and the end of curl's and civetweb's handlers.
LEMMA TraceResponseKeeps ==
    ASSUME WebInv, NEW h \in Hops, TraceResponse(h)
    PROVE  WebInv' /\ U!P!Next
<1> DEFINE blamed == hop[h].app = "curl" /\ hop[h].result = "bad"
           v == [hop[h] EXCEPT !.pc = "done"]
           s == EndSpan(span[h], blamed)
<1>1. /\ hop[h].pc = "responding"
      /\ hop' = [hop EXCEPT ![h] = v] /\ span' = [span EXCEPT ![h] = s]
      /\ response' = [response EXCEPT ![h] = Status(h)]
      /\ UNCHANGED <<wrong, ready, civetweb, cuts>>
  BY OfHop DEF TraceResponse
<1>2. /\ hop[h] \in HopRecords /\ span[h] \in SpanRecords
      /\ Placed(hop[h]) /\ Recorded(hop[h], span[h])
      /\ Blames(hop[h], span[h], wrong[h]) /\ Answers(hop[h], span[h], response[h])
      /\ wrong[h] \subseteq Events /\ response[h] \in Statuses
  BY OfHop
<1>3. /\ span[h].phase = "open" /\ span[h].stack = <<>> /\ hop[h].app # "none"
      /\ span[h].error \in BOOLEAN /\ ~span[h].error
  BY <1>1, <1>2
     DEF Recorded, Placed, Answers, InThread, OpenEvents, SpanRecords, SpanType
<1>4. blamed \in BOOLEAN
  OBVIOUS
<1>5. /\ s \in SpanRecords /\ s.phase = "ended" /\ s.stack = span[h].stack
      /\ s.failed = span[h].failed
      /\ s.kind = span[h].kind /\ s.parent = span[h].parent
      /\ s.error = blamed
  <2> HIDE DEF blamed
  <2>1. s \in SpanRecords
    BY <1>2, <1>4, EventsApart, ApiTypes DEF SpanRecords
  <2>2. /\ s.phase = "ended" /\ s.stack = span[h].stack /\ s.failed = span[h].failed
        /\ s.kind = span[h].kind /\ s.parent = span[h].parent
        /\ s.error = (span[h].error \/ blamed)
    BY <1>2 DEF EndSpan, SpanRecords, SpanType
  <2> HIDE DEF s
  <2> QED BY <2>1, <2>2, <1>3, <1>4
<1>6. /\ v \in HopRecords /\ v.pc = "done" /\ v.app = hop[h].app
      /\ v.headers = hop[h].headers /\ v.calls = hop[h].calls
      /\ v.result = hop[h].result /\ v.broken = hop[h].broken
  BY <1>2 DEF HopRecords
<1>7. U!P!Next
  <2> HIDE DEF blamed
  <2> QED BY <1>1, <1>3, <1>4, MapEndsSpan
<1> HIDE DEF s, v
<1>8. Status(h) \in Statuses /\ Status(h) # "none"
  BY DEF Status, Statuses
<1>9. Placed(v) /\ Recorded(v, s)
  BY <1>1, <1>2, <1>3, <1>5, <1>6
     DEF Placed, Recorded, Untouched, InThread, OpenEvents
<1>10. Blames(v, s, wrong[h]) /\ Answers(v, s, Status(h))
  <2>1. Blames(v, s, wrong[h])
    BY <1>1, <1>2, <1>3, <1>5, <1>6 DEF Blames
  <2>2. Answers(v, s, Status(h))
    BY <1>5, <1>6 DEF Answers, Status
  <2> QED BY <2>1, <2>2
<1>11. Goes(h, v, s, Status(h), wrong[h])
  <2>1. hop[h].calls = "here" /\ hop[h].result = "ok" /\ Callee(h) \in Hops =>
           response[Callee(h)] # "none"
    BY DEF WebInv, Tied
  <2> QED BY <2>1, <1>1, <1>2, <1>5, <1>6, <1>8, <1>9, <1>10, OfHop DEF Goes, Says
<1>12. WebInv'
  BY <1>1, <1>11, HopGoes, OfHop DEF Elsewhere
<1> QED BY <1>7, <1>12

-----------------------------------------------------------------------------
(* main of civetweb. *)

\* Enter is pressed: requests without a thread are dropped.
LEMMA CivetwebStopsKeeps ==
    ASSUME WebInv, CivetwebStops
    PROVE  WebInv' /\ UNCHANGED U!P!vars
<1> DEFINE drops(h) == hop[h].pc = "sent" /\ hop[h].app = "civetweb"
           to(h) == IF drops(h) THEN [hop[h] EXCEPT !.pc = "dropped"] ELSE hop[h]
<1>1. /\ hop' = [h \in Hops |-> to(h)] /\ civetweb' = "stopping"
      /\ UNCHANGED <<span, response, wrong, ready, cuts>>
  BY DEF CivetwebStops
<1>2. ASSUME NEW h \in Hops
      PROVE  /\ to(h) \in HopRecords /\ to(h).headers = hop[h].headers
             /\ to(h).calls = hop[h].calls /\ to(h).result = hop[h].result
             /\ to(h).pc = "none" => hop[h].pc = "none"
             /\ hop[h].pc = "none" => to(h).pc = "none"
             /\ Says(to(h), span[h], response[h], wrong[h])
  <2>1. CASE ~drops(h)
    BY <2>1, OfHop DEF Says
  <2>2. CASE drops(h)
    <3> DEFINE v == [hop[h] EXCEPT !.pc = "dropped"]
    <3>1. /\ v \in HopRecords /\ v.pc = "dropped" /\ v.app = hop[h].app
          /\ v.headers = hop[h].headers /\ v.calls = hop[h].calls
          /\ v.result = hop[h].result /\ v.broken = hop[h].broken
      BY OfHop DEF HopRecords
    <3> HIDE DEF v
    <3>2. Placed(v) /\ Recorded(v, span[h])
      <4>1. hop[h].pc = "sent" /\ Placed(hop[h]) /\ Recorded(hop[h], span[h])
        BY <2>2, OfHop
      <4>2. Placed(v)
        BY <3>1, <4>1 DEF Placed, Untouched
      <4>3. span[h] = Unborn /\ Unborn.phase = "none"
        BY <4>1 DEF Recorded, Untouched, Unborn
      <4> QED BY <3>1, <4>2, <4>3 DEF Recorded, Untouched, InThread
    <3>3. Blames(v, span[h], wrong[h]) /\ Answers(v, span[h], response[h])
      BY <2>2, <3>1, OfHop DEF Blames, Answers, Stores
    <3>4. to(h) = v
      BY <2>2 DEF v
    <3> QED BY <2>2, <3>1, <3>2, <3>3, <3>4 DEF Says
  <2> QED BY <2>1, <2>2
<1> HIDE DEF to
<1>3. TypeOK'
  <2>1. hop' \in [Hops -> HopRecords]
    BY <1>1, <1>2
  <2> QED BY <1>1, <2>1 DEF WebInv, TypeOK
<1>4. \A h \in Hops : Says(hop'[h], span'[h], response'[h], wrong'[h])
  BY <1>1, <1>2
<1>5. ASSUME NEW c \in Hops, Callee(c) \in Hops
      PROVE  Tied(c, hop'[c], span'[c], hop'[Callee(c)], response'[Callee(c)])
  <2>1. Tied(c, hop[c], span[c], hop[Callee(c)], response[Callee(c)])
    BY <1>5 DEF WebInv
  <2> QED BY <2>1, <1>1, <1>2, <1>5 DEF Tied
<1> QED BY <1>1, <1>3, <1>4, <1>5, U!SameRecords DEF WebInv

\* The agent is shut down when no thread has a span open.
LEMMA CivetwebShutsDownKeeps ==
    ASSUME WebInv, CivetwebShutsDown
    PROVE  WebInv' /\ UNCHANGED U!P!vars
<1>1. ASSUME NEW h \in Hops, hop[h].app = "civetweb" PROVE Lose(span[h]) = span[h]
  <2>1. hop[h].pc \in {"sent", "dropped", "done"}
    BY <1>1 DEF CivetwebShutsDown, MayShutDown, Serving
  <2>2. Recorded(hop[h], span[h])
    BY OfHop
  <2> QED BY <2>1, <2>2 DEF Recorded, Untouched, Unborn, Lose
<1>2. span' = [h \in Hops |-> span[h]]
  BY <1>1 DEF CivetwebShutsDown
<1>3. span' = span /\ UNCHANGED <<hop, response, wrong>>
  BY <1>2 DEF WebInv, TypeOK, CivetwebShutsDown
<1>4. Elsewhere'
  BY DEF CivetwebShutsDown, WebInv, TypeOK, Elsewhere
<1> QED BY <1>3, <1>4, HopsRest

-----------------------------------------------------------------------------
(* The theorems. *)

\* Every step keeps the invariant, and is a step of SpanProtocol or changes no span.
LEMMA NextWeb == WebInv /\ [Next]_vars => WebInv' /\ [U!P!Next]_(U!P!vars)
<1> SUFFICES ASSUME WebInv, [Next]_vars PROVE WebInv' /\ [U!P!Next]_(U!P!vars)
  OBVIOUS
<1>1. ASSUME NEW h \in Hops, ThreadStep(h) PROVE WebInv' /\ [U!P!Next]_(U!P!vars)
  <2>1. CASE TraceRequest(h) \/ ServeUntraced(h) \/ EnterHandler(h) \/ HandleUsers(h)
    BY <2>1, TraceRequestKeeps, ServeUntracedKeeps, EnterHandlerKeeps, HandleUsersKeeps
  <2>2. CASE BeginCall(h) \/ CallAnswered(h) \/ CallDropped(h) \/ CallTimesOut(h)
    BY <2>2, BeginCallKeeps, CallEndsKeeps
  <2>3. CASE Connect(h) \/ BeginCommand(h) \/ EndCommand(h)
    BY <2>3, ConnectKeeps, BeginCommandKeeps, EndCommandKeeps
  <2>4. CASE LeaveHandler(h) \/ TraceResponse(h)
    BY <2>4, LeaveHandlerKeeps, TraceResponseKeeps
  <2> QED BY <1>1, <2>1, <2>2, <2>3, <2>4 DEF ThreadStep
<1>2. ASSUME NEW h \in Hops, NEW a \in Apps, UserSends(h, a)
      PROVE  WebInv' /\ [U!P!Next]_(U!P!vars)
  BY <1>2, UserSendsKeeps
<1>3. ASSUME NEW h \in Hops, CallCut(h) PROVE WebInv' /\ [U!P!Next]_(U!P!vars)
  BY <1>3, CallEndsKeeps
<1>4. ASSUME NEW a \in Apps, Register(a) PROVE WebInv' /\ [U!P!Next]_(U!P!vars)
  <2>1. Elsewhere' /\ UNCHANGED <<span, hop, response, wrong>>
    BY <1>4 DEF Register, WebInv, TypeOK, Elsewhere
  <2> QED BY <2>1, HopsRest
<1>5. CASE CivetwebStarts
  <2>1. Elsewhere' /\ UNCHANGED <<span, hop, response, wrong>>
    BY <1>5 DEF CivetwebStarts, WebInv, TypeOK, Elsewhere
  <2> QED BY <2>1, HopsRest
<1>6. CASE CivetwebStops \/ CivetwebShutsDown
  BY <1>6, CivetwebStopsKeeps, CivetwebShutsDownKeeps
<1>7. CASE Rests \/ UNCHANGED vars
  <2>1. Elsewhere' /\ UNCHANGED <<span, hop, response, wrong>>
    BY <1>7 DEF Rests, vars, WebInv, TypeOK, Elsewhere
  <2> QED BY <2>1, HopsRest
<1> QED BY <1>1, <1>2, <1>3, <1>4, <1>5, <1>6, <1>7 DEF Next

\* The inductive invariant holds in every reachable state.
THEOREM WebInvariance == Spec => []WebInv
<1>1. Init => WebInv
  BY InitWeb
<1>2. WebInv /\ [Next]_vars => WebInv'
  BY NextWeb
<1> QED BY <1>1, <1>2, PTL DEF Spec

\* Every variable keeps its type (the five HTTP programs, all of them).
THEOREM WebTypeCorrect == Spec => []TypeOK
<1>1. WebInv => TypeOK
  BY DEF WebInv
<1> QED BY <1>1, WebInvariance, PTL

\* What a hop has answered stays its answer; civetweb, which writes it before its
\* event ends, has nothing else to say at the end.
AnswersStay == \A h \in Hops : response[h] # "none" => response'[h] = response[h]

\* An answer is there before a hop is done for civetweb's "200" alone.
LEMMA EarlyAnswer ==
    ASSUME WebInv, NEW h \in Hops, hop[h].pc # "done", response[h] # "none"
    PROVE  /\ hop[h].app = "civetweb" /\ hop[h].pc \in {"leaving", "responding"}
           /\ response[h] = "200" /\ hop[h].result # "bad"
BY OfHop DEF Answers, Blames

\* The handlers of the five programs answer once.
THEOREM AnswersAreFinal == Spec => [][AnswersStay]_vars
<1>1. ASSUME WebInv, [Next]_vars PROVE [AnswersStay]_vars
  <2>0. response \in [Hops -> Statuses]
    BY <1>1 DEF WebInv, TypeOK, Statuses
  <2>1. ASSUME NEW h \in Hops, NEW status,
               response' = [response EXCEPT ![h] = status],
               response[h] = "none" \/ status = response[h]
        PROVE  AnswersStay
    BY <2>0, <2>1 DEF AnswersStay
  <2>2. ASSUME NEW h \in Hops, ServeUntraced(h) PROVE AnswersStay
    <3>1. /\ hop[h].pc = "sent"
          /\ \E status : response' = [response EXCEPT ![h] = status]
      BY <2>2 DEF ServeUntraced, HasThread
    <3>2. response[h] = "none"
      BY <1>1, <3>1, EarlyAnswer
    <3> QED BY <2>1, <3>1, <3>2
  <2>3. ASSUME NEW h \in Hops, HandleUsers(h) PROVE AnswersStay
    <3>1. /\ hop[h].pc = "handling"
          /\ \E status : response' = [response EXCEPT ![h] = status]
      BY <2>3 DEF HandleUsers
    <3>2. response[h] = "none"
      BY <1>1, <3>1, EarlyAnswer
    <3> QED BY <2>1, <3>1, <3>2
  <2>4. ASSUME NEW h \in Hops, TraceResponse(h) PROVE AnswersStay
    <3>1. hop[h].pc = "responding" /\ response' = [response EXCEPT ![h] = Status(h)]
      BY <2>4 DEF TraceResponse
    <3>2. response[h] # "none" => Status(h) = response[h]
      BY <1>1, <3>1, EarlyAnswer DEF Status
    <3> QED BY <2>1, <3>1, <3>2
  <2>5. ASSUME NEW h \in Hops,
               \/ \E a \in Apps : UserSends(h, a)
               \/ TraceRequest(h) \/ EnterHandler(h) \/ BeginCall(h)
               \/ CallAnswered(h) \/ CallDropped(h) \/ CallTimesOut(h) \/ CallCut(h)
               \/ Connect(h) \/ BeginCommand(h) \/ EndCommand(h) \/ LeaveHandler(h)
        PROVE  response' = response
    BY <2>5 DEF UserSends, TraceRequest, EnterHandler, BeginCall, CallAnswered,
                CallDropped, CallTimesOut, CallCut, CallReturns, Connect, BeginCommand,
                EndCommand, LeaveHandler
  <2>6. CASE \/ \E a \in Apps : Register(a)
             \/ CivetwebStarts \/ CivetwebStops \/ CivetwebShutsDown \/ Rests
             \/ UNCHANGED vars
    BY <2>6 DEF Register, CivetwebStarts, CivetwebStops, CivetwebShutsDown, Rests,
                vars, AnswersStay
  <2> QED BY <1>1, <2>2, <2>3, <2>4, <2>5, <2>6 DEF Next, ThreadStep, AnswersStay
<1> QED BY <1>1, WebInvariance, PTL DEF Spec

\* When pt_agent_shutdown runs after mg_stop (civetweb_example.c, main), no span
\* is lost: the threads that mg_stop waits for are those with an open span.
THEOREM NothingLost == Spec => []StopLosesNothing
<1>1. WebInv => StopLosesNothing
  <2> SUFFICES ASSUME WebInv, NEW h \in Hops PROVE span[h].phase # "lost"
    BY DEF StopLosesNothing
  <2>1. /\ Recorded(hop[h], span[h]) /\ hop[h] \in HopRecords
    BY OfHop
  <2>2. hop[h].pc \in Untouched \cup InThread \cup {"done"}
    BY <2>1 DEF HopRecords, Untouched, InThread
  <2> QED BY <2>1, <2>2 DEF Recorded, Unborn
<1> QED BY <1>1, WebInvariance, PTL

\* Context injected by perform_curl_request and handle_outgoing and extracted by
\* trace_request makes one trace of a chain of any length.
THEOREM OneTrace == Spec => []ChainIsOneTrace
<1>1. WebInv => ChainIsOneTrace
  <2> SUFFICES ASSUME WebInv, NEW h \in Hops, h[2] > 0, span[h].phase # "none"
               PROVE  LET c == Caller(h)
                      IN  /\ span[c].kind = "sampled" =>
                                /\ span[h].kind \in {"sampled", "noop"}
                                /\ span[h].kind = "sampled" => span[h].parent = c
                          /\ span[c].kind = "unsampled" =>
                                span[h].kind \in {"unsampled", "noop"}
                          /\ span[c].kind # "sampled" => span[h].parent = NoSpan
                          /\ hop[c].result = "ok" /\ hop[h].app # "civetweb" =>
                                span[h].phase = "ended"
    BY DEF ChainIsOneTrace
  <2> DEFINE c == Caller(h)
  <2>1. c \in Hops /\ Callee(c) = h
    BY Neighbours
  <2>2. Tied(c, hop[c], span[c], hop[h], response[h])
    BY <2>1 DEF WebInv
  <2>3. /\ Recorded(hop[h], span[h]) /\ hop[h] \in HopRecords
        /\ Answers(hop[h], span[h], response[h])
        /\ span[c] \in SpanRecords
    BY <2>1, OfHop
  <2> HIDE DEF c
  <2>4. hop[h].pc \in InThread \cup {"done"}
    BY <2>3 DEF Recorded, HopRecords, Untouched, InThread, Unborn
  <2>5. hop[c].calls = "here" /\ hop[h].headers = InjectContext(span[c], c)
    BY <2>2, <2>4 DEF Tied, InThread
  <2>6. /\ span[h].kind = "noop" \/ span[h].kind \in NewSpanKinds(TRUE, hop[h].headers)
        /\ span[h].parent = IF span[h].kind = "sampled" THEN hop[h].headers.from
                            ELSE NoSpan
    BY <2>3 DEF Recorded
  <2>7. span[c].kind \in {"noop", "unsampled", "sampled"}
    BY <2>3 DEF SpanRecords, SpanType, Kinds
  <2>8. ASSUME span[c].kind = "sampled"
        PROVE  /\ span[h].kind \in {"sampled", "noop"}
               /\ span[h].kind = "sampled" => span[h].parent = c
    <3>1. hop[h].headers = [kind |-> "sampled", from |-> c]
      BY <2>5, <2>8 DEF InjectContext
    <3> QED BY <2>6, <2>8, <3>1 DEF NewSpanKinds
  <2>9. ASSUME span[c].kind = "unsampled"
        PROVE  span[h].kind \in {"unsampled", "noop"} /\ span[h].parent = NoSpan
    <3>1. hop[h].headers = [kind |-> "unsampled", from |-> NoSpan]
      BY <2>5, <2>9 DEF InjectContext
    <3> QED BY <2>6, <2>9, <3>1 DEF NewSpanKinds
  <2>10. ASSUME span[c].kind = "noop" PROVE span[h].parent = NoSpan
    <3>1. hop[h].headers.from = NoSpan
      BY <2>5, <2>10 DEF InjectContext, NoContext
    <3> QED BY <2>6, <2>10, <3>1
  <2>11. hop[c].result = "ok" /\ hop[h].app # "civetweb" => span[h].phase = "ended"
    <3>1. hop[c].result = "ok" => response[h] # "none"
      BY <2>2, <2>5 DEF Tied
    <3> QED BY <2>3, <2>4, <3>1 DEF Answers, Recorded
  <2> QED BY <2>7, <2>8, <2>9, <2>10, <2>11 DEF c
<1> QED BY <1>1, WebInvariance, PTL

\* perform_curl_request and handle_outgoing wait within the call's event, and what
\* they give up waiting for, at a timeout or a broken connection, is on record.
THEOREM CallsAreNested == Spec => []CallsNest
<1>1. WebInv => CallsNest
  <2> SUFFICES ASSUME WebInv, NEW h \in Hops, h[2] > 0, span[h].phase = "open",
                      response[h] = "none"
               PROVE  LET c == span[Caller(h)]
                      IN  \/ /\ c.phase = "open" /\ c.stack # <<>>
                             /\ c.stack[Len(c.stack)] = CallEvent
                          \/ c.phase = "open" /\ hop[Caller(h)].pc = "leaving"
                          \/ c.failed # {}
    BY DEF CallsNest
  <2> DEFINE c == Caller(h)
             v == hop[c]
             s == span[c]
  <2>1. c \in Hops /\ Callee(c) = h
    BY Neighbours
  <2>2. Tied(c, v, s, hop[h], response[h])
    BY <2>1 DEF WebInv
  <2>3. /\ Recorded(hop[h], span[h]) /\ Placed(v) /\ Recorded(v, s)
        /\ Blames(v, s, wrong[c]) /\ v \in HopRecords
    BY <2>1, OfHop
  <2> HIDE DEF c, v, s
  <2>4. hop[h].pc # "none"
    BY <2>3 DEF Recorded, Untouched, Unborn
  <2>5. /\ v.calls = "here" /\ v.result # "ok"
        /\ v.app = "curl" \/ v.app = "cpptrace"
    BY <2>2, <2>3, <2>4 DEF Tied, Placed, Relays
  <2>6. CASE v.result = "none"
    <3>1. v.pc = "calling"
      BY <2>3, <2>5, <2>6 DEF Placed
    <3>2. s.phase = "open" /\ s.stack = OpenEvents(v)
      BY <2>3, <3>1 DEF Recorded, InThread
    <3>3. OpenEvents(v) = <<CallEvent>> \/ OpenEvents(v) = <<HandlerEvent, CallEvent>>
      BY <3>1 DEF OpenEvents
    <3>4. s.stack # <<>> /\ s.stack[Len(s.stack)] = CallEvent
      <4>1. CASE s.stack = <<CallEvent>>
        <5>1. <<CallEvent>> # <<>> /\ <<CallEvent>>[Len(<<CallEvent>>)] = CallEvent
          OBVIOUS
        <5> QED BY <4>1, <5>1, Zenon
      <4>2. CASE s.stack = <<HandlerEvent, CallEvent>>
        <5> DEFINE open == <<HandlerEvent, CallEvent>>
        <5>1. open # <<>> /\ open[Len(open)] = CallEvent
          OBVIOUS
        <5> HIDE DEF open
        <5>2. s.stack = open
          BY <4>2 DEF open
        <5> QED BY <5>1, <5>2, Zenon
      <4> QED BY <4>1, <4>2, <3>2, <3>3
    <3> QED BY <3>2, <3>4 DEF c, s
  <2>7. CASE v.result = "bad"
    <3>1. CASE v.pc = "leaving"
      <4>1. s.phase = "open"
        BY <3>1, <2>3 DEF Recorded, InThread
      <4> QED BY <4>1, <3>1 DEF c, s, v
    <3>2. CASE v.pc # "leaving"
      <4>1. s.failed # {}
        BY <3>2, <2>3, <2>5, <2>7 DEF Blames, Stores
      <4> QED BY <4>1 DEF c, s
    <3> QED BY <3>1, <3>2
  <2>8. v.result \in {"none", "ok", "bad"}
    BY <2>3 DEF HopRecords
  <2> QED BY <2>5, <2>6, <2>7, <2>8
<1> QED BY <1>1, WebInvariance, PTL

\* Response, span and events of each program tell the same of what went wrong,
\* after any number of commands.
THEOREM OneStory == Spec => []RecordsAgree
<1>1. WebInv => RecordsAgree
  <2> SUFFICES ASSUME WebInv, NEW h \in Hops, span[h].phase = "ended"
               PROVE  LET bad == wrong[h]
                      IN  CASE hop[h].app = "curl" ->
                             /\ span[h].failed = bad
                             /\ (response[h] = "500") = (bad # {})
                             /\ span[h].error = (bad # {})
                        [] hop[h].app = "cpptrace" ->
                             /\ span[h].failed = IF bad # {} THEN {HandlerEvent} ELSE {}
                             /\ response[h] = "200" /\ ~span[h].error
                        [] hop[h].app \in Stores ->
                             /\ span[h].failed = bad /\ ~span[h].error
                             /\ (response[h] = "503") = (HandlerEvent \in bad)
                             /\ hop[h].broken => Commands \in bad
                        [] OTHER -> span[h].failed = {} /\ response[h] = "200"
    BY DEF RecordsAgree
  <2> DEFINE v == hop[h]
             s == span[h]
  <2>1. /\ v \in HopRecords /\ Placed(v) /\ Recorded(v, s)
        /\ Blames(v, s, wrong[h]) /\ Answers(v, s, response[h])
    BY OfHop
  <2>2. v.pc = "done" /\ v.app \in Apps
    BY <2>1 DEF HopRecords, Recorded, Placed, Untouched, InThread, Unborn
  <2> HIDE DEF v, s
  <2>3. s.phase = "ended"
    BY DEF s
  <2>4. CASE v.app = "curl"
    BY <2>1, <2>3, <2>4 DEF Blames, Answers, Stores, v, s
  <2>5. CASE v.app = "cpptrace"
    BY <2>1, <2>2, <2>3, <2>5 DEF Blames, Answers, Stores, v, s
  <2>6. CASE v.app \in Stores
    <3>1. v.app # "curl" /\ v.app # "cpptrace"
      BY <2>6 DEF Stores
    <3> QED BY <2>1, <2>2, <2>3, <2>6, <3>1 DEF Blames, Answers, v, s
  <2>7. CASE v.app = "civetweb"
    BY <2>1, <2>2, <2>3, <2>7 DEF Blames, Answers, Stores, v, s
  <2> QED BY <2>2, <2>4, <2>5, <2>6, <2>7 DEF Apps, Relays
<1> QED BY <1>1, WebInvariance, PTL

\* The five programs use the agent as SpanProtocol demands, through stops,
\* timeouts and broken connections: WebTrace implements SpanProtocol.
THEOREM WebImplementsSpanProtocol == Spec => FollowsSpanProtocol
<1>1. Init => U!P!Init
  BY InitWeb
<1>2. WebInv /\ [Next]_vars => [U!P!Next]_(U!P!vars)
  BY NextWeb
<1> QED BY <1>1, <1>2, WebInvariance, PTL
        DEF Spec, FollowsSpanProtocol, U!FollowsProtocol, U!P!Spec

\* So what a hop has delivered is balanced, and no handler further up or down the
\* chain changes it any more.
THEOREM WebRecordsAreFinal == Spec => []U!BalancedRecords /\ U!FinalRecords
BY WebImplementsSpanProtocol, U!FollowingBalances, U!FollowingFreezes
   DEF FollowsSpanProtocol
=============================================================================
