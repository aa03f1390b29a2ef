----------------------------- MODULE MCWebTrace -----------------------------
(* Instances of WebTrace for TLC. *)
EXTENDS WebTrace, TLC

\* One user's request may be relayed twice.
Relayed == [u \in Users |-> 2]

\* Or once.
CalledOnce == [u \in Users |-> 1]

OneThread == [a \in Apps |-> 1]
TwoThreads == [a \in Apps |-> 2]
=============================================================================
