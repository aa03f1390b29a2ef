---------------------------- MODULE MCNginxTrace ----------------------------
(* Instances of NginxTrace for TLC. *)
EXTENDS NginxTrace, TLC

Usable == [enable |-> TRUE, file |-> "usable"]
TooLong == [enable |-> TRUE, file |-> "long"]
SwitchedOff == [enable |-> FALSE, file |-> "usable"]

\* The module is on at first; a reload may switch it off or break its path.
Reconfigured == 0 :> {Usable} @@ 1 :> {Usable, TooLong, SwitchedOff}

\* One cycle, in which the module is on.
Configured == 0 :> {Usable}

\* The wall clock may be set back by more than rounding explains, and forward again.
SetBack == {0, -2}
=============================================================================
