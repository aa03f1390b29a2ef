----------------------------- MODULE MCMysqlDemo -----------------------------
(* Instances of MysqlDemo for TLC.                                            *)
EXTENDS MysqlDemo, TLC

\* The statements that set up the table, with one INSERT.
ShortDemo ==
    SelectSeq(RunDemoHandler, LAMBDA k : k \in {"create", "clear", "John"})

Symmetry == Permutations(Workers) \cup Permutations(Demos)
=============================================================================
