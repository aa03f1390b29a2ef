---------------------------- MODULE MCGrpcTrace ----------------------------
(* Instances of GrpcTrace for TLC. *)
EXTENDS GrpcTrace, TLC

\* Safety does not tell requests or threads apart.
MCSymmetry == Permutations(Requests) \cup Permutations(ClientThreads)
              \cup Permutations(ServerThreads)
=============================================================================
