-------------------------- MODULE MCKafkaPipeline --------------------------
(* Instances of KafkaPipeline for TLC. *)
EXTENDS KafkaPipeline, TLC

MCSymmetry == Permutations(Messages) \cup Permutations(Workers)
              \cup Permutations(Partitions)
=============================================================================
