-------------------------- MODULE MCKafkaProducer --------------------------
(* Instances of KafkaProducer for TLC. *)
EXTENDS KafkaProducer, TLC

MCSymmetry == Permutations(Messages) \cup Permutations(Workers)
              \cup Permutations(Partitions)
=============================================================================
