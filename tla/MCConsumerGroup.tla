--------------------------- MODULE MCConsumerGroup ---------------------------
(* The group with small sets of model values, for TLC. *)
EXTENDS ConsumerGroup, TLC

(* The coordinator's choice of member ids does not matter. *)
Symmetry == Permutations(MemberIds) \cup Permutations(Partitions)
=============================================================================
