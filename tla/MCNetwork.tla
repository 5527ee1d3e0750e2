------------------------------ MODULE MCNetwork ------------------------------
(* The client with small sets of model values, for TLC. *)
EXTENDS Network, TLC

(* Brokers and partitions are told apart by nothing in Network. *)
Symmetry == Permutations(Brokers) \cup Permutations(Partitions)
=============================================================================
