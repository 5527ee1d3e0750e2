--------------------------- MODULE RangeAssignment ---------------------------
(***************************************************************************)
(* What Network::PartitionAssignment computes, in closed form.             *)
(*                                                                         *)
(* The group leader walks its vector of members and deals it the           *)
(* partitions of its metadata map in the order the map is iterated, base   *)
(* each and one more while the remainder lasts.  Both orders are given     *)
(* here as ranks: functions from the members (the partitions) onto         *)
(* 1 .. (their number).  The map is an unordered_map, so any bijection is  *)
(* a possible order of the partitions.                                     *)
(***************************************************************************)
EXTENDS Integers, FiniteSets

(* How many of n partitions the member of rank i out of k is dealt. *)
Quota(i, n, k) == (n \div k) + (IF i <= n % k THEN 1 ELSE 0)

(* How many partitions were dealt before the member of rank i had its turn. *)
DealtBefore(i, n, k) ==
    (i - 1) * (n \div k) + (IF i - 1 <= n % k THEN i - 1 ELSE n % k)

(* The ranks of the partitions dealt to the member of rank i. *)
Share(i, n, k) ==
    (DealtBefore(i, n, k) + 1) .. (DealtBefore(i, n, k) + Quota(i, n, k))

(* The member_partitions_ map after the call: an entry for every member of *)
(* the group; the entries of earlier members are never erased, and go into *)
(* every later SyncGroup request.                                          *)
PartitionAssignment(old, memberRank, partitionRank) ==
    LET n == Cardinality(DOMAIN partitionRank)
        k == Cardinality(DOMAIN memberRank)
    IN  [m \in DOMAIN old \cup DOMAIN memberRank |->
            IF m \in DOMAIN memberRank
            THEN {p \in DOMAIN partitionRank :
                    partitionRank[p] \in Share(memberRank[m], n, k)}
            ELSE old[m]]
=============================================================================
