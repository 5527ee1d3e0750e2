------------------------- MODULE PartitionAssignment -------------------------
(***************************************************************************)
(* The loop of Network::PartitionAssignment, one action per partition      *)
(* pushed.  Members are the positions 1 .. k of the members_ vector;       *)
(* order[j] is the partition the j-th step of an iteration over            *)
(* all_partitions_ visits, so the iterators are positions.                 *)
(***************************************************************************)
EXTENDS Integers, FiniteSets, Functions, RangeAssignment

CONSTANTS MaxPartitions, MaxMembers   \* bounds on the sizes of the two containers

ASSUME SizesAssumption == MaxPartitions \in Nat /\ MaxMembers \in Nat \ {0}

VARIABLES n,                 \* all_partitions_.size()
          k,                 \* members_.size()
          order,             \* the order of the unordered_map
          remainder,
          pm_it,             \* position in order; n + 1 is end()
          m_it,              \* position in members_; k + 1 is end()
          i,                 \* counter of the inner loop
          dealt,             \* the vector owned
          member_partitions_ \* by position of the member

input == <<n, k, order>>
vars  == <<input, remainder, pm_it, m_it, i, dealt, member_partitions_>>

(* Fault: rounded up. *)
BaseRoundedUp == (n + k - 1) \div k

base == n \div k

(* The leader's member list is never empty: IsGroupLeader is that. *)
Init ==
    /\ n \in 0 .. MaxPartitions
    /\ k \in 1 .. MaxMembers
    /\ order \in Bijection(1 .. n, 1 .. n)
    /\ remainder = n % k
    /\ pm_it = 1
    /\ m_it = 1
    /\ i = 0
    /\ dealt = {}
    /\ member_partitions_ = [m \in 1 .. k |-> {}]

(* The inner loop: the partition at pm_it is pushed, base times. *)
Deal ==
    /\ m_it <= k
    /\ i < base
    /\ dealt' = dealt \cup {order[pm_it]}
    /\ pm_it' = pm_it + 1
    /\ i' = i + 1
    /\ UNCHANGED <<input, remainder, m_it, member_partitions_>>

(* Fault: pm_it is advanced whether or not there was one more. *)
AlwaysAdvances ==
    /\ m_it <= k
    /\ i = base
    /\ member_partitions_' = [member_partitions_ EXCEPT ![m_it] = dealt]
    /\ pm_it' = pm_it + 1
    /\ remainder' = remainder - 1
    /\ m_it' = m_it + 1
    /\ i' = 0
    /\ dealt' = {}
    /\ UNCHANGED input

(* Fault: owned is not emptied between two members. *)
KeepsOwned ==
    /\ m_it <= k
    /\ i = base
    /\ LET extra == IF remainder > 0 THEN {order[pm_it]} ELSE {}
       IN  /\ member_partitions_' = [member_partitions_ EXCEPT ![m_it] = dealt \cup extra]
           /\ dealt' = dealt \cup extra
    /\ pm_it' = (IF remainder > 0 THEN pm_it + 1 ELSE pm_it)
    /\ remainder' = remainder - 1
    /\ m_it' = m_it + 1
    /\ i' = 0
    /\ UNCHANGED input

(* Fault: the last members get one more, not the first. *)
RemainderLast ==
    /\ m_it <= k
    /\ i = base
    /\ LET extra == IF m_it > k - (n % k) THEN {order[pm_it]} ELSE {}
       IN  /\ member_partitions_' = [member_partitions_ EXCEPT ![m_it] = dealt \cup extra]
           /\ pm_it' = pm_it + Cardinality(extra)
    /\ remainder' = remainder - 1
    /\ m_it' = m_it + 1
    /\ i' = 0
    /\ dealt' = {}
    /\ UNCHANGED input

(* Fault: the last member is not visited. *)
StopsEarly ==
    /\ m_it < k
    /\ i = base
    /\ LET extra == IF remainder > 0 THEN {order[pm_it]} ELSE {}
       IN  member_partitions_' = [member_partitions_ EXCEPT ![m_it] = dealt \cup extra]
    /\ pm_it' = (IF remainder > 0 THEN pm_it + 1 ELSE pm_it)
    /\ remainder' = remainder - 1
    /\ m_it' = m_it + 1
    /\ i' = 0
    /\ dealt' = {}
    /\ UNCHANGED input

(* One more while remainder-- is positive; then the member's entry is stored. *)
NextMember ==
    /\ m_it <= k
    /\ i = base
    /\ LET extra == IF remainder > 0 THEN {order[pm_it]} ELSE {}
       IN  member_partitions_' = [member_partitions_ EXCEPT ![m_it] = dealt \cup extra]
    /\ pm_it' = (IF remainder > 0 THEN pm_it + 1 ELSE pm_it)
    /\ remainder' = remainder - 1
    /\ m_it' = m_it + 1
    /\ i' = 0
    /\ dealt' = {}
    /\ UNCHANGED input

Done == m_it > k

Next == Deal \/ NextMember \/ (Done /\ UNCHANGED vars)

Spec == Init /\ [][Next]_vars /\ WF_vars(Next)

-----------------------------------------------------------------------------
(* Sizes of the containers and ranges of the iterators. *)
TypeOK ==
    /\ n \in 0 .. MaxPartitions
    /\ k \in 1 .. MaxMembers
    /\ order \in [1 .. n -> 1 .. n]
    /\ remainder \in -k .. k
    /\ pm_it \in 1 .. n + 1
    /\ m_it \in 1 .. k + 1
    /\ i \in 0 .. n
    /\ dealt \in SUBSET (1 .. n)
    /\ member_partitions_ \in [1 .. k -> SUBSET (1 .. n)]

(* pm_it is never dereferenced at end(): the loop has no test for it, only the   *)
(* arithmetic of base and remainder keeps the iterator inside the map.     *)
NeverPastTheEnd ==
    (m_it <= k /\ (i < base \/ remainder > 0)) => pm_it <= n

(* Every partition is owned by exactly one member when the loop is over:   *)
(* no message is consumed twice, and none is left to nobody.               *)
ExactlyOneOwner ==
    Done => \A p \in 1 .. n :
        \E m \in 1 .. k :
            /\ p \in member_partitions_[m]
            /\ \A other \in (1 .. k) \ {m} : p \notin member_partitions_[other]

(* No member owns more than one partition more than another, and the       *)
(* longer shares come first.                                               *)
Balanced ==
    Done => \A m1, m2 \in 1 .. k : m1 <= m2 =>
        Cardinality(member_partitions_[m1]) - Cardinality(member_partitions_[m2]) \in {0, 1}

(* The loop stores for each member it has passed the share that            *)
(* RangeAssignment gives in closed form, which is what Network uses.       *)
StoresShares ==
    \A m \in 1 .. m_it - 1 : member_partitions_[m] = {order[j] : j \in Share(m, n, k)}

(* The loop ends. *)
Terminates == <>Done
=============================================================================
