---------------------- MODULE PartitionAssignmentProofs ----------------------
(***************************************************************************)
(* Theorems of PartitionAssignment, for any number of partitions and of    *)
(* members and any iteration order.                                        *)
(*                                                                         *)
(* The iterators are tied to the closed form of RangeAssignment (Position):*)
(* what has been dealt so far is DealtBefore of the current member plus    *)
(* the inner loop's counter.  The sets are tied to the iterators (Deals):  *)
(* the partitions dealt so far are the first ones of the order, each to    *)
(* one member.                                                             *)
(***************************************************************************)
EXTENDS PartitionAssignment, FiniteSetTheorems, TLAPS

LEMMA DivMod ==
    ASSUME NEW a \in Nat, NEW b \in Nat \ {0}
    PROVE  /\ a \div b \in Nat
           /\ a % b \in 0 .. b - 1
           /\ a = b * (a \div b) + (a % b)
OBVIOUS

LEMMA OneMore == ASSUME NEW m \in Nat \ {0}, NEW q \in Nat PROVE m * q = (m - 1) * q + q
OBVIOUS

LEMMA Monotone == ASSUME NEW a \in Nat, NEW b \in Nat, NEW c \in Nat, a <= b PROVE a * c <= b * c
OBVIOUS

(* What the next member's turn begins with. *)
LEMMA NextDealt ==
    ASSUME NEW a \in Nat, NEW b \in Nat \ {0}, NEW m \in 1 .. b
    PROVE  DealtBefore(m + 1, a, b) = DealtBefore(m, a, b) + Quota(m, a, b)
<1> DEFINE q == a \div b
           r == a % b
<1>1. q \in Nat /\ r \in 0 .. b - 1
  BY DivMod
<1>2. /\ DealtBefore(m + 1, a, b) = m * q + (IF m <= r THEN m ELSE r)
      /\ DealtBefore(m, a, b) = (m - 1) * q + (IF m - 1 <= r THEN m - 1 ELSE r)
      /\ Quota(m, a, b) = q + (IF m <= r THEN 1 ELSE 0)
  BY DEF DealtBefore, Quota
<1> HIDE DEF q, r
<1>3. m * q = (m - 1) * q + q /\ (m - 1) * q \in Nat
  BY <1>1, OneMore
<1>4. QED
  BY <1>1, <1>2, <1>3

LEMMA DealtNat ==
    ASSUME NEW a \in Nat, NEW b \in Nat \ {0}, NEW m \in 1 .. b + 1
    PROVE  DealtBefore(m, a, b) \in Nat
<1>1. a \div b \in Nat /\ a % b \in 0 .. b - 1
  BY DivMod
<1>2. (m - 1) * (a \div b) \in Nat
  BY <1>1
<1>3. QED
  BY <1>1, <1>2 DEF DealtBefore

(* All partitions are dealt when the last member had its turn. *)
LEMMA AllDealt ==
    ASSUME NEW a \in Nat, NEW b \in Nat \ {0}
    PROVE  DealtBefore(b + 1, a, b) = a
<1>1. a % b \in 0 .. b - 1 /\ a = b * (a \div b) + (a % b) /\ a \div b \in Nat
  BY DivMod
<1>2. QED
  BY <1>1 DEF DealtBefore

(* Nobody's share reaches past the last partition. *)
LEMMA ShareFits ==
    ASSUME NEW a \in Nat, NEW b \in Nat \ {0}, NEW m \in 1 .. b
    PROVE  DealtBefore(m, a, b) + Quota(m, a, b) <= a
<1> DEFINE q == a \div b
<1>1. q \in Nat /\ a % b \in 0 .. b - 1 /\ a = b * q + (a % b)
  BY DivMod
<1>2. m * q <= b * q
  BY <1>1, Monotone
<1>3. DealtBefore(m + 1, a, b) = m * q + (IF m <= a % b THEN m ELSE (a % b))
  BY DEF DealtBefore
<1>4. DealtBefore(m + 1, a, b) <= a
  BY <1>1, <1>2, <1>3
<1>5. QED
  BY <1>4, NextDealt

-----------------------------------------------------------------------------
(* Where the iterators are. *)
Position ==
    /\ n \in Nat
    /\ k \in Nat \ {0}
    /\ order \in Bijection(1 .. n, 1 .. n)
    /\ m_it \in 1 .. k + 1
    /\ remainder = (n % k) - (m_it - 1)
    /\ i \in 0 .. base
    /\ m_it = k + 1 => i = 0
    /\ pm_it = DealtBefore(m_it, n, k) + i + 1

LEMMA PositionFits ==
    ASSUME Position, m_it <= k
    PROVE  /\ Quota(m_it, n, k) = base + (IF remainder > 0 THEN 1 ELSE 0)
           /\ pm_it \in Nat \ {0}
           /\ (i < base \/ remainder > 0) => pm_it <= n
<1>1. n % k \in 0 .. k - 1 /\ base \in Nat
  BY DivMod DEF Position, base
<1>2. remainder > 0 <=> m_it <= n % k
  BY <1>1 DEF Position
<1>3. Quota(m_it, n, k) = base + (IF remainder > 0 THEN 1 ELSE 0)
  BY <1>2 DEF Quota, base
<1>4. DealtBefore(m_it, n, k) \in Nat /\ DealtBefore(m_it, n, k) + Quota(m_it, n, k) <= n
  BY DealtNat, ShareFits DEF Position
<1>5. QED
  BY <1>1, <1>3, <1>4 DEF Position

LEMMA PositionInit == Init => Position
<1> SUFFICES ASSUME Init PROVE Position
  OBVIOUS
<1>1. n \in Nat /\ k \in Nat \ {0}
  BY SizesAssumption DEF Init
<1>2. base \in Nat /\ n % k \in 0 .. k - 1
  BY <1>1, DivMod DEF base
<1>3. DealtBefore(1, n, k) = 0
  BY <1>1, <1>2 DEF DealtBefore, base
<1>4. QED
  BY <1>1, <1>2, <1>3 DEF Init, Position

LEMMA PositionStep == Position /\ [Next]_vars => Position'
<1> SUFFICES ASSUME Position, [Next]_vars PROVE Position'
  OBVIOUS
<1>1. /\ n \in Nat /\ k \in Nat \ {0} /\ m_it \in 1 .. k + 1 /\ i \in 0 .. base
      /\ n % k \in 0 .. k - 1 /\ base \in Nat
      /\ DealtBefore(m_it, n, k) \in Nat
  BY DivMod, DealtNat DEF Position, base
<1>2. CASE Deal
  <2>1. UNCHANGED <<n, k, order, base, remainder, m_it>> /\ m_it <= k /\ i < base
    BY <1>2 DEF Deal, input, base
  <2>2. i' \in 0 .. base /\ i' = i + 1 /\ pm_it' = pm_it + 1
    BY <1>1, <1>2 DEF Deal
  <2>3. DealtBefore(m_it, n, k)' = DealtBefore(m_it, n, k)
    BY <2>1
  <2>4. pm_it' = DealtBefore(m_it, n, k) + i' + 1
    BY <1>1, <2>2 DEF Position
  <2>5. QED
    BY <2>1, <2>2, <2>3, <2>4 DEF Position
<1>3. CASE NextMember
  <2>1. UNCHANGED <<n, k, order, base>> /\ m_it <= k /\ i = base
    BY <1>3 DEF NextMember, input, base
  <2>2. /\ m_it' = m_it + 1 /\ i' = 0 /\ remainder' = remainder - 1
        /\ pm_it' = pm_it + (IF remainder > 0 THEN 1 ELSE 0)
    BY <1>1, <1>3 DEF NextMember, Position
  <2>3. DealtBefore(m_it + 1, n, k) = DealtBefore(m_it, n, k) + Quota(m_it, n, k)
    BY <1>1, <2>1, NextDealt
  <2>4. Quota(m_it, n, k) = base + (IF remainder > 0 THEN 1 ELSE 0)
    BY <2>1, PositionFits
  <2>5. pm_it' = DealtBefore(m_it + 1, n, k) + 1
    BY <1>1, <2>1, <2>2, <2>3, <2>4 DEF Position
  <2>6. DealtBefore(m_it, n, k)' = DealtBefore(m_it + 1, n, k)
    BY <2>1, <2>2
  <2>7. DealtBefore(m_it, n, k)' + 1 = DealtBefore(m_it, n, k)' + i' + 1
    BY <1>1, <2>1, <2>2, <2>3, <2>4, <2>6
  <2>8. remainder' = (n % k) - (m_it' - 1)
    BY <1>1, <2>2 DEF Position
  <2>9. QED
    BY <1>1, <2>1, <2>2, <2>5, <2>6, <2>7, <2>8 DEF Position
<1>4. CASE UNCHANGED vars
  BY <1>4 DEF vars, input, Position, base
<1>5. QED
  BY <1>2, <1>3, <1>4 DEF Next

(* The iterator over the partitions is never dereferenced at end(),        *)
(* whatever the sizes of the two containers.                               *)
THEOREM NeverDereferencesEnd == Spec => []NeverPastTheEnd
<1>1. Position => NeverPastTheEnd
  BY PositionFits DEF NeverPastTheEnd
<1>2. QED
  BY <1>1, PositionInit, PositionStep, PTL DEF Spec

-----------------------------------------------------------------------------
(* Who has been dealt what. *)
Owned(p) == p \in dealt \/ \E m \in 1 .. k : p \in member_partitions_[m]

Deals ==
    /\ dealt \in SUBSET (1 .. n)
    /\ member_partitions_ \in [1 .. k -> SUBSET (1 .. n)]
    /\ m_it = k + 1 => dealt = {}
    /\ \A m \in 1 .. k : m >= m_it => member_partitions_[m] = {}
    /\ \A p \in 1 .. n : Owned(p) <=> \E j \in 1 .. pm_it - 1 : order[j] = p
    /\ \A m \in 1 .. k : member_partitions_[m] \cap dealt = {}
    /\ \A m1, m2 \in 1 .. k : m1 # m2 => member_partitions_[m1] \cap member_partitions_[m2] = {}

(* The partition the iterator stands at is nobody's yet. *)
LEMMA FreshPartition ==
    ASSUME Position, Deals, pm_it \in 1 .. n
    PROVE  /\ order[pm_it] \in 1 .. n
           /\ order[pm_it] \notin dealt
           /\ \A m \in 1 .. k : order[pm_it] \notin member_partitions_[m]
<1>1. order[pm_it] \in 1 .. n
  BY DEF Position, Bijection, Injection
<1>2. \A j \in 1 .. pm_it - 1 : j \in 1 .. n /\ order[j] # order[pm_it]
  BY DEF Position, Bijection, Injection, IsInjective
<1>3. ~Owned(order[pm_it])
  BY <1>1, <1>2 DEF Deals
<1>4. QED
  BY <1>1, <1>3 DEF Owned

LEMMA DealsInit == Init => Deals
<1> SUFFICES ASSUME Init PROVE Deals
  OBVIOUS
<1>1. k \in Nat \ {0}
  BY SizesAssumption DEF Init
<1>2. \A p \in 1 .. n : ~Owned(p)
  BY DEF Init, Owned
<1>3. 1 .. pm_it - 1 = {}
  BY DEF Init
<1>4. QED
  BY <1>1, <1>2, <1>3 DEF Init, Deals

LEMMA DealsStep == Position /\ Deals /\ [Next]_vars => Deals'
<1> SUFFICES ASSUME Position, Deals, [Next]_vars PROVE Deals'
  OBVIOUS
<1>1. /\ n \in Nat /\ k \in Nat \ {0} /\ m_it \in 1 .. k + 1
      /\ base \in Nat /\ i \in 0 .. base
  BY DivMod DEF Position, base
<1>2. CASE Deal
  <2>1. /\ UNCHANGED <<n, k, order, m_it, member_partitions_>>
        /\ m_it <= k
        /\ dealt' = dealt \cup {order[pm_it]}
        /\ pm_it' = pm_it + 1
    BY <1>2 DEF Deal, input
  <2>2. pm_it \in 1 .. n
    BY <1>1, <1>2, PositionFits DEF Deal
  <2>3. \A p \in 1 .. n : Owned(p)' <=> Owned(p) \/ p = order[pm_it]
    BY <2>1 DEF Owned
  <2>4. 1 .. pm_it' - 1 = (1 .. pm_it - 1) \cup {pm_it}
    BY <2>1, <2>2
  <2>5. \A p \in 1 .. n : Owned(p)' <=> \E j \in 1 .. pm_it' - 1 : order[j] = p
    BY <2>3, <2>4 DEF Deals
  <2>6. /\ dealt' \in SUBSET (1 .. n)
        /\ \A m \in 1 .. k : member_partitions_[m] \cap dealt' = {}
    <3>1. /\ order[pm_it] \in 1 .. n
          /\ \A m \in 1 .. k : order[pm_it] \notin member_partitions_[m]
      BY <2>2, FreshPartition
    <3>2. QED
      BY <2>1, <3>1 DEF Deals
  <2>7. m_it' # k' + 1
    BY <1>1, <2>1
  <2>8. QED
    BY <2>1, <2>5, <2>6, <2>7 DEF Deals
<1>3. CASE NextMember
  <2> DEFINE extra == IF remainder > 0 THEN {order[pm_it]} ELSE {}
  <2>1. /\ UNCHANGED <<n, k, order>>
        /\ m_it \in 1 .. k
        /\ m_it' = m_it + 1
        /\ dealt' = {}
        /\ member_partitions_' = [member_partitions_ EXCEPT ![m_it] = dealt \cup extra]
        /\ pm_it' = IF remainder > 0 THEN pm_it + 1 ELSE pm_it
    BY <1>1, <1>3 DEF NextMember, input
  <2>2. pm_it \in Nat \ {0} /\ (remainder > 0 => pm_it \in 1 .. n)
    BY <2>1, <1>1, PositionFits
  <2>3. /\ extra \in SUBSET (1 .. n)
        /\ extra \cap dealt = {}
        /\ \A m \in 1 .. k : extra \cap member_partitions_[m] = {}
    BY <2>2, FreshPartition
  <2>4. /\ \A m \in 1 .. k : m # m_it => member_partitions_'[m] = member_partitions_[m]
        /\ member_partitions_'[m_it] = dealt \cup extra
        /\ member_partitions_[m_it] = {}
    BY <2>1 DEF Deals
  <2>5. \A p \in 1 .. n : Owned(p)' <=> Owned(p) \/ p \in extra
    BY <2>1, <2>4 DEF Owned
  <2>6. \A p \in 1 .. n : p \in extra <=> remainder > 0 /\ order[pm_it] = p
    OBVIOUS
  <2>7. \A p \in 1 .. n : Owned(p)' <=> \E j \in 1 .. pm_it' - 1 : order[j] = p
    <3>1. CASE remainder > 0
      <4>1. 1 .. pm_it' - 1 = (1 .. pm_it - 1) \cup {pm_it}
        BY <2>1, <2>2, <3>1
      <4>2. QED
        BY <2>5, <2>6, <3>1, <4>1 DEF Deals
    <3>2. CASE ~(remainder > 0)
      BY <2>1, <2>5, <2>6, <3>2 DEF Deals
    <3>3. QED
      BY <3>1, <3>2
  <2>8. member_partitions_' \in [1 .. k -> SUBSET (1 .. n)]
    BY <2>1, <2>3 DEF Deals
  <2>9. \A m1, m2 \in 1 .. k :
            m1 # m2 => member_partitions_'[m1] \cap member_partitions_'[m2] = {}
    BY <2>1, <2>3, <2>4 DEF Deals
  <2>10. \A m \in 1 .. k : m >= m_it' => member_partitions_'[m] = {}
    BY <1>1, <2>1, <2>4 DEF Deals
  <2> HIDE DEF extra
  <2>11. QED
    BY <2>1, <2>7, <2>8, <2>9, <2>10 DEF Deals
<1>4. CASE UNCHANGED vars
  BY <1>4 DEF vars, input, Deals, Owned
<1>5. QED
  BY <1>2, <1>3, <1>4 DEF Next

(* When the loop is over, every partition has one owner and no more.       *)
THEOREM OneOwnerEach == Spec => []ExactlyOneOwner
<1>1. Position /\ Deals => ExactlyOneOwner
  <2> SUFFICES ASSUME Position, Deals, Done, NEW p \in 1 .. n
               PROVE  \E m \in 1 .. k :
                        /\ p \in member_partitions_[m]
                        /\ \A other \in (1 .. k) \ {m} : p \notin member_partitions_[other]
    BY DEF ExactlyOneOwner
  <2>1. m_it = k + 1 /\ i = 0 /\ dealt = {}
    BY DEF Position, Deals, Done
  <2>2. pm_it = n + 1
    BY <2>1, AllDealt DEF Position
  <2>3. PICK j \in 1 .. n : order[j] = p
    BY DEF Position, Bijection, Surjection
  <2>4. Owned(p)
    BY <2>2, <2>3 DEF Deals, Position
  <2>5. PICK m \in 1 .. k : p \in member_partitions_[m]
    BY <2>1, <2>4 DEF Owned
  <2>6. QED
    BY <2>5 DEF Deals
<1>2. Init => Position /\ Deals
  BY PositionInit, DealsInit
<1>3. QED
  BY <1>1, <1>2, PositionStep, DealsStep, PTL DEF Spec

-----------------------------------------------------------------------------
(* The closed form. *)
Dealt(from, to) == {order[j] : j \in from + 1 .. to}

Shares ==
    /\ member_partitions_ \in [1 .. k -> SUBSET (1 .. n)]
    /\ dealt = Dealt(DealtBefore(m_it, n, k), pm_it - 1)
    /\ \A m \in 1 .. m_it - 1 :
          member_partitions_[m] = Dealt(DealtBefore(m, n, k), DealtBefore(m, n, k) + Quota(m, n, k))

LEMMA SharesStep == Position /\ Deals /\ Shares /\ [Next]_vars => Shares'
<1> SUFFICES ASSUME Position, Deals, Shares, [Next]_vars PROVE Shares'
  OBVIOUS
<1>1. /\ n \in Nat /\ k \in Nat \ {0} /\ m_it \in 1 .. k + 1
      /\ base \in Nat /\ i \in 0 .. base /\ DealtBefore(m_it, n, k) \in Nat
      /\ pm_it = DealtBefore(m_it, n, k) + i + 1
  BY DivMod, DealtNat DEF Position, base
<1>2. member_partitions_' \in [1 .. k' -> SUBSET (1 .. n')]
  BY DealsStep DEF Deals
<1>3. CASE Deal
  <2>1. /\ UNCHANGED <<n, k, order, m_it, member_partitions_>>
        /\ dealt' = dealt \cup {order[pm_it]}
        /\ pm_it' = pm_it + 1
    BY <1>3 DEF Deal, input
  <2>2. DealtBefore(m_it, n, k) + 1 .. pm_it = (DealtBefore(m_it, n, k) + 1 .. pm_it - 1) \cup {pm_it}
    BY <1>1
  <2>3. dealt' = {order[j] : j \in DealtBefore(m_it, n, k) + 1 .. pm_it}
    BY <2>1, <2>2 DEF Shares, Dealt
  <2>4. pm_it' - 1 = pm_it
    BY <1>1, <2>1
  <2>5. QED
    BY <1>2, <2>1, <2>3, <2>4 DEF Shares, Dealt
<1>4. CASE NextMember
  <2> DEFINE D == DealtBefore(m_it, n, k)
             extra == IF remainder > 0 THEN {order[pm_it]} ELSE {}
  <2>1. /\ UNCHANGED <<n, k, order>>
        /\ m_it \in 1 .. k /\ i = base
        /\ m_it' = m_it + 1
        /\ dealt' = {}
        /\ member_partitions_' = [member_partitions_ EXCEPT ![m_it] = dealt \cup extra]
        /\ i' = 0
    BY <1>1, <1>4 DEF NextMember, input
  <2>2. Quota(m_it, n, k) = base + (IF remainder > 0 THEN 1 ELSE 0) /\ pm_it = D + base + 1
    BY <1>1, <2>1, PositionFits
  <2>3. D + 1 .. D + Quota(m_it, n, k)
            = (D + 1 .. pm_it - 1) \cup (IF remainder > 0 THEN {pm_it} ELSE {})
    BY <1>1, <2>2
  <2>4. dealt \cup extra = Dealt(D, D + Quota(m_it, n, k))
    BY <2>3 DEF Shares, Dealt
  <2>5. \A m \in 1 .. m_it' - 1 :
            member_partitions_'[m] = Dealt(DealtBefore(m, n, k), DealtBefore(m, n, k) + Quota(m, n, k))
    <3> SUFFICES ASSUME NEW m \in 1 .. m_it
                 PROVE  member_partitions_'[m]
                            = Dealt(DealtBefore(m, n, k), DealtBefore(m, n, k) + Quota(m, n, k))
      BY <1>1, <2>1
    <3>1. CASE m = m_it
      BY <2>1, <2>4, <3>1 DEF Shares
    <3>2. CASE m # m_it
      <4>1. m \in 1 .. m_it - 1 /\ m \in 1 .. k
        BY <1>1, <3>2
      <4>2. member_partitions_'[m] = member_partitions_[m]
        BY <2>1, <3>2, <4>1 DEF Shares
      <4>3. QED
        BY <4>1, <4>2 DEF Shares
    <3>3. QED
      BY <3>1, <3>2
  <2>6. dealt' = Dealt(DealtBefore(m_it, n, k), pm_it - 1)'
    <3>1. pm_it' = DealtBefore(m_it, n, k)' + 1 /\ DealtBefore(m_it, n, k)' \in Nat
      BY <2>1, PositionStep, DealtNat DEF Position
    <3>2. DealtBefore(m_it, n, k)' + 1 .. pm_it' - 1 = {}
      BY <3>1
    <3>3. QED
      BY <2>1, <3>2 DEF Dealt
  <2>7. \A m \in 1 .. m_it' - 1 :
            member_partitions_'[m] = Dealt(DealtBefore(m, n, k), DealtBefore(m, n, k) + Quota(m, n, k))'
    BY <2>1, <2>5 DEF Dealt
  <2>8. QED
    BY <1>2, <2>6, <2>7 DEF Shares
<1>5. CASE UNCHANGED vars
  BY <1>5 DEF vars, input, Shares, Dealt
<1>6. QED
  BY <1>3, <1>4, <1>5 DEF Next

LEMMA SharesInit == Init => Shares
<1> SUFFICES ASSUME Init PROVE Shares
  OBVIOUS
<1>1. Position /\ Deals
  BY PositionInit, DealsInit
<1>2. pm_it = DealtBefore(m_it, n, k) + 1 /\ DealtBefore(m_it, n, k) \in Nat /\ m_it = 1
  BY <1>1, DealtNat DEF Position, Init
<1>3. DealtBefore(m_it, n, k) + 1 .. pm_it - 1 = {} /\ 1 .. m_it - 1 = {}
  BY <1>2
<1>4. QED
  BY <1>1, <1>3 DEF Init, Deals, Shares, Dealt

(* The invariant behind the theorems, of every state. *)
LEMMA AllSteps == Spec => [](Position /\ Deals /\ Shares)
<1>1. Init => Position /\ Deals /\ Shares
  BY PositionInit, DealsInit, SharesInit
<1>2. QED
  BY <1>1, PositionStep, DealsStep, SharesStep, PTL DEF Spec

(* Each member passed has the share the closed form gives it: Network may  *)
(* use RangeAssignment for the loop.                                       *)
THEOREM LoopComputesShares == Spec => []StoresShares
<1>1. Shares => StoresShares
  BY DEF Shares, StoresShares, Dealt, Share
<1>2. QED
  BY <1>1, AllSteps, PTL

-----------------------------------------------------------------------------
(* As many partitions are dealt as the quota says: the order has no        *)
(* partition twice.                                                        *)
LEMMA DealtSize ==
    ASSUME Position, NEW from \in Nat, NEW many \in Nat, from + many <= n
    PROVE  Cardinality(Dealt(from, from + many)) = many
<1> DEFINE S == from + 1 .. from + many
           f == [j \in S |-> order[j]]
<1>1. S \subseteq 1 .. n
  BY DEF Position
<1>2. f \in Bijection(S, Dealt(from, from + many))
  BY <1>1 DEF Position, Bijection, Injection, Surjection, IsInjective, Dealt
<1>3. IsFiniteSet(S) /\ Cardinality(S) = many
  BY FS_Interval
<1>4. QED
  BY <1>2, <1>3, FS_Bijection DEF ExistsBijection

(* The iterators stay in their ranges and the sets hold partitions, for    *)
(* containers within the bounds.                                           *)
THEOREM TypeCorrect == Spec => []TypeOK
<1> DEFINE Bounded == n \in 0 .. MaxPartitions /\ k \in 1 .. MaxMembers
<1>1. Init => Bounded
  BY DEF Init
<1>2. Bounded /\ [Next]_vars => Bounded'
  BY DEF Next, Deal, NextMember, vars, input
<1>3. Position /\ Deals /\ Bounded => TypeOK
  <2> SUFFICES ASSUME Position, Deals, Bounded PROVE TypeOK
    OBVIOUS
  <2>1. n \in Nat /\ k \in Nat \ {0} /\ n % k \in 0 .. k - 1 /\ base \in Nat
    BY DivMod DEF Position, base
  <2>2. remainder \in -k .. k
    BY <2>1 DEF Position
  <2>3. base <= n
    <3>1. base \in Nat /\ n = k * base + (n % k) /\ 1 * base <= k * base
      BY <2>1, DivMod, Monotone DEF base
    <3>2. QED
      BY <2>1, <3>1
  <2>4. pm_it \in 1 .. n + 1
    <3>1. CASE m_it <= k
      <4>1. Quota(m_it, n, k) = base + (IF remainder > 0 THEN 1 ELSE 0)
        BY <3>1, PositionFits
      <4>2. DealtBefore(m_it, n, k) \in Nat /\ DealtBefore(m_it, n, k) + Quota(m_it, n, k) <= n
        BY <2>1, <3>1, DealtNat, ShareFits DEF Position
      <4>3. i \in 0 .. base /\ pm_it = DealtBefore(m_it, n, k) + i + 1
        BY DEF Position
      <4> HIDE DEF Bounded
      <4>4. QED
        BY <2>1, <4>1, <4>2, <4>3
    <3>2. CASE m_it = k + 1
      <4>1. DealtBefore(m_it, n, k) = n /\ i = 0
        BY <2>1, <3>2, AllDealt DEF Position
      <4>2. QED
        BY <2>1, <4>1 DEF Position
    <3>3. QED
      BY <2>1, <3>1, <3>2 DEF Position
  <2>5. order \in [1 .. n -> 1 .. n]
    BY DEF Position, Bijection, Injection
  <2>6. m_it \in 1 .. k + 1 /\ i \in 0 .. n
    BY <2>1, <2>3 DEF Position
  <2>7. QED
    BY <2>2, <2>4, <2>5, <2>6 DEF Deals, TypeOK
<1>4. QED
  BY <1>1, <1>2, <1>3, AllSteps, PTL DEF Spec

(* Nobody owns more than one partition more than another, and the longer   *)
(* shares come first.                                                      *)
THEOREM SharesBalanced == Spec => []Balanced
<1>1. Position /\ Shares => Balanced
  <2> SUFFICES ASSUME Position, Shares, Done, NEW m1 \in 1 .. k, NEW m2 \in 1 .. k, m1 <= m2
               PROVE  Cardinality(member_partitions_[m1])
                        - Cardinality(member_partitions_[m2]) \in {0, 1}
    BY DEF Balanced
  <2>1. n \in Nat /\ k \in Nat \ {0} /\ n % k \in 0 .. k - 1 /\ base \in Nat
    BY DivMod DEF Position, base
  <2>2. \A m \in 1 .. k : Cardinality(member_partitions_[m]) = Quota(m, n, k)
    <3> SUFFICES ASSUME NEW m \in 1 .. k
                 PROVE  Cardinality(member_partitions_[m]) = Quota(m, n, k)
      OBVIOUS
    <3>1. m \in 1 .. m_it - 1 /\ m \in 1 .. k + 1
      BY <2>1 DEF Done, Position
    <3>2. Quota(m, n, k) \in Nat
      BY <2>1 DEF Quota, base
    <3>3. DealtBefore(m, n, k) \in Nat /\ DealtBefore(m, n, k) + Quota(m, n, k) <= n
      BY <2>1, <3>1, DealtNat, ShareFits
    <3>4. QED
      BY <3>1, <3>2, <3>3, DealtSize DEF Shares
  <2>3. QED
    BY <2>1, <2>2 DEF Quota, base
<1>2. QED
  BY <1>1, AllSteps, PTL
=============================================================================
