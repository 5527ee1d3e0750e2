------------------------------ MODULE MCExchange ------------------------------
(* The exchange of the requests of a member that owns up to two            *)
(* partitions, and leads up to two members, for TLC; and of three that     *)
(* are too long for the buffer.                                            *)
EXTENDS WireExchange

MCOffsets(n) == [i \in 1 .. n |-> [partition |-> i - 1, offset |-> 100]]
MCOffsetLists == {MCOffsets(n) : n \in {0, 1, 2, 140}}

MCAssigned(partitions) == [member |-> MemberIdLength, partitions |-> partitions]
MCAssignments ==
    {<<>>, <<MCAssigned(<<0, 1>>)>>, <<MCAssigned(<<0>>), MCAssigned(<<>>)>>,
     [i \in 1 .. 27 |-> MCAssigned(<<i>>)]}

MCMemberIds == {MemberIdLength}
MCMemberLists == BoundedSeq(MCMemberIds, 2)
MCPartitionLists == {<<>>, <<0>>, <<0, 1>>}
MCBrokerLists == {<<>>, <<1>>, <<1, 2>>}
MCReplicaLists == {<<1>>, <<1, 2>>}

(* In and behind the header, behind the first byte of the body, and before *)
(* its last one.                                                           *)
MCCuts(size) == {2, 4, 5, size - 1, size}
=============================================================================
