----------------------------- MODULE WireExchange -----------------------------
(***************************************************************************)
(* Exchange with the requests and the responses as they are on the wire:   *)
(* what a broker reads of a request is what its class has packaged, and    *)
(* the answers are parsed by the constructors and read by the handlers.    *)
(***************************************************************************)
EXTENDS Exchange, Protocol, Accessors

CONSTANTS MemberIds,    \* lengths of the ids the coordinator gives
          Generations,
          OffsetLists,  \* lists of partitions with their offsets
          Assignments   \* what a leader hands out, and nothing of a follower

Offsets  == [partition : Int, offset : Int]
Assigned == [member : Nat, partitions : Seq(Int)]

ASSUME ListsAssumption ==
    /\ MemberIds \subseteq Nat
    /\ Generations \subseteq Int
    /\ OffsetLists \subseteq Seq(Offsets)
    /\ Assignments \subseteq Seq(Assigned)

(* The requests the handlers construct: a member that has no partitions    *)
(* asks for the offsets of none and fetches none, and commits none.        *)
Of(type, body) == [type |-> type, body |-> body]
WireRequests ==
    {Of("Metadata", MetadataRequest), Of("GroupCoordinator", GroupCoordinatorRequest)}
        \cup {Of("JoinGroup", JoinGroupRequest(member)) : member \in {0} \cup MemberIds}
        \cup {Of("SyncGroup", SyncGroupRequest(generation, member, assignment)) :
                generation \in Generations, member \in MemberIds, assignment \in Assignments}
        \cup {Of("Heartbeat", HeartbeatRequest(generation, member)) :
                generation \in Generations, member \in MemberIds}
        \cup {Of("OffsetFetch", OffsetFetchRequest(partitions)) : partitions \in PartitionLists}
        \cup {Of("Offset", OffsetRequest(partitions)) : partitions \in PartitionLists \ {<<>>}}
        \cup {Of("OffsetCommit", OffsetCommitRequest(generation, member, offsets)) :
                generation \in Generations, member \in MemberIds,
                offsets \in OffsetLists \ {<<>>}}
        \cup {Of("Fetch", FetchRequest(offsets)) : offsets \in OffsetLists}

(* Requests are read, and answers made up and parsed, once.                *)
Fitting     == {request \in WireRequests : CountSize(request) + 4 <= BufferSize}
ReadBy      == [request \in Fitting |-> BrokerReads(request)]
AnsweredBy  == [request \in Fitting |->
    {[size |-> ByteCount(wire), announced |-> wire[1].number,
      correlation_id |-> wire[2].number, comes |-> Comes(request.type, wire)] :
        wire \in BrokerAnswers(request)}]

WirePacketSize(request)    == CountSize(request) + 4
WireCorrelationId(request) == ApiKey[request.type]
WireUnderstands(request)   == request \in Fitting => ReadBy[request]
WireAnswers(request)       == IF request \in Fitting THEN AnsweredBy[request] ELSE {}

(* The exchange is one of these requests. *)
ASSUME WireAssumption ==
    /\ RequestsSent = WireRequests
    /\ \A request \in WireRequests :
        /\ CorrelationId(request) = WireCorrelationId(request)
        /\ PacketSize(request) = WirePacketSize(request)
        /\ Understands(request) = WireUnderstands(request)
        /\ Answers(request) = WireAnswers(request)

-----------------------------------------------------------------------------
(* The partitions or the members a request is about, and the partitions a  *)
(* leader hands out.                                                       *)
Entries(request) ==
    LET r == request.body
    IN  CASE request.type = "SyncGroup"    -> Len(r.group_assignment_)
          [] request.type = "OffsetFetch"  -> Len(r.topics[1].partitions_)
          [] request.type = "Offset"       -> Len(r.topic_partition_array_[1].partition_time_array_)
          [] request.type = "OffsetCommit" -> Len(r.topic_partitions_[1].partitions_)
          [] request.type = "Fetch"        -> Len(r.topic_partitions_[1].partitions_)
          [] OTHER                         -> 0

PartitionCount(g) == Len(g.member_assignment_.partition_assignment_[1].partitions_)
HandedOut(request) == SumOf(request.body.group_assignment_, PartitionCount)

(* The length of a SyncGroupResponse without an assignment: correlation    *)
(* id, error code and a size.                                              *)
NoAssignment == 4 + 2 + 4

(* How an exchange may end the process by itself.  No answer of a broker   *)
(* does so on a size that differs; the only ones read past their end, or   *)
(* asked for an element they do not have, are a SyncGroupResponse that     *)
(* stops where the assignment should be, and answers about no partition;   *)
(* and the buffer of Send is left only by a request about many partitions, *)
(* or by a leader with many members or partitions to hand out.  Besides,   *)
(* the signal that is raised on a connection known to be reset ends it     *)
(* (SendKills), at any request, so nothing is said here of "killed".       *)
EndingsKnown ==
    /\ end_ # "terminate"
    /\ end_ = "overread" =>
        \/ request_.type = "SyncGroup" /\ total_len = NoAssignment
        \/ request_.type \in {"OffsetFetch", "Fetch"} /\ Entries(request_) = 0
    /\ end_ = "overflow" =>
        \/ Entries(request_) > 120
        \/ request_.type = "SyncGroup" /\ (Entries(request_) > 10 \/ HandedOut(request_) > 80)
=============================================================================
