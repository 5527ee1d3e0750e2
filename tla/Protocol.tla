------------------------------- MODULE Protocol -------------------------------
(***************************************************************************)
(* The broker's side of the wire: how it reads the requests of the         *)
(* versions this client announces, and what it may answer.  Brokers are    *)
(* not part of the repository; this is Kafka's protocol as far as          *)
(* Requests.tla writes it and Responses.tla reads it.                      *)
(***************************************************************************)
EXTENDS Requests, Formats

CONSTANTS PartitionLists,   \* lists of partitions: of a topic, or of a member
          BrokerLists,      \* lists of brokers
          ReplicaLists,     \* lists of replicas
          MemberLists,      \* the members a leader is sent, by the lengths of their ids
          ErrorCodes,       \* of an answer, or of an entry of it
          MessageSetSizes   \* bytes a fetch returns of a partition

ASSUME ProtocolAssumption ==
    /\ PartitionLists \cup BrokerLists \cup ReplicaLists \subseteq Seq(Int)
    /\ MemberLists \subseteq Seq(Nat)
    /\ ErrorCodes \subseteq Int
    /\ MessageSetSizes \subseteq Nat

(* What a broker expects after the head of a request, by api key. *)
RequestHead ==
    <<Read32("size"), Read16("key"), Read16("version"), Read32("correlation"), Text("client")>>

TopicName == <<Text("topic")>>
PartitionId == <<Read32("id")>>
Ids == <<Text("topic_"), Many("partitions_", PartitionId)>>
MetadataV0 == <<Many("topics_", TopicName)>>
GroupCoordinatorV0 == <<Text("group_")>>

Subscription ==
    <<Read16("version_"), Many("subscription_", TopicName), Bytes("user_data_")>>
OfferedProtocol == <<Text("assignment_strategy_"), Sized("protocol_metadata_", Subscription)>>
JoinGroupV0 ==
    <<Text("group_id_"), Read32("session_timeout_"), Text("member_id_"), Text("protocol_type_"),
      Many("group_protocols_", OfferedProtocol)>>

Assignment ==
    <<Read16("version_"), Many("partition_assignment_", Ids), Bytes("user_data_")>>
AssignedMember == <<Text("member_id_"), Sized("member_assignment_", Assignment)>>
SyncGroupV0 ==
    <<Text("group_id_"), Read32("generation_id_"), Text("member_id_"),
      Many("group_assignment_", AssignedMember)>>

HeartbeatV0 == <<Text("group_"), Read32("generation_id_"), Text("member_id_")>>

OffsetFetchV1 == <<Text("group_"), Many("topics", Ids)>>

TimedPartition == <<Read32("partition_"), Read64("time_"), Read32("max_number_of_offsets_")>>
TimedTopic == <<Text("topic_"), Many("partition_time_array_", TimedPartition)>>
OffsetV0 == <<Read32("replica_id_"), Many("topic_partition_array_", TimedTopic)>>

CommittedPartition == <<Read32("partition_"), Read64("offset_"), Text("metadata_")>>
CommittedTopic == <<Text("topic_"), Many("partitions_", CommittedPartition)>>
OffsetCommitV2 ==
    <<Text("group_"), Read32("group_generation_id_"), Text("consumer_id_"),
      Read64("retention_time_"), Many("topic_partitions_", CommittedTopic)>>

FetchedPartition == <<Read32("partition_"), Read64("fetch_offset_"), Read32("max_bytes_")>>
FetchedTopic == <<Text("topic_"), Many("partitions_", FetchedPartition)>>
FetchV1 ==
    <<Read32("replica_id_"), Read32("max_wait_time_"), Read32("min_bytes_"),
      Many("topic_partitions_", FetchedTopic)>>

RequestFormat(key, version) ==
    CASE key = 1  /\ version = 1 -> FetchV1
      [] key = 2  /\ version = 0 -> OffsetV0
      [] key = 3  /\ version = 0 -> MetadataV0
      [] key = 8  /\ version = 2 -> OffsetCommitV2
      [] key = 9  /\ version = 1 -> OffsetFetchV1
      [] key = 10 /\ version = 0 -> GroupCoordinatorV0
      [] key = 11 /\ version = 0 -> JoinGroupV0
      [] key = 12 /\ version = 0 -> HeartbeatV0
      [] key = 14 /\ version = 0 -> SyncGroupV0
      [] OTHER -> <<Read64("unsupported")>>

(* The broker gets the bytes it was announced, and they are the request    *)
(* the client means.  Otherwise it closes the connection.                  *)
BrokerReads(request) ==
    LET wire == Package(request)
        head == Object(RequestHead)[wire]
        body == Object(RequestFormat(head.value.key, head.value.version))[head.rest]
    IN  /\ head.how = "read"
        /\ head.value.size = ByteCount(wire) - 4
        /\ body.how = "read"
        /\ body.rest = <<>>
        /\ body.value = request.body

-----------------------------------------------------------------------------
(* The answers, with an error or without. *)

Host == 9            \* length of a broker's host name
MemberIdLength == 47 \* "consumer-1-" and a UUID

BrokerOf(b) == Int32(b) \o String(Host) \o Int32(9092)

MetadataAnswers ==
    LET PartitionOn(replicas) ==
            Int32(1) \o Array(replicas, Int32) \o Array(replicas, Int32)
        TopicOf(partitions, replicas) ==
            LET PackageAnswer(p) == Int16(0) \o Int32(p) \o PartitionOn(replicas)
            IN  Int16(IF partitions = <<>> THEN 3 ELSE 0)
                    \o String(Topic) \o Array(partitions, PackageAnswer)
    IN  {Array(brokers, BrokerOf) \o Int32(1) \o TopicOf(partitions, replicas) :
            brokers \in BrokerLists, partitions \in PartitionLists, replicas \in ReplicaLists}

CoordinatorAnswers ==
    {Int16(0) \o BrokerOf(1), Int16(15) \o Int32(-1) \o String(0) \o Int32(-1)}

(* To a member the coordinator does not know, a follower, and a leader. *)
JoinGroupAnswers(r) ==
    LET PackageMember(member) == String(member) \o Int32(20) \o Field(20, 20)
        Joined(members) ==
            Int16(0) \o Int32(1) \o String(5) \o String(MemberIdLength)
                \o String(MemberIdLength) \o Array(members, PackageMember)
    IN  {Int16(25) \o Int32(0) \o String(0) \o String(0) \o String(r.member_id_) \o Int32(0)}
            \cup {Joined(members) : members \in MemberLists}

(* An assignment, no bytes for a member the leader has not assigned        *)
(* anything, and an error.                                                 *)
SyncGroupAnswers ==
    LET Assigned(partitions) == PackageMemberAssignment(MemberAssignment(partitions))
    IN  {Int16(0) \o Int32(ByteCount(Assigned(partitions))) \o Assigned(partitions) :
            partitions \in PartitionLists}
        \cup {Int16(error) \o Int32(0) : error \in ErrorCodes}

(* The topics of an answer about partitions: none when there are none. *)
ByTopic(partitions, PackageAnswer(_)) ==
    LET PackageTopicAnswer(topic) == String(topic) \o Array(partitions, PackageAnswer)
    IN  Array(IF partitions = <<>> THEN <<>> ELSE <<Topic>>, PackageTopicAnswer)

OffsetFetchAnswers(r) ==
    {ByTopic(r.topics[1].partitions_, LAMBDA p :
        Int32(p.id) \o Int64(-1) \o String(0) \o Int16(error)) : error \in ErrorCodes}

OffsetAnswers(r) ==
    {ByTopic(r.topic_partition_array_[1].partition_time_array_, LAMBDA p :
        Int32(p.partition_) \o Int16(error)
            \o Array(IF error = 0 THEN <<100>> ELSE <<>>, Int64)) : error \in ErrorCodes}

OffsetCommitAnswers(r) ==
    {ByTopic(r.topic_partitions_[1].partitions_, LAMBDA p :
        Int32(p.partition_) \o Int16(error)) : error \in ErrorCodes}

FetchAnswers(r) ==
    {Int32(0) \o ByTopic(r.topic_partitions_[1].partitions_, LAMBDA p :
        Int32(p.partition_) \o Int16(error) \o Int64(100) \o Int32(size) \o Field(size, size)) :
        error \in ErrorCodes, size \in MessageSetSizes}

AnswerBodies(request) ==
    LET r == request.body
    IN  CASE request.type = "Metadata"         -> MetadataAnswers
          [] request.type = "GroupCoordinator" -> CoordinatorAnswers
          [] request.type = "JoinGroup"        -> JoinGroupAnswers(r)
          [] request.type = "SyncGroup"        -> SyncGroupAnswers
          [] request.type = "Heartbeat"        -> {Int16(error) : error \in ErrorCodes}
          [] request.type = "OffsetFetch"      -> OffsetFetchAnswers(r)
          [] request.type = "Offset"           -> OffsetAnswers(r)
          [] request.type = "OffsetCommit"     -> OffsetCommitAnswers(r)
          [] request.type = "Fetch"            -> FetchAnswers(r)

(* With the correlation id of the request. *)
BrokerAnswers(request) ==
    LET head == Object(RequestHead)[Package(request)]
    IN  {Int32(4 + ByteCount(body)) \o Int32(head.value.correlation) \o body :
            body \in AnswerBodies(request)}
=============================================================================
