------------------------------ MODULE Requests -------------------------------
(***************************************************************************)
(* The requests: what each class is constructed from, the CountSize it     *)
(* announces, and the fields its Package writes.  Names are known by their *)
(* lengths.                                                                *)
(*                                                                         *)
(* A size is never measured: CountSize adds up what Package is going to    *)
(* write, and the nested classes do so again for the sizes in the middle.  *)
(***************************************************************************)
EXTENDS Wire

CONSTANTS Group,  \* length of the group's name
          Topic   \* length of the topic's name

ASSUME NamesAssumption == Group \in Nat /\ Topic \in Nat

-----------------------------------------------------------------------------
(* Request *)

client_id_ == 10   \* "consumer-1"

ApiKey == [Fetch |-> 1, Offset |-> 2, Metadata |-> 3, OffsetCommit |-> 8, OffsetFetch |-> 9,
           GroupCoordinator |-> 10, JoinGroup |-> 11, Heartbeat |-> 12, SyncGroup |-> 14]

ApiVersion == [type \in DOMAIN ApiKey |->
    IF type = "OffsetCommit" THEN 2 ELSE IF type \in {"OffsetFetch", "Fetch"} THEN 1 ELSE 0]

HeadSize == 2 + 2 + 4 + 2 + client_id_

(* The correlation id of a request is its api key, in every constructor. *)
PackageHead(type, total_size) ==
    Int32(total_size) \o Int16(ApiKey[type]) \o Int16(ApiVersion[type])
        \o Int32(ApiKey[type]) \o String(client_id_)

-----------------------------------------------------------------------------
(* MetadataRequest.  There is one topic, here and wherever topics are an   *)
(* array below.                                                            *)
MetadataRequest == [topics_ |-> <<[topic |-> Topic]>>]
MetadataSize    == HeadSize + 4 + 2 + Topic
PackageTopic(t) == String(t.topic)
PackageMetadata(r) == Array(r.topics_, PackageTopic)

(* GroupCoordinatorRequest *)
GroupCoordinatorRequest == [group_ |-> Group]
GroupCoordinatorSize    == HeadSize + 2 + Group
PackageGroupCoordinator(r) == String(r.group_)

-----------------------------------------------------------------------------
(* ProtocolMetadata.  user_data_ is empty. *)
ProtocolMetadata == [version_ |-> 0, subscription_ |-> <<[topic |-> Topic]>>, user_data_ |-> 0]
ProtocolMetadataSize == 2 + 4 + 2 + Topic + 4
PackageProtocolMetadata(m) ==
    Int16(m.version_) \o Array(m.subscription_, PackageTopic)
        \o Int32(m.user_data_) \o Field(m.user_data_, m.user_data_)

(* GroupProtocol, of the strategy "range" *)
GroupProtocol == [assignment_strategy_ |-> 5, protocol_metadata_ |-> ProtocolMetadata]
GroupProtocolSize == 2 + 5 + 4 + ProtocolMetadataSize
PackageGroupProtocol(g) ==
    String(g.assignment_strategy_) \o Int32(ProtocolMetadataSize)
        \o PackageProtocolMetadata(g.protocol_metadata_)

(* JoinGroupRequest, of the protocol type "consumer" *)
JoinGroupRequest(member) ==
    [group_id_ |-> Group, session_timeout_ |-> 30000, member_id_ |-> member,
     protocol_type_ |-> 8, group_protocols_ |-> <<GroupProtocol>>]
JoinGroupSize(r) ==
    HeadSize + 2 + Group + 4 + 2 + r.member_id_ + 2 + r.protocol_type_ + 4 + GroupProtocolSize
PackageJoinGroup(r) ==
    String(r.group_id_) \o Int32(r.session_timeout_) \o String(r.member_id_)
        \o String(r.protocol_type_) \o Array(r.group_protocols_, PackageGroupProtocol)

-----------------------------------------------------------------------------
(* PartitionAssignment *)
PartitionAssignmentOf(partitions) ==
    [topic_ |-> Topic, partitions_ |-> [i \in DOMAIN partitions |-> [id |-> partitions[i]]]]
PartitionAssignmentSize(a) == 2 + a.topic_ + 4 + 4 * Len(a.partitions_)
PackagePartition(p) == Int32(p.id)
PackagePartitionAssignment(a) == String(a.topic_) \o Array(a.partitions_, PackagePartition)

(* MemberAssignment.  user_data_ is empty. *)
MemberAssignment(partitions) ==
    [version_ |-> 0, partition_assignment_ |-> <<PartitionAssignmentOf(partitions)>>,
     user_data_ |-> 0]
(* Fault: the length of the user data is not counted. *)
MemberAssignmentSizeWithoutUserData(m) ==
    2 + 4 + SumOf(m.partition_assignment_, PartitionAssignmentSize) + m.user_data_
MemberAssignmentSize(m) ==
    2 + 4 + SumOf(m.partition_assignment_, PartitionAssignmentSize) + 4 + m.user_data_
PackageMemberAssignment(m) ==
    Int16(m.version_) \o Array(m.partition_assignment_, PackagePartitionAssignment)
        \o Int32(m.user_data_) \o Field(m.user_data_, m.user_data_)

(* GroupAssignment *)
GroupAssignment(member, partitions) ==
    [member_id_ |-> member, member_assignment_ |-> MemberAssignment(partitions)]
GroupAssignmentSize(g) == 2 + g.member_id_ + 4 + MemberAssignmentSize(g.member_assignment_)
PackageGroupAssignment(g) ==
    String(g.member_id_) \o Int32(MemberAssignmentSize(g.member_assignment_))
        \o PackageMemberAssignment(g.member_assignment_)

(* SyncGroupRequest: of a follower, and of the leader with its             *)
(* member_partitions_, a sequence of members with their partitions.        *)
SyncGroupRequest(generation, member, member_partitions) ==
    [group_id_ |-> Group, generation_id_ |-> generation, member_id_ |-> member,
     group_assignment_ |-> [i \in DOMAIN member_partitions |->
        GroupAssignment(member_partitions[i].member, member_partitions[i].partitions)]]
SyncGroupSize(r) ==
    HeadSize + 2 + Group + 4 + 2 + r.member_id_ + 4
        + SumOf(r.group_assignment_, GroupAssignmentSize)
PackageSyncGroup(r) ==
    String(r.group_id_) \o Int32(r.generation_id_) \o String(r.member_id_)
        \o Array(r.group_assignment_, PackageGroupAssignment)

-----------------------------------------------------------------------------
(* OffsetFetchRequest *)
OffsetFetchRequest(partitions) ==
    [group_ |-> Group, topics |-> <<PartitionAssignmentOf(partitions)>>]
OffsetFetchSize(partitions) == HeadSize + 2 + Group + 4 + 2 + Topic + 4 + 4 * Len(partitions)
PackageOffsetFetch(r) == String(r.group_) \o Array(r.topics, PackagePartitionAssignment)

(* PartitionTime, TopicPartition and OffsetRequest, for the newest offset *)
PartitionTime(p) == [partition_ |-> p, time_ |-> -1, max_number_of_offsets_ |-> 1]
TopicPartition(partitions) ==
    [topic_ |-> Topic,
     partition_time_array_ |-> [i \in DOMAIN partitions |-> PartitionTime(partitions[i])]]
OffsetRequest(partitions) ==
    [replica_id_ |-> -1, topic_partition_array_ |-> <<TopicPartition(partitions)>>]
PartitionTimeSize == 4 + 8 + 4
TopicPartitionSize(partitions) == 2 + Topic + 4 + Len(partitions) * PartitionTimeSize
OffsetSize(partitions) == HeadSize + 4 + 4 + TopicPartitionSize(partitions)
PackagePartitionTime(p) ==
    Int32(p.partition_) \o Int64(p.time_) \o Int32(p.max_number_of_offsets_)
PackageTopicPartition(t) ==
    String(t.topic_) \o Array(t.partition_time_array_, PackagePartitionTime)
PackageOffset(r) ==
    Int32(r.replica_id_) \o Array(r.topic_partition_array_, PackageTopicPartition)

-----------------------------------------------------------------------------
(* HeartbeatRequest *)
HeartbeatRequest(generation, member) ==
    [group_ |-> Group, generation_id_ |-> generation, member_id_ |-> member]
HeartbeatSize(r) == HeadSize + 2 + Group + 4 + 2 + r.member_id_
PackageHeartbeat(r) == String(r.group_) \o Int32(r.generation_id_) \o String(r.member_id_)

-----------------------------------------------------------------------------
(* PartitionOM, TopicPartitionOM and OffsetCommitRequest, of partitions    *)
(* with their offsets.  metadata_ is empty.                                *)
PartitionOM(p) == [partition_ |-> p.partition, offset_ |-> p.offset, metadata_ |-> 0]
TopicPartitionOM(offsets) ==
    [topic_ |-> Topic, partitions_ |-> [i \in DOMAIN offsets |-> PartitionOM(offsets[i])]]
OffsetCommitRequest(generation, member, offsets) ==
    [group_ |-> Group, group_generation_id_ |-> generation, consumer_id_ |-> member,
     retention_time_ |-> -1, topic_partitions_ |-> <<TopicPartitionOM(offsets)>>]
PartitionOMSize == 4 + 8 + 2
TopicPartitionOMSize(offsets) == 2 + Topic + 4 + Len(offsets) * PartitionOMSize
OffsetCommitSize(member, offsets) ==
    HeadSize + 2 + Group + 4 + 2 + member + 8 + 4 + TopicPartitionOMSize(offsets)
PackagePartitionOM(p) == Int32(p.partition_) \o Int64(p.offset_) \o String(p.metadata_)
PackageTopicPartitionOM(t) == String(t.topic_) \o Array(t.partitions_, PackagePartitionOM)
PackageOffsetCommit(r) ==
    String(r.group_) \o Int32(r.group_generation_id_) \o String(r.consumer_id_)
        \o Int64(r.retention_time_) \o Array(r.topic_partitions_, PackageTopicPartitionOM)

-----------------------------------------------------------------------------
(* PartitionFM, TopicPartitionFM and FetchRequest, of partitions with the  *)
(* offsets to fetch from.                                                  *)
PartitionFM(p) ==
    [partition_ |-> p.partition, fetch_offset_ |-> p.offset, max_bytes_ |-> 1048576]
TopicPartitionFM(offsets) ==
    [topic_ |-> Topic, partitions_ |-> [i \in DOMAIN offsets |-> PartitionFM(offsets[i])]]
FetchRequest(offsets) ==
    [replica_id_ |-> -1, max_wait_time_ |-> 500, min_bytes_ |-> 1024,
     topic_partitions_ |-> <<TopicPartitionFM(offsets)>>]
PartitionFMSize == 4 + 8 + 4
TopicPartitionFMSize(offsets) == 2 + Topic + 4 + Len(offsets) * PartitionFMSize
FetchSize(offsets) == HeadSize + 4 + 4 + 4 + 4 + TopicPartitionFMSize(offsets)
PackagePartitionFM(p) == Int32(p.partition_) \o Int64(p.fetch_offset_) \o Int32(p.max_bytes_)
PackageTopicPartitionFM(t) == String(t.topic_) \o Array(t.partitions_, PackagePartitionFM)
PackageFetch(r) ==
    Int32(r.replica_id_) \o Int32(r.max_wait_time_) \o Int32(r.min_bytes_)
        \o Array(r.topic_partitions_, PackageTopicPartitionFM)

-----------------------------------------------------------------------------
(* The virtual CountSize and Package, of a request [type, body]. *)

CountSize(request) ==
    LET r == request.body
    IN  CASE request.type = "Metadata"         -> MetadataSize
          [] request.type = "GroupCoordinator" -> GroupCoordinatorSize
          [] request.type = "JoinGroup"        -> JoinGroupSize(r)
          [] request.type = "SyncGroup"        -> SyncGroupSize(r)
          [] request.type = "Heartbeat"        -> HeartbeatSize(r)
          [] request.type = "OffsetFetch"      -> OffsetFetchSize(r.topics[1].partitions_)
          [] request.type = "Offset"           ->
                OffsetSize(r.topic_partition_array_[1].partition_time_array_)
          [] request.type = "OffsetCommit"     ->
                OffsetCommitSize(r.consumer_id_, r.topic_partitions_[1].partitions_)
          [] request.type = "Fetch"            -> FetchSize(r.topic_partitions_[1].partitions_)

PackageBody(request) ==
    LET r == request.body
    IN  CASE request.type = "Metadata"         -> PackageMetadata(r)
          [] request.type = "GroupCoordinator" -> PackageGroupCoordinator(r)
          [] request.type = "JoinGroup"        -> PackageJoinGroup(r)
          [] request.type = "SyncGroup"        -> PackageSyncGroup(r)
          [] request.type = "Heartbeat"        -> PackageHeartbeat(r)
          [] request.type = "OffsetFetch"      -> PackageOffsetFetch(r)
          [] request.type = "Offset"           -> PackageOffset(r)
          [] request.type = "OffsetCommit"     -> PackageOffsetCommit(r)
          [] request.type = "Fetch"            -> PackageFetch(r)

Package(request) == PackageHead(request.type, CountSize(request)) \o PackageBody(request)
=============================================================================
