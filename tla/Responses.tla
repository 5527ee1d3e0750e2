------------------------------ MODULE Responses -------------------------------
(***************************************************************************)
(* The responses: what the constructor of each class reads, in its order,  *)
(* the CountSize it then compares with the size the broker announced, and  *)
(* what that comparison does when they differ.                             *)
(*                                                                         *)
(* A message set is read as bytes: module MessageSet shows that what it    *)
(* counts and its invalid_bytes_ add up to message_set_size_.              *)
(***************************************************************************)
EXTENDS Formats

(* Response *)
ResponseHead == <<Read32("total_size_"), Read32("correlation_id_")>>
ResponseSize == 4

-----------------------------------------------------------------------------
(* Broker, PartitionMetadata, TopicMetadata and MetadataResponse *)
Broker == <<Read32("id_"), Text("ip_"), Read32("port_")>>
BrokerSize(b) == 4 + 2 + b.ip_ + 4

PartitionMetadata ==
    <<Read16("partition_error_code_"), Read32("partition_id_"), Read32("leader_"),
      Ints("replicas_"), Ints("isr_")>>
PartitionMetadataSize(p) == 2 + 4 + 4 + 4 + 4 * Len(p.replicas_) + 4 + 4 * Len(p.isr_)

TopicMetadata ==
    <<Read16("topic_error_code_"), Text("topic_"), Many("partition_metadata_", PartitionMetadata)>>
TopicMetadataSize(t) == 2 + 2 + t.topic_ + 4 + SumOf(t.partition_metadata_, PartitionMetadataSize)

MetadataResponse == <<Many("brokers_", Broker), Many("topic_metadata_", TopicMetadata)>>
MetadataResponseSize(r) ==
    ResponseSize + 4 + SumOf(r.brokers_, BrokerSize) + 4 + SumOf(r.topic_metadata_, TopicMetadataSize)

-----------------------------------------------------------------------------
(* GroupCoordinatorResponse *)
GroupCoordinatorResponse ==
    <<Read16("error_code_"), Read32("coordinator_id_"), Text("coordinator_host_"),
      Read32("coordinator_port_")>>
GroupCoordinatorResponseSize(r) == ResponseSize + 2 + 4 + 2 + r.coordinator_host_ + 4

-----------------------------------------------------------------------------
(* Member and JoinGroupResponse.  Only the leader is sent the members.    *)
Member == <<Text("member_id_"), Bytes("member_metadata_")>>
MemberSize(m) == 2 + m.member_id_ + 4 + m.member_metadata_

JoinGroupResponse ==
    <<Read16("error_code_"), Read32("generation_id_"), Text("group_protocol_"),
      Text("leader_id_"), Text("member_id_"), Many("members_", Member)>>
JoinGroupResponseSize(r) ==
    ResponseSize + 2 + 4 + 2 + r.group_protocol_ + 2 + r.leader_id_ + 2 + r.member_id_
        + 4 + SumOf(r.members_, MemberSize)

-----------------------------------------------------------------------------
(* PartitionAssignment and MemberAssignment, read from a buffer, and       *)
(* SyncGroupResponse.  The size of the assignment is read and not used:    *)
(* the assignment is parsed even when the broker sent none.                *)
AssignedPartitions == <<Text("topic_"), Ints("partitions_")>>
AssignedPartitionsSize(a) == 2 + a.topic_ + 4 + 4 * Len(a.partitions_)

AssignmentRead ==
    <<Read16("version_"), Many("partition_assignment_", AssignedPartitions), Bytes("user_data_")>>
AssignmentReadSize(m) ==
    2 + 4 + SumOf(m.partition_assignment_, AssignedPartitionsSize) + 4 + m.user_data_

SyncGroupResponse ==
    <<Throwing("error_code_"), Read32("member_assignment_size"),
      One("member_assignment_", AssignmentRead)>>
SyncGroupResponseSize(r) == ResponseSize + 2 + 4 + AssignmentReadSize(r.member_assignment_)

-----------------------------------------------------------------------------
(* PartitionOffsetME and OffsetFetchResponse.  The number of topics is     *)
(* read and not used: one topic is parsed.                                 *)
PartitionOffsetME ==
    <<Read32("partition_"), Read64("offset_"), Text("metadata_"), Read16("error_code_")>>
PartitionOffsetMESize(p) == 4 + 8 + 2 + p.metadata_ + 2

OffsetFetchResponse ==
    <<Read32("array_size"), Text("topic_"), Many("partitions_info_", PartitionOffsetME)>>
OffsetFetchResponseSize(r) ==
    ResponseSize + 4 + 2 + r.topic_ + 4 + SumOf(r.partitions_info_, PartitionOffsetMESize)

-----------------------------------------------------------------------------
(* PartitionOffsets, TopicPartitionOR and OffsetResponse *)
PartitionOffsets ==
    <<Read32("partition_"), Read16("error_code_"), Longs("offset_array_")>>
PartitionOffsetsSize(p) == 4 + 2 + 4 + Len(p.offset_array_) * 8

TopicPartitionOR == <<Text("topic_"), Many("partition_offset_array_", PartitionOffsets)>>
TopicPartitionORSize(t) == 2 + t.topic_ + 4 + SumOf(t.partition_offset_array_, PartitionOffsetsSize)

OffsetResponse == <<Many("topic_partition_array_", TopicPartitionOR)>>
OffsetResponseSize(r) == ResponseSize + 4 + SumOf(r.topic_partition_array_, TopicPartitionORSize)

-----------------------------------------------------------------------------
(* PartitionE, TopicPartitionE and OffsetCommitResponse *)
PartitionE == <<Read32("partition_"), Read16("error_code_")>>
PartitionESize(p) == 4 + 2

TopicPartitionE == <<Text("topic_"), Many("partitions_", PartitionE)>>
TopicPartitionESize(t) == 2 + t.topic_ + 4 + SumOf(t.partitions_, PartitionESize)

OffsetCommitResponse == <<Many("topic_partitions_", TopicPartitionE)>>
OffsetCommitResponseSize(r) == ResponseSize + 4 + SumOf(r.topic_partitions_, TopicPartitionESize)

-----------------------------------------------------------------------------
(* HeartbeatResponse.  Its size is not compared. *)
HeartbeatResponse == <<Read16("error_code_")>>

-----------------------------------------------------------------------------
(* PartitionInfo, TopicPartitionInfo and FetchResponse.  The throttle time *)
(* and the number of topics are the 8 bytes added at the end.              *)
PartitionInfo ==
    <<Read32("partition_"), Read16("error_code_"), Read64("high_water_mark_offset_"),
      Bytes("message_set_")>>
PartitionInfoSize(p) == 4 + 2 + 8 + 4 + p.message_set_

TopicPartitionInfo == <<Text("topic_"), Many("partitions_info_", PartitionInfo)>>
TopicPartitionInfoSize(t) == 2 + t.topic_ + 4 + SumOf(t.partitions_info_, PartitionInfoSize)

FetchResponse == <<Read32("throttle_time_"), Many("topic_partitions_", TopicPartitionInfo)>>
FetchResponseSize(r) == ResponseSize + SumOf(r.topic_partitions_, TopicPartitionInfoSize) + 8

-----------------------------------------------------------------------------
(* The switch of Network::Receive. *)

Constructor ==
    [Metadata |-> MetadataResponse, GroupCoordinator |-> GroupCoordinatorResponse,
     JoinGroup |-> JoinGroupResponse, SyncGroup |-> SyncGroupResponse,
     OffsetFetch |-> OffsetFetchResponse, Offset |-> OffsetResponse,
     OffsetCommit |-> OffsetCommitResponse, Heartbeat |-> HeartbeatResponse,
     Fetch |-> FetchResponse]

Read(type, wire) == Object(ResponseHead \o Constructor[type])[wire]

SizesEqual(type, r) ==
    CASE type = "Metadata"         -> r.total_size_ = MetadataResponseSize(r)
      [] type = "GroupCoordinator" -> r.total_size_ = GroupCoordinatorResponseSize(r)
      [] type = "JoinGroup"        -> r.total_size_ = JoinGroupResponseSize(r)
      [] type = "SyncGroup"        -> r.total_size_ = SyncGroupResponseSize(r)
      [] type = "OffsetFetch"      -> r.total_size_ = OffsetFetchResponseSize(r)
      [] type = "Offset"           -> r.total_size_ = OffsetResponseSize(r)
      [] type = "OffsetCommit"     -> r.total_size_ = OffsetCommitResponseSize(r)
      [] type = "Fetch"            -> r.total_size_ = FetchResponseSize(r)
      [] type = "Heartbeat"        -> TRUE

(* What the constructor comes to.  MetadataResponse throws an exception    *)
(* Receive catches, GroupCoordinatorResponse one it does not, and the      *)
(* others throw without an exception, which ends the process even in a     *)
(* try block.  FetchResponse looks at the first topic, which may be        *)
(* missing.                                                                *)
Parse(type, wire) ==
    LET got == Read(type, wire)
    IN  IF got.how = "thrown" THEN "error"
        ELSE IF got.how = "lost" THEN "overread"
        ELSE IF type = "Fetch" /\ got.value.topic_partitions_ = <<>> THEN "overread"
        ELSE IF SizesEqual(type, got.value) THEN "response"
        ELSE IF type = "Metadata" THEN "error"
        ELSE "terminate"
=============================================================================
