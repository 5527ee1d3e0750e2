------------------------------ MODULE Accessors -------------------------------
(***************************************************************************)
(* What the state machine takes out of a response once it has been parsed: *)
(* the Get... and Parse... methods of the classes.  They follow arrays to  *)
(* their element 0 without asking whether there is one.                    *)
(*                                                                         *)
(* r is a response as Responses.tla reads it.  What is found at an element *)
(* 0 is a sequence of one, or empty when the method reads an element that  *)
(* is not there.                                                           *)
(***************************************************************************)
EXTENDS Responses

(* elements[0], and the array it has in a field. *)
First(elements) == IF elements = <<>> THEN <<>> ELSE <<elements[1]>>
FirstOf(elements, field) == IF elements = <<>> THEN <<>> ELSE <<elements[1][field]>>

(* The first error in an array of entries, or 0. *)
FirstError(entries) ==
    LET errors == SelectSeq(entries, LAMBDA entry : entry.error_code_ # 0)
    IN  IF errors = <<>> THEN 0 ELSE errors[1].error_code_

-----------------------------------------------------------------------------
(* ParseBrokers and ParsePartitions.  Partitions with an error are skipped,*)
(* and a topic error leaves none.                                          *)
ParseBrokers(r) == {r.brokers_[i].id_ : i \in DOMAIN r.brokers_}

Partition(p) == [id_ |-> p.partition_id_, leader_ |-> p.leader_]

ParsePartitions(r) ==
    LET tm == r.topic_metadata_[1]
        pm == SelectSeq(tm.partition_metadata_, LAMBDA p : p.partition_error_code_ = 0)
    IN  IF r.topic_metadata_ = <<>> THEN <<>>
        ELSE <<[error |-> tm.topic_error_code_,
                partitions |-> IF tm.topic_error_code_ # 0 THEN <<>>
                               ELSE [i \in DOMAIN pm |-> Partition(pm[i])]]>>

GetCoordinatorId(r) == r.coordinator_id_

(* A leader is whoever is sent the members. *)
IsGroupLeader(r) == r.members_ # <<>>
GetAllMembers(r) == [i \in DOMAIN r.members_ |-> r.members_[i].member_id_]

(* ParsePartitions of the MemberAssignment, and of the SyncGroupResponse. *)
AssignedPartitionsOf(m) == FirstOf(m.partition_assignment_, "partitions_")
AssignedTo(r) == AssignedPartitionsOf(r.member_assignment_)

(* OffsetFetchResponse's GetErrorCode, and ParseOffset: pairs of a         *)
(* partition and its offset.                                               *)
OffsetFetchErrorCode(r) == FirstError(r.partitions_info_)
ParseOffset(r) ==
    LET info == SelectSeq(r.partitions_info_, LAMBDA entry : entry.error_code_ = 0)
    IN  {<<info[i].partition_, info[i].offset_>> : i \in DOMAIN info}

(* The first partition of the first topic. *)
FirstPartition(r) ==
    LET partitions == FirstOf(r.topic_partition_array_, "partition_offset_array_")
    IN  IF partitions = <<>> THEN <<>> ELSE First(partitions[1])

(* Fault: the error code of the partition is not looked at. *)
GetNewOffsetUnchecked(r) ==
    IF FirstPartition(r) = <<>> THEN <<>> ELSE First(FirstPartition(r)[1].offset_array_)

(* -1 for an error of the partition, e.g. when the broker just got up. *)
GetNewOffset(r) ==
    IF FirstPartition(r) = <<>> THEN <<>>
    ELSE IF FirstPartition(r)[1].error_code_ # 0 THEN <<-1>>
    ELSE First(FirstPartition(r)[1].offset_array_)

OffsetCommitErrorCode(r) ==
    LET partitions == FirstOf(r.topic_partitions_, "partitions_")
    IN  IF partitions = <<>> THEN <<>> ELSE <<FirstError(partitions[1])>>

HeartbeatErrorCode(r) == r.error_code_

(* PrintTopicMsg and GetLastOffset(partition) find the message sets that   *)
(* are not empty; what is in them is module MessageSet's.                  *)
MessageSets(r) ==
    LET info == FirstOf(r.topic_partitions_, "partitions_info_")
    IN  IF info = <<>> THEN <<>>
        ELSE <<SelectSeq(info[1], LAMBDA p : p.message_set_ # 0)>>

-----------------------------------------------------------------------------
(* What the handler that has received the response asks it for: of a       *)
(* metadata response without brokers, nothing more.                        *)
Content(type, r) ==
    CASE type = "Metadata"         ->
            IF ParseBrokers(r) = {} THEN <<{}>> ELSE ParsePartitions(r)
      [] type = "GroupCoordinator" -> <<GetCoordinatorId(r)>>
      [] type = "JoinGroup"        -> <<IsGroupLeader(r), GetAllMembers(r)>>
      [] type = "SyncGroup"        -> AssignedTo(r)
      [] type = "OffsetFetch"      -> <<OffsetFetchErrorCode(r), ParseOffset(r)>>
      [] type = "Offset"           -> GetNewOffset(r)
      [] type = "OffsetCommit"     -> OffsetCommitErrorCode(r)
      [] type = "Heartbeat"        -> <<HeartbeatErrorCode(r)>>
      [] type = "Fetch"            -> MessageSets(r)

(* What receiving a response comes to for its handler. *)
Comes(type, wire) ==
    LET parsed == Parse(type, wire)
    IN  IF parsed = "response" /\ Content(type, Read(type, wire).value) = <<>>
        THEN "overread" ELSE parsed
=============================================================================
