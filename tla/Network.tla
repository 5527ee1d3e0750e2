------------------------------- MODULE Network -------------------------------
(***************************************************************************)
(* The consumer client: the state machine of network.cc, one thread that   *)
(* calls current_state_(event_) for ever.  Each handler sends one request  *)
(* at a time and blocks for the response, so one action is one such        *)
(* exchange together with the code that runs until the next request.       *)
(*                                                                         *)
(* The brokers are outside this module: an action takes the content of a   *)
(* response as a parameter, and Next lets it be any response a Kafka       *)
(* broker can give.  An exchange fails in three ways: the send fails or    *)
(* the peer closed the connection (the broker is erased), or the response  *)
(* cannot be read or used (the broker is kept).                            *)
(*                                                                         *)
(* coordinator_ is a pointer into alive_brokers_; it dangles when its      *)
(* target is no longer in alive_brokers_.  The memory of an erased broker  *)
(* still names a closed descriptor, so a send through it fails and erases  *)
(* nothing.                                                                *)
(***************************************************************************)
EXTENDS Integers, FiniteSets, Functions, RangeAssignment

CONSTANTS Bootstrap,     \* ids of the brokers of the broker list (negative in the code)
          Brokers,       \* ids of the brokers of the cluster
          Partitions,    \* partitions of the topic
          MemberIds,     \* member ids the coordinator hands out
          NoMember,      \* the empty member id
          Generations,   \* generations the coordinator hands out
          NoGeneration,  \* generation in a join response that carries an error
          MaxOffset,     \* bound on offsets
          Absent,        \* a key a map does not have, a broker nobody is
          NULL           \* the null pointer

ASSUME IdsAssumption ==
    /\ Bootstrap \cap Brokers = {}
    /\ Absent \notin Bootstrap \cup Brokers \cup Int
    /\ NULL \notin Bootstrap \cup Brokers
    /\ NoMember \notin MemberIds
    /\ NoGeneration \notin Generations
ASSUME OffsetAssumption == MaxOffset \in Nat

VARIABLES current_state_,          \* the handler Start calls next
          event_,                  \* the event it is called with
          process_,                \* "running", or how the process ended
          step_,                   \* PartOfGroup: the exchange that comes next
          unresolved_,             \* FetchValidOffset: entries its loop has still to visit
          unfetched_,              \* FetchMessage: brokers its loop has still to visit
          committing_,             \* offsets of the commit request being built
          error_code_,             \* FetchValidOffset: its error_code
          alive_brokers_,          \* ids that have a connection
          coordinator_,            \* id of the broker coordinator_ points at
          all_partitions_,         \* leader of each partition of the metadata
          my_partitions_id_,       \* partitions this member was assigned
          broker_owned_partition_, \* the same, by leader
          partition_offset_,       \* offset to fetch from
          generation_id_, member_id_, amIGroupLeader_,
          member_partitions_       \* the leader's assignment

loop    == <<step_, unresolved_, unfetched_, committing_, error_code_>>
control == <<current_state_, event_, loop>>
cluster == <<alive_brokers_, coordinator_, all_partitions_>>
owned   == <<my_partitions_id_, broker_owned_partition_>>
session == <<generation_id_, member_id_, amIGroupLeader_, member_partitions_>>
vars    == <<control, process_, cluster, owned, partition_offset_, session>>

-----------------------------------------------------------------------------
(* Values *)

ILLEGAL_GENERATION == 22
UNKNOWN_MEMBER_ID  == 25
OtherError         == 27   \* any error the code has no branch for, e.g. REBALANCE_IN_PROGRESS
FencedErrors       == {ILLEGAL_GENERATION, UNKNOWN_MEMBER_ID}
ResponseErrors     == FencedErrors \cup {OtherError}

States == {"Initial", "DiscoverCoordinator", "JoinGroup", "SyncGroup", "PartOfGroup"}
Events == {"STARTUP", "DISCOVER_COORDINATOR", "JOIN_WITH_EMPTY_CONSUMER_ID",
           "JOIN_WITH_PREVIOUS_CONSUMER_ID", "SYNC_GROUP", "FETCH", "REFRESH_METADATA"}
Steps  == {"enter", "resolve", "commit_reset", "fetch", "commit_fetch", "heartbeat"}

UnknownOffset == -1
Offsets       == 0 .. MaxOffset
NoCommit      == [p \in Partitions |-> Absent]
Entries(map)  == {p \in Partitions : map[p] # Absent}

(* CreateBrokerIdToOwnedPartitionMap *)
ByLeader(partitions) ==
    [b \in Brokers |-> {p \in partitions : all_partitions_[p] = b}]

(* The brokers FetchMessage visits: those that have an entry in the map. *)
Leaders(ownership) == {b \in Brokers : ownership[b] # {}}

(* Fault: the test for -1 is dropped. *)
AnyEntry(offsets) == {p \in Partitions : offsets[p] # Absent}

(* What OffsetFetch has the loop of FetchValidOffset visit. *)
Unknown(offsets) == {p \in Partitions : offsets[p] = UnknownOffset}

-----------------------------------------------------------------------------
(* Network::Network.  The brokers of the list get a connection or, after   *)
(* ten failures of socket(), are skipped.  generation_id_ is not           *)
(* initialised, so it starts with any value.                               *)
Init ==
    /\ current_state_ = "Initial"
    /\ event_ = "STARTUP"
    /\ process_ = "running"
    /\ step_ = "enter"
    /\ unresolved_ = {}
    /\ unfetched_ = {}
    /\ committing_ = NoCommit
    /\ error_code_ = 0
    /\ alive_brokers_ \in SUBSET Bootstrap
    /\ coordinator_ = NULL
    /\ all_partitions_ = [p \in Partitions |-> Absent]
    /\ my_partitions_id_ = {}
    /\ broker_owned_partition_ = [b \in Brokers |-> {}]
    /\ partition_offset_ = [p \in Partitions |-> Absent]
    /\ generation_id_ \in Generations \cup {NoGeneration}
    /\ member_id_ = NoMember
    /\ amIGroupLeader_ = FALSE
    /\ member_partitions_ = [m \in {} |-> {}]

-----------------------------------------------------------------------------
(* Parts of actions *)

In(state) == process_ = "running" /\ current_state_ = state
At(step)  == In("PartOfGroup") /\ step_ = step

(* current_state_ = ..., event = ...: the handler returns. *)
Goto(state, event) ==
    /\ current_state_' = state
    /\ event_' = event
    /\ step_' = "enter"
    /\ unresolved_' = {}
    /\ unfetched_' = {}
    /\ committing_' = NoCommit
    /\ error_code_' = 0

(* An exception nobody catches, or undefined behaviour that stops the      *)
(* process: it is over, whatever was changed before.                       *)
Terminate(how) == process_' = how /\ UNCHANGED control

(* SendRequestHandler returns <= 0: the broker is closed and erased. *)
SendFails(b) == alive_brokers_' = alive_brokers_ \ {b}

(* ReceiveResponseHandler returns 0 (erased) or < 0 (kept).  Nothing can   *)
(* be received from a broker nothing can be sent to.                       *)
ReceiveFails(b) ==
    /\ b \in alive_brokers_
    /\ alive_brokers_' \in {alive_brokers_, alive_brokers_ \ {b}}

ExchangeFails(b) == SendFails(b) \/ ReceiveFails(b)

(* The exchange gets a response. *)
Answers(b) == b \in alive_brokers_

-----------------------------------------------------------------------------
(* Initial *)

(* FetchMetadata: one failed turn of its loop, which starts over with the  *)
(* first broker that is left.                                              *)
FetchMetadataFails(b) ==
    /\ In("Initial")
    /\ b \in alive_brokers_
    /\ ExchangeFails(b)
    /\ UNCHANGED <<control, process_, coordinator_, all_partitions_, owned,
                   partition_offset_, session>>

(* Fault: the -1 of FetchMetadata is not looked at. *)
GivesUpUnnoticed ==
    /\ In("Initial")
    /\ alive_brokers_ = {}
    /\ Goto("DiscoverCoordinator", "DISCOVER_COORDINATOR")
    /\ UNCHANGED <<process_, cluster, owned, partition_offset_, session>>

(* No broker is left: FetchMetadata returns -1 and Initial is called again. *)
FetchMetadataGivesUp ==
    /\ In("Initial")
    /\ alive_brokers_ = {}
    /\ UNCHANGED vars

(* A metadata response: the brokers, and the leader of each partition or a *)
(* topic error.  A partition with an error of its own has no leader.       *)
MetadataReplies ==
    {r \in [brokers : SUBSET Brokers, topicError : BOOLEAN,
            leader : [Partitions -> Brokers \cup {Absent}]] :
        \A p \in Partitions :
            r.leader[p] = Absent \/ (r.leader[p] \in r.brokers /\ ~r.topicError)}

(* Fault: the brokers known before are kept. *)
ParseMetadataAdds(r) ==
    /\ alive_brokers_' = alive_brokers_ \cup r.brokers
    /\ all_partitions_' = r.leader

(* RefreshAliveBrokers and MetadataResponse::ParsePartitions *)
ParseMetadata(r) ==
    /\ alive_brokers_' = r.brokers
    /\ all_partitions_' = r.leader

InitialStartup(b, r) ==
    /\ In("Initial") /\ event_ = "STARTUP"
    /\ b \in alive_brokers_
    /\ IF r.brokers = {}
       THEN UNCHANGED <<control, alive_brokers_, all_partitions_>>
       ELSE /\ ParseMetadata(r)
            /\ IF r.topicError
               THEN UNCHANGED control
               ELSE Goto("DiscoverCoordinator", "DISCOVER_COORDINATOR")
    /\ UNCHANGED <<process_, coordinator_, owned, partition_offset_, session>>

(* coordinator_->id_ is read after alive_brokers_ was assigned.  The       *)
(* assignment puts the new brokers into the nodes of the old ones, in any  *)
(* order, so the pointer reads the id of any of the new brokers, or the    *)
(* old id if its node was freed: id is what it reads.                      *)
InitialRefresh(b, r, id) ==
    /\ In("Initial") /\ event_ = "REFRESH_METADATA"
    /\ b \in alive_brokers_
    /\ id \in r.brokers \cup {coordinator_}
    /\ IF r.brokers = {}
       THEN UNCHANGED <<control, cluster>>
       ELSE IF id \in r.brokers
       THEN /\ ParseMetadata(r)
            /\ coordinator_' = id
            /\ IF r.topicError
               THEN UNCHANGED control
               ELSE Goto("JoinGroup", "JOIN_WITH_PREVIOUS_CONSUMER_ID")
       ELSE /\ alive_brokers_' = r.brokers
            /\ UNCHANGED <<coordinator_, all_partitions_>>
            /\ Goto("DiscoverCoordinator", "DISCOVER_COORDINATOR")
    /\ UNCHANGED <<process_, owned, partition_offset_, session>>

-----------------------------------------------------------------------------
(* DiscoverCoordinator *)

(* Fault: the metadata is refreshed for a coordinator nobody has found yet. *)
DiscoverFailsIntoRefresh(b) ==
    /\ In("DiscoverCoordinator")
    /\ b \in alive_brokers_
    /\ ExchangeFails(b)
    /\ Goto("Initial", "REFRESH_METADATA")
    /\ UNCHANGED <<process_, coordinator_, all_partitions_, owned,
                   partition_offset_, session>>

DiscoverCoordinatorFails(b) ==
    /\ In("DiscoverCoordinator")
    /\ b \in alive_brokers_
    /\ ExchangeFails(b)
    /\ Goto("Initial", "STARTUP")
    /\ UNCHANGED <<process_, coordinator_, all_partitions_, owned,
                   partition_offset_, session>>

(* Fault: alive_brokers_[id] instead of alive_brokers_.at(id). *)
DiscoverUnchecked(b, id) ==
    /\ In("DiscoverCoordinator")
    /\ b \in alive_brokers_
    /\ coordinator_' = id
    /\ Goto("JoinGroup", "JOIN_WITH_EMPTY_CONSUMER_ID")
    /\ UNCHANGED <<process_, alive_brokers_, all_partitions_, owned,
                   partition_offset_, session>>

(* The error code of the response is not looked at: with one, id is Absent *)
(* (-1 in the protocol), and alive_brokers_.at(id) throws.                 *)
DiscoverCoordinator(b, id) ==
    /\ In("DiscoverCoordinator")
    /\ b \in alive_brokers_
    /\ id \in Brokers \cup {Absent}
    /\ IF id \in alive_brokers_
       THEN /\ coordinator_' = id
            /\ Goto("JoinGroup", "JOIN_WITH_EMPTY_CONSUMER_ID")
            /\ UNCHANGED process_
       ELSE Terminate("out_of_range") /\ UNCHANGED coordinator_
    /\ UNCHANGED <<alive_brokers_, all_partitions_, owned, partition_offset_, session>>

-----------------------------------------------------------------------------
(* JoinGroup *)

(* Whatever the outcome, SyncGroup is next. *)
JoinGroupFails ==
    /\ In("JoinGroup")
    /\ ExchangeFails(coordinator_)
    /\ Goto("SyncGroup", "SYNC_GROUP")
    /\ UNCHANGED <<process_, coordinator_, all_partitions_, owned,
                   partition_offset_, session>>

RequestedMember ==
    IF event_ = "JOIN_WITH_EMPTY_CONSUMER_ID" THEN NoMember ELSE member_id_

(* A join response: the leader's lists the members, a follower's does not, *)
(* and one with an error (which the code does not look at) repeats the     *)
(* requested id.  memberRank is the order of the member list.              *)
JoinReplies ==
    LET memberLists == {<<>>} \cup
            UNION {Bijection(S, 1 .. Cardinality(S)) : S \in (SUBSET MemberIds) \ {{}}}
    IN  {r \in [generation : Generations, member : MemberIds, memberRank : memberLists] :
            DOMAIN r.memberRank # {} => r.member \in DOMAIN r.memberRank}
        \cup {[generation |-> NoGeneration, member |-> RequestedMember, memberRank |-> <<>>]}

(* The orders in which all_partitions_ may be iterated. *)
PartitionRanks ==
    LET known == Entries(all_partitions_) IN Bijection(known, 1 .. Cardinality(known))

(* Fault: generation_id_ is not assigned. *)
JoinKeepsGeneration(r, partitionRank) ==
    /\ In("JoinGroup")
    /\ Answers(coordinator_)
    /\ member_id_' = r.member
    /\ amIGroupLeader_' = (DOMAIN r.memberRank # {})
    /\ member_partitions_' = PartitionAssignment(member_partitions_, r.memberRank, partitionRank)
    /\ Goto("SyncGroup", "SYNC_GROUP")
    /\ UNCHANGED <<process_, cluster, owned, partition_offset_, generation_id_>>

(* Fault: only the first join computes the assignment. *)
JoinAssignsOnce(r, partitionRank) ==
    /\ In("JoinGroup")
    /\ Answers(coordinator_)
    /\ generation_id_' = r.generation
    /\ member_id_' = r.member
    /\ amIGroupLeader_' = (DOMAIN r.memberRank # {})
    /\ member_partitions_' =
            IF event_ = "JOIN_WITH_EMPTY_CONSUMER_ID"
            THEN PartitionAssignment(member_partitions_, r.memberRank, partitionRank)
            ELSE member_partitions_
    /\ Goto("SyncGroup", "SYNC_GROUP")
    /\ UNCHANGED <<process_, cluster, owned, partition_offset_>>

JoinGroup(r, partitionRank) ==
    /\ In("JoinGroup")
    /\ Answers(coordinator_)
    /\ generation_id_' = r.generation
    /\ member_id_' = r.member
    /\ amIGroupLeader_' = (DOMAIN r.memberRank # {})
    /\ member_partitions_' = PartitionAssignment(member_partitions_, r.memberRank, partitionRank)
    /\ Goto("SyncGroup", "SYNC_GROUP")
    /\ UNCHANGED <<process_, cluster, owned, partition_offset_>>

-----------------------------------------------------------------------------
(* SyncGroup *)

(* The handler returns without a new state: it is called again. *)
SyncGroupSendFails ==
    /\ In("SyncGroup")
    /\ SendFails(coordinator_)
    /\ UNCHANGED <<control, process_, coordinator_, all_partitions_, owned,
                   partition_offset_, session>>

(* Fault: the handler stays in SyncGroup after a failure to receive, too. *)
SyncGroupStays ==
    /\ In("SyncGroup")
    /\ ReceiveFails(coordinator_)
    /\ UNCHANGED <<control, process_, coordinator_, all_partitions_, owned,
                   partition_offset_, session>>

(* Fault: the client gives its id up whenever the coordinator answers with *)
(* an error.                                                               *)
SyncGroupJoinsAfresh ==
    /\ In("SyncGroup")
    /\ ReceiveFails(coordinator_)
    /\ Goto("JoinGroup", "JOIN_WITH_EMPTY_CONSUMER_ID")
    /\ UNCHANGED <<process_, coordinator_, all_partitions_, owned,
                   partition_offset_, session>>

(* Also every response with an error code: its constructor throws, and     *)
(* Receive returns -1.                                                     *)
SyncGroupReceiveFails ==
    /\ In("SyncGroup")
    /\ ReceiveFails(coordinator_)
    /\ Goto("Initial", "REFRESH_METADATA")
    /\ UNCHANGED <<process_, coordinator_, all_partitions_, owned,
                   partition_offset_, session>>

(* The partitions in a response without an error, which the coordinator    *)
(* gives to no other generation and member than those it handed out.       *)
SyncReplies ==
    IF generation_id_ \in Generations /\ member_id_ \in MemberIds
    THEN SUBSET Partitions ELSE {}

(* Fault: broker_owned_partition_ is not built again. *)
SyncKeepsOwnership(assigned) ==
    /\ In("SyncGroup")
    /\ Answers(coordinator_)
    /\ my_partitions_id_' = assigned
    /\ IF assigned \subseteq Entries(all_partitions_)
       THEN Goto("PartOfGroup", "FETCH") /\ UNCHANGED process_
       ELSE Terminate("out_of_range")
    /\ UNCHANGED <<cluster, broker_owned_partition_, partition_offset_, session>>

(* Fault: my_partitions_id_ is not cleared before it is filled. *)
SyncAppends(assigned) ==
    /\ In("SyncGroup")
    /\ Answers(coordinator_)
    /\ my_partitions_id_' = my_partitions_id_ \cup assigned
    /\ broker_owned_partition_' = ByLeader(my_partitions_id_')
    /\ Goto("PartOfGroup", "FETCH")
    /\ UNCHANGED <<process_, cluster, partition_offset_, session>>

(* all_partitions_.at throws for an assigned partition the metadata of     *)
(* this member does not have.                                              *)
SyncGroup(assigned) ==
    /\ In("SyncGroup")
    /\ Answers(coordinator_)
    /\ my_partitions_id_' = assigned
    /\ IF assigned \subseteq Entries(all_partitions_)
       THEN /\ broker_owned_partition_' = ByLeader(assigned)
            /\ Goto("PartOfGroup", "FETCH")
            /\ UNCHANGED process_
       ELSE /\ broker_owned_partition_' = [b \in Brokers |-> {}]
            /\ Terminate("out_of_range")
    /\ UNCHANGED <<cluster, partition_offset_, session>>

-----------------------------------------------------------------------------
(* PartOfGroup: FetchValidOffset *)

(* FetchMessage visits the brokers in to, then HeartbeatTask is called.    *)
ToFetch(to, error) ==
    /\ step_' = (IF to = {} THEN "heartbeat" ELSE "fetch")
    /\ unfetched_' = to
    /\ unresolved_' = {}
    /\ committing_' = NoCommit
    /\ error_code_' = error
    /\ UNCHANGED <<current_state_, event_>>

(* The loop over the entries of partition_offset_ goes on with the entries *)
(* in to; after the last one PartOfGroup looks at the error code.          *)
ToResolve(to, error) ==
    \/ /\ to # {}
       /\ step_' = "resolve"
       /\ unresolved_' = to
       /\ committing_' = NoCommit
       /\ error_code_' = error
       /\ UNCHANGED <<current_state_, event_, unfetched_>>
    \/ /\ to = {} /\ error \in FencedErrors
       /\ Goto("JoinGroup", "JOIN_WITH_PREVIOUS_CONSUMER_ID")
    \/ /\ to = {} /\ error < 0
       /\ Goto("Initial", "REFRESH_METADATA")
    \/ /\ to = {} /\ error >= 0 /\ error \notin FencedErrors
       /\ ToFetch(Leaders(broker_owned_partition_), error)

(* Fault: event is not assigned. *)
OffsetFetchKeepsEvent ==
    /\ At("enter")
    /\ ExchangeFails(coordinator_)
    /\ Goto("Initial", event_)
    /\ UNCHANGED <<process_, coordinator_, all_partitions_, owned,
                   partition_offset_, session>>

OffsetFetchFails ==
    /\ At("enter")
    /\ ExchangeFails(coordinator_)
    /\ Goto("Initial", "REFRESH_METADATA")
    /\ UNCHANGED <<process_, coordinator_, all_partitions_, owned,
                   partition_offset_, session>>

(* A response with an error code: FetchValidOffset returns what            *)
(* ReceiveResponseHandler returned, which is 1.                            *)
OffsetFetchError ==
    /\ At("enter")
    /\ Answers(coordinator_)
    /\ my_partitions_id_ # {}
    /\ ToFetch(Leaders(broker_owned_partition_), 1)
    /\ UNCHANGED <<process_, cluster, owned, partition_offset_, session>>

(* Asked about no partition, the coordinator answers with the committed    *)
(* offsets of the group, or with no topic at all, which the constructor    *)
(* of the response does not survive.                                       *)
OffsetReplies ==
    IF my_partitions_id_ = {}
    THEN UNION {[S -> Offsets] : S \in SUBSET Partitions}
    ELSE [my_partitions_id_ -> Offsets \cup {UnknownOffset}]

OffsetFetch(offsets) ==
    /\ At("enter")
    /\ Answers(coordinator_)
    /\ LET updated == [p \in Partitions |->
                IF p \in DOMAIN offsets THEN offsets[p] ELSE partition_offset_[p]]
       IN  IF DOMAIN offsets = {}
           THEN Terminate("bad_response") /\ UNCHANGED partition_offset_
           ELSE /\ partition_offset_' = updated
                /\ ToResolve(Unknown(updated), 1)
                /\ UNCHANGED process_
    /\ UNCHANGED <<cluster, owned, session>>

(* all_partitions_.at or alive_brokers_.at throws: the entry's partition   *)
(* is not in the metadata, or its leader has been erased.                  *)
ResolveThrows(p) ==
    /\ At("resolve")
    /\ p \in unresolved_
    /\ all_partitions_[p] \notin alive_brokers_
    /\ Terminate("out_of_range")
    /\ UNCHANGED <<cluster, owned, partition_offset_, session>>

ResolveFails(p) ==
    /\ At("resolve")
    /\ p \in unresolved_
    /\ all_partitions_[p] \in alive_brokers_
    /\ ExchangeFails(all_partitions_[p])
    /\ ToResolve(unresolved_ \ {p}, error_code_)
    /\ UNCHANGED <<process_, coordinator_, all_partitions_, owned,
                   partition_offset_, session>>

(* The leader answers with its newest offset, or with an error, which      *)
(* GetNewOffset turns into -1.  Either is committed next.                  *)
ResolveOffset(p, offset) ==
    /\ At("resolve")
    /\ p \in unresolved_
    /\ Answers(all_partitions_[p])
    /\ partition_offset_' = [partition_offset_ EXCEPT ![p] = offset]
    /\ committing_' = [NoCommit EXCEPT ![p] = offset]
    /\ unresolved_' = unresolved_ \ {p}
    /\ step_' = "commit_reset"
    /\ UNCHANGED <<current_state_, event_, process_, unfetched_, error_code_,
                   cluster, owned, session>>

(* Fault: a failed commit leaves the error code as it is. *)
CommitResetKeepsError ==
    /\ At("commit_reset")
    /\ ExchangeFails(coordinator_)
    /\ ToResolve(unresolved_, error_code_)
    /\ UNCHANGED <<process_, coordinator_, all_partitions_, owned,
                   partition_offset_, session>>

CommitResetFails ==
    /\ At("commit_reset")
    /\ ExchangeFails(coordinator_)
    /\ ToResolve(unresolved_, -1)
    /\ UNCHANGED <<process_, coordinator_, all_partitions_, owned,
                   partition_offset_, session>>

(* An error is remembered; a commit that succeeds makes FetchValidOffset   *)
(* return -1 without visiting the entries that are left.                   *)
CommitReset(error) ==
    /\ At("commit_reset")
    /\ Answers(coordinator_)
    /\ IF error = 0
       THEN Goto("Initial", "REFRESH_METADATA")
       ELSE ToResolve(unresolved_, error)
    /\ UNCHANGED <<process_, cluster, owned, partition_offset_, session>>

-----------------------------------------------------------------------------
(* PartOfGroup: FetchMessage *)

(* partition_offset_.at throws when an offset was never learnt, and        *)
(* alive_brokers_.at when the leader has been erased.                      *)
FetchThrows(b) ==
    /\ At("fetch")
    /\ b \in unfetched_
    /\ \/ b \notin alive_brokers_
       \/ \E p \in broker_owned_partition_[b] : partition_offset_[p] = Absent
    /\ Terminate("out_of_range")
    /\ UNCHANGED <<cluster, owned, partition_offset_, session>>

FetchSent(b) ==
    /\ At("fetch")
    /\ b \in unfetched_ \cap alive_brokers_
    /\ \A p \in broker_owned_partition_[b] : partition_offset_[p] # Absent

FetchFails(b) ==
    /\ FetchSent(b)
    /\ ExchangeFails(b)
    /\ Goto("Initial", "STARTUP")
    /\ UNCHANGED <<process_, coordinator_, all_partitions_, owned,
                   partition_offset_, session>>

(* A partition whose offset is still -1 is left out of the request. *)
Requested(b) ==
    {p \in broker_owned_partition_[b] : partition_offset_[p] # UnknownOffset}

(* A request for no partition gets a response with no topic, and a message *)
(* larger than the response may be comes cut off, as a set without a last  *)
(* message: topic_partitions_[0] and offset_message_[-1] end the process.  *)
FetchUnusable(b) ==
    /\ FetchSent(b)
    /\ Terminate("bad_response")
    /\ UNCHANGED <<cluster, owned, partition_offset_, session>>

(* The last offset of the messages of each partition that has some, at or  *)
(* after the offset asked for.                                             *)
FetchReplies(b) ==
    {last \in [Requested(b) -> (0 .. MaxOffset - 1) \cup {Absent}] :
        \A p \in Requested(b) : last[p] = Absent \/ last[p] >= partition_offset_[p]}

(* Fault: the offset of the last message is committed, not the one after it. *)
FetchCommitsLast(b, last) ==
    /\ FetchSent(b)
    /\ committing_' = [p \in Partitions |-> IF p \in Requested(b) THEN last[p] ELSE Absent]
    /\ unfetched_' = unfetched_ \ {b}
    /\ step_' = "commit_fetch"
    /\ UNCHANGED <<current_state_, event_, unresolved_, error_code_, process_, cluster,
                   owned, partition_offset_, session>>

(* Fault: after a commit the loop visits the same broker again. *)
FetchStays(b, last) ==
    /\ FetchSent(b)
    /\ LET got == {p \in Requested(b) : last[p] # Absent}
       IN  /\ got # {}
           /\ committing_' = [p \in Partitions |-> IF p \in got THEN last[p] + 1 ELSE Absent]
    /\ step_' = "commit_fetch"
    /\ UNCHANGED <<current_state_, event_, unresolved_, unfetched_, error_code_, process_,
                   cluster, owned, partition_offset_, session>>

(* Fault: one is added to the offset of the last message twice. *)
FetchCommitsBeyond(b, last) ==
    /\ FetchSent(b)
    /\ LET got == {p \in Requested(b) : last[p] # Absent}
       IN  IF got = {}
           THEN ToFetch(unfetched_ \ {b}, error_code_)
           ELSE /\ committing_' = [p \in Partitions |->
                        IF p \in got THEN last[p] + 2 ELSE Absent]
                /\ unfetched_' = unfetched_ \ {b}
                /\ step_' = "commit_fetch"
                /\ UNCHANGED <<current_state_, event_, unresolved_, error_code_>>
    /\ UNCHANGED <<process_, cluster, owned, partition_offset_, session>>

Fetch(b, last) ==
    /\ FetchSent(b)
    /\ Requested(b) # {}
    /\ LET got == {p \in Requested(b) : last[p] # Absent}
       IN  IF got = {}
           THEN ToFetch(unfetched_ \ {b}, error_code_)
           ELSE /\ committing_' = [p \in Partitions |->
                        IF p \in got THEN last[p] + 1 ELSE Absent]
                /\ unfetched_' = unfetched_ \ {b}
                /\ step_' = "commit_fetch"
                /\ UNCHANGED <<current_state_, event_, unresolved_, error_code_>>
    /\ UNCHANGED <<process_, cluster, owned, partition_offset_, session>>

CommitFetchFails ==
    /\ At("commit_fetch")
    /\ ExchangeFails(coordinator_)
    /\ Goto("Initial", "STARTUP")
    /\ UNCHANGED <<process_, coordinator_, all_partitions_, owned,
                   partition_offset_, session>>

CommitFetch(error) ==
    /\ At("commit_fetch")
    /\ Answers(coordinator_)
    /\ IF error = 0
       THEN ToFetch(unfetched_, error_code_)
       ELSE Goto("Initial", "STARTUP")
    /\ UNCHANGED <<process_, cluster, owned, partition_offset_, session>>

-----------------------------------------------------------------------------
(* PartOfGroup: HeartbeatTask and RefreshMetadata *)

(* Fault: a heartbeat that fails is ignored. *)
HeartbeatFailsUnnoticed ==
    /\ At("heartbeat")
    /\ ExchangeFails(coordinator_)
    /\ Goto("PartOfGroup", "FETCH")
    /\ UNCHANGED <<process_, coordinator_, all_partitions_, owned,
                   partition_offset_, session>>

HeartbeatFails ==
    /\ At("heartbeat")
    /\ ExchangeFails(coordinator_)
    /\ Goto("Initial", "REFRESH_METADATA")
    /\ UNCHANGED <<process_, coordinator_, all_partitions_, owned,
                   partition_offset_, session>>

(* refresh: more than ten seconds since the last refresh. *)
Heartbeat(error, refresh) ==
    /\ At("heartbeat")
    /\ Answers(coordinator_)
    /\ IF error \in FencedErrors
       THEN Goto("JoinGroup", "JOIN_WITH_PREVIOUS_CONSUMER_ID")
       ELSE IF refresh
       THEN Goto("Initial", "REFRESH_METADATA")
       ELSE Goto("PartOfGroup", "FETCH")
    /\ UNCHANGED <<process_, cluster, owned, partition_offset_, session>>

-----------------------------------------------------------------------------
(* Start *)

(* After the process ended nothing happens. *)
Terminated == process_ # "running" /\ UNCHANGED vars

InitialNext ==
    \/ FetchMetadataGivesUp
    \/ \E b \in alive_brokers_ : FetchMetadataFails(b)
    \/ \E b \in alive_brokers_, r \in MetadataReplies : InitialStartup(b, r)
    \/ \E b \in alive_brokers_, r \in MetadataReplies, id \in Brokers :
            InitialRefresh(b, r, id)

DiscoverNext ==
    \E b \in alive_brokers_ :
        \/ DiscoverCoordinatorFails(b)
        \/ \E id \in Brokers \cup {Absent} : DiscoverCoordinator(b, id)

JoinNext ==
    \/ JoinGroupFails
    \/ \E r \in JoinReplies, partitionRank \in PartitionRanks : JoinGroup(r, partitionRank)

SyncNext ==
    \/ SyncGroupSendFails
    \/ SyncGroupReceiveFails
    \/ \E assigned \in SyncReplies : SyncGroup(assigned)

ResolveNext ==
    \/ OffsetFetchFails
    \/ OffsetFetchError
    \/ \E offsets \in OffsetReplies : OffsetFetch(offsets)
    \/ \E p \in unresolved_ :
        \/ ResolveThrows(p)
        \/ ResolveFails(p)
        \/ \E offset \in Offsets \cup {UnknownOffset} : ResolveOffset(p, offset)
    \/ CommitResetFails
    \/ \E error \in ResponseErrors \cup {0} : CommitReset(error)

FetchNext ==
    \/ \E b \in unfetched_ :
        \/ FetchThrows(b)
        \/ FetchFails(b)
        \/ FetchUnusable(b)
        \/ FetchSent(b) /\ \E last \in FetchReplies(b) : Fetch(b, last)
    \/ CommitFetchFails
    \/ \E error \in ResponseErrors \cup {0} : CommitFetch(error)

HeartbeatNext ==
    \/ HeartbeatFails
    \/ \E error \in ResponseErrors \cup {0}, refresh \in BOOLEAN : Heartbeat(error, refresh)

Next ==
    \/ InitialNext \/ DiscoverNext \/ JoinNext \/ SyncNext
    \/ ResolveNext \/ FetchNext \/ HeartbeatNext
    \/ Terminated

Spec == Init /\ [][Next]_vars

-----------------------------------------------------------------------------
(* Invariants *)

TypeOK ==
    /\ current_state_ \in States
    /\ event_ \in Events
    /\ process_ \in {"running", "out_of_range", "bad_response"}
    /\ step_ \in Steps
    /\ unresolved_ \in SUBSET Partitions
    /\ unfetched_ \in SUBSET Brokers
    /\ committing_ \in [Partitions -> Offsets \cup {UnknownOffset, Absent}]
    /\ error_code_ \in {0, 1, -1} \cup ResponseErrors
    /\ alive_brokers_ \in SUBSET (Bootstrap \cup Brokers)
    /\ coordinator_ \in Brokers \cup {NULL}
    /\ all_partitions_ \in [Partitions -> Brokers \cup {Absent}]
    /\ my_partitions_id_ \in SUBSET Partitions
    /\ broker_owned_partition_ \in [Brokers -> SUBSET Partitions]
    /\ partition_offset_ \in [Partitions -> Offsets \cup {UnknownOffset, Absent}]
    /\ generation_id_ \in Generations \cup {NoGeneration}
    /\ member_id_ \in MemberIds \cup {NoMember}
    /\ amIGroupLeader_ \in BOOLEAN
    /\ DOMAIN member_partitions_ \subseteq MemberIds
    /\ member_partitions_ \in [DOMAIN member_partitions_ -> SUBSET Partitions]

(* Every handler is only ever called with an event it has a case for: the  *)
(* switches of Initial, JoinGroup and PartOfGroup would do nothing with    *)
(* any other (JoinGroup would move on to SyncGroup without having joined), *)
(* and Start would call them with it for ever.                             *)
EventHandled ==
    event_ \in CASE current_state_ = "Initial" -> {"STARTUP", "REFRESH_METADATA"}
                 [] current_state_ = "DiscoverCoordinator" -> {"DISCOVER_COORDINATOR"}
                 [] current_state_ = "JoinGroup" -> {"JOIN_WITH_EMPTY_CONSUMER_ID",
                                                     "JOIN_WITH_PREVIOUS_CONSUMER_ID"}
                 [] current_state_ = "SyncGroup" -> {"SYNC_GROUP"}
                 [] current_state_ = "PartOfGroup" -> {"FETCH"}

(* No handler dereferences a pointer or an iterator that was never valid:  *)
(* DiscoverCoordinator takes alive_brokers_.begin() unchecked, and         *)
(* REFRESH_METADATA and the group's handlers take coordinator_ unchecked.  *)
PointersUsable ==
    process_ = "running" =>
        /\ current_state_ = "DiscoverCoordinator" => alive_brokers_ # {}
        /\ (current_state_ \in {"JoinGroup", "SyncGroup", "PartOfGroup"}
              \/ event_ = "REFRESH_METADATA") => coordinator_ # NULL

(* While the client fetches, every partition it was assigned is fetched    *)
(* from exactly one broker, the leader the current metadata names: the map *)
(* SyncGroup built still agrees with the assignment and with the metadata  *)
(* that was read before it, although three handlers change the three.      *)
OwnershipIndexed ==
    In("PartOfGroup") =>
        /\ broker_owned_partition_ = ByLeader(my_partitions_id_)
        /\ \A p \in my_partitions_id_ :
              \E b \in Brokers : p \in broker_owned_partition_[b]

(* FetchMessage commits offsets of assigned partitions only, of which it   *)
(* knew the position, and each past the position it fetched from: what it  *)
(* commits never takes the group back over messages it has printed.        *)
CommitsAdvance ==
    At("commit_fetch") =>
        \A p \in Entries(committing_) :
            /\ p \in my_partitions_id_
            /\ partition_offset_[p] \in Offsets
            /\ committing_[p] > partition_offset_[p]

(* A round of PartOfGroup begins with a coordinator that has a connection. *)
(* Nothing is said of the rest of the round: FetchValidOffset and          *)
(* FetchMessage erase leaders, the coordinator may be one of them, and it  *)
(* is not always noticed (JoinsConnected).                                 *)
RoundStartsConnected ==
    At("enter") => coordinator_ \in alive_brokers_

-----------------------------------------------------------------------------
(* Action properties *)

(* The two states the client has no way out of: no broker is left in       *)
(* alive_brokers_ (FetchMetadata has nobody to ask, and only a metadata    *)
(* response makes connections), or SyncGroup's coordinator has been erased *)
(* (its send fails, and the handler returns without a new state).          *)
NoBrokerLeft == In("Initial") /\ alive_brokers_ = {}
LostCoordinator == In("SyncGroup") /\ coordinator_ \notin alive_brokers_
Trapped == NoBrokerLeft \/ LostCoordinator

(* Once trapped, the client stays trapped: Start spins. *)
TrapsAreFinal == [][Trapped => Trapped']_vars

(* JoinGroup is called with a coordinator that has a connection, whichever *)
(* handler hands over to it, except in one way: a reset commit of          *)
(* FetchValidOffset was refused with a fencing error, the offset exchange  *)
(* of a later entry erased that entry's leader, the leader is the          *)
(* coordinator, and the remembered error sends the client to JoinGroup.    *)
(* The join then fails, and SyncGroup is a trap.                           *)
JoinsConnected ==
    [][(current_state_ # "JoinGroup" /\ current_state_' = "JoinGroup") =>
          \/ coordinator_' \in alive_brokers_'
          \/ /\ At("resolve") /\ error_code_ \in FencedErrors
             /\ \E p \in Partitions : all_partitions_[p] = coordinator_]_vars

(* What is left of a round: the loop it is in (or the heartbeat), the      *)
(* entries and brokers still to visit, and the commit of the last one.     *)
Loop(step) ==
    IF step \in {"resolve", "commit_reset"} THEN 2
    ELSE IF step \in {"fetch", "commit_fetch"} THEN 1 ELSE 0

Shrinks ==
    \/ Loop(step_') < Loop(step_)
    \/ /\ Loop(step_') = Loop(step_)
       /\ unresolved_' \subseteq unresolved_
       /\ unfetched_' \subseteq unfetched_
       /\ \/ unresolved_' # unresolved_ \/ unfetched_' # unfetched_
          \/ step_ \in {"commit_reset", "commit_fetch"} /\ step_' \in {"resolve", "fetch"}

(* Every exchange inside a round ends the round or leaves less of it,      *)
(* whatever is answered and whatever fails: a round is no longer than its  *)
(* entries and brokers, and a heartbeat is sent after each that completes. *)
RoundsShrink ==
    [][(process_' = "running" /\ step_ # "enter" /\ step_' # "enter") => Shrinks]_vars

-----------------------------------------------------------------------------
(* Refinement *)

BrokerSet == INSTANCE BrokerSet WITH ready <- TRUE, alive <- alive_brokers_

(* Whatever handler runs, alive_brokers_ changes only as BrokerSet says:   *)
(* no handler adds a broker by itself, mixes the brokers of the list with  *)
(* those of the cluster, or fills the map again once it is empty.          *)
BrokersAsPromised == BrokerSet!Spec

-----------------------------------------------------------------------------
(* Liveness *)

(* Start calls the handlers without a pause, so a step is always taken. *)
LiveSpec == Spec /\ WF_vars(Next)

(* The cluster cooperates: an exchange that is tried again and again is    *)
(* answered with success some day.  This is an assumption about brokers,   *)
(* not about the client; it leaves out a coordinator that has forgotten    *)
(* the member id and refuses it for ever.                                  *)
Leaves(state) == current_state_' # state

Cooperation ==
    /\ SF_vars(\E b \in alive_brokers_, r \in MetadataReplies :
                  InitialStartup(b, r) /\ Leaves("Initial"))
    /\ SF_vars(\E b \in alive_brokers_, r \in MetadataReplies, id \in Brokers :
                  InitialRefresh(b, r, id) /\ Leaves("Initial"))
    /\ SF_vars(\E b \in alive_brokers_, id \in Brokers :
                  DiscoverCoordinator(b, id) /\ Leaves("DiscoverCoordinator"))
    /\ SF_vars(\E r \in JoinReplies, partitionRank \in PartitionRanks :
                  JoinGroup(r, partitionRank) /\ r.generation \in Generations)
    /\ SF_vars(\E assigned \in SyncReplies :
                  SyncGroup(assigned) /\ Leaves("SyncGroup"))

RecoverySpec == LiveSpec /\ Cooperation

(* Unless it ends or is trapped, the client comes back into the group: the *)
(* state machine has no other cycle that keeps it out.                     *)
Recovers == []<>(current_state_ = "PartOfGroup" \/ process_ # "running" \/ Trapped)
=============================================================================
