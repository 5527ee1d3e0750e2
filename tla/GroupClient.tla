----------------------------- MODULE GroupClient -----------------------------
(***************************************************************************)
(* The client of module Network as one member of a group: the answers that *)
(* Network takes as parameters come from the coordinator of module         *)
(* GroupCoordinator and from a log.                                        *)
(*                                                                         *)
(* A JoinGroup or SyncGroup request that has arrived leaves the client     *)
(* where it is, blocked, until its answer is there.  An exchange may fail  *)
(* before or after the request had its effect.  One broker leads every     *)
(* partition and is the coordinator; its metadata is complete.             *)
(***************************************************************************)
EXTENDS Network

CONSTANTS self,        \* the name of this client
          Clients,
          Empty, None, \* see GroupCoordinator
          MaxFaults    \* bound on faults, of all clients together

VARIABLES phase, members, joined, generation, leader, assignment, waiting, answer,
          committed,   \* offsets of the group
          log,         \* by partition, the number of messages
          printed,     \* history: the messages somebody printed
          resetTo,     \* history: the newest offset a reset has taken for a partition
          disturbed,   \* history: partitions whose committed offset is one that a reset
                       \* of a client that does not own them has put there
          faults       \* faults so far

Group == INSTANCE GroupCoordinator

groupState == <<phase, members, joined, generation, leader, assignment>>
groupVars == <<groupState, waiting, answer>>
logVars   == <<committed, printed, resetTo, disturbed>>

broker == CHOOSE b \in Brokers : TRUE

(* A fault, unless the exchange was bound to fail: nothing can be sent to  *)
(* a broker that has been erased.                                          *)
Fault(b) ==
    IF b \in alive_brokers_
    THEN faults < MaxFaults /\ faults' = faults + 1
    ELSE UNCHANGED faults

-----------------------------------------------------------------------------
(* Initial, DiscoverCoordinator *)

Metadata == [brokers |-> Brokers, topicError |-> FALSE, leader |-> [p \in Partitions |-> broker]]

Connect ==
    \/ \E b \in alive_brokers_ :
        /\ \/ InitialStartup(b, Metadata)
           \/ InitialRefresh(b, Metadata, broker)
           \/ DiscoverCoordinator(b, broker)
        /\ UNCHANGED <<groupVars, logVars, log, faults>>
    \/ \E b \in alive_brokers_ :
        /\ FetchMetadataFails(b) \/ DiscoverCoordinatorFails(b)
        /\ Fault(b)
        /\ UNCHANGED <<groupVars, logVars, log>>

-----------------------------------------------------------------------------
(* JoinGroup and SyncGroup *)

JoinSent(freeIds) ==
    /\ In("JoinGroup") /\ Answers(coordinator_)
    /\ waiting[self] = Group!NoCall
    /\ \E newId \in (IF RequestedMember = NoMember THEN freeIds ELSE {NoMember}) :
            Group!JoinArrives(self, RequestedMember, newId)
    /\ UNCHANGED <<vars, logVars, log, faults>>

AnyRank(S) == CHOOSE rank \in Bijection(S, 1 .. Cardinality(S)) : TRUE

Joined ==
    /\ waiting[self].call = "join" /\ answer[self] # None
    /\ \E memberRank \in Bijection(answer[self].members, 1 .. Cardinality(answer[self].members)) :
            JoinGroup([generation |-> answer[self].generation, member |-> answer[self].member,
                       memberRank |-> memberRank], AnyRank(Partitions))
    /\ Group!Hangup(self)
    /\ UNCHANGED <<groupState, logVars, log, faults>>

JoinLost ==
    /\ JoinGroupFails
    /\ Fault(coordinator_)
    /\ Group!Hangup(self)
    /\ UNCHANGED <<groupState, logVars, log>>

SyncSent ==
    /\ In("SyncGroup") /\ Answers(coordinator_)
    /\ waiting[self] = Group!NoCall
    /\ Group!SyncArrives(self, member_id_, generation_id_,
            IF amIGroupLeader_ THEN member_partitions_ ELSE [m \in {} |-> {}])
    /\ UNCHANGED <<vars, logVars, log, faults>>

(* An error makes the constructor of the response throw, and Receive       *)
(* returns -1: the broker is kept.                                         *)
Synced ==
    /\ waiting[self].call = "sync" /\ answer[self] # None
    /\ \/ answer[self].error = 0 /\ SyncGroup(answer[self].assigned)
       \/ answer[self].error # 0 /\ SyncGroupReceiveFails /\ UNCHANGED alive_brokers_
    /\ Group!Hangup(self)
    /\ UNCHANGED <<groupState, logVars, log, faults>>

SyncLost ==
    /\ coordinator_ \in alive_brokers_
    /\ SyncGroupSendFails \/ SyncGroupReceiveFails
    /\ Fault(coordinator_)
    /\ Group!Hangup(self)
    /\ UNCHANGED <<groupState, logVars, log>>

-----------------------------------------------------------------------------
(* PartOfGroup *)

Positions ==
    IF my_partitions_id_ = {}
    THEN [p \in {q \in Partitions : committed[q] # UnknownOffset} |-> committed[p]]
    ELSE [p \in my_partitions_id_ |-> committed[p]]

AskOffsets ==
    \/ /\ OffsetFetch(Positions)
       /\ UNCHANGED <<groupVars, logVars, log, faults>>
    \/ /\ OffsetFetchFails \/ OffsetFetchError
       /\ Fault(coordinator_)
       /\ UNCHANGED <<groupVars, logVars, log>>

(* A reset takes the newest offset: the messages before it will not be     *)
(* printed for it.                                                         *)
Resolve(p) ==
    \/ /\ ResolveOffset(p, log[p])
       /\ resetTo' = [resetTo EXCEPT ![p] = log[p]]
       /\ UNCHANGED <<groupVars, committed, printed, disturbed, log, faults>>
    \/ /\ ResolveThrows(p)
       /\ UNCHANGED <<groupVars, logVars, log, faults>>
    \/ /\ ResolveFails(p) \/ ResolveOffset(p, UnknownOffset)
       /\ Fault(all_partitions_[p])
       /\ UNCHANGED <<groupVars, logVars, log>>

(* The coordinator stores the offsets being committed. *)
Stores ==
    committed' = [p \in Partitions |->
        IF committing_[p] # Absent THEN committing_[p] ELSE committed[p]]

CommitError == Group!CommitError(member_id_, generation_id_)

StoresReset ==
    /\ Stores
    /\ disturbed' = (disturbed \ Entries(committing_))
                     \cup (Entries(committing_) \ my_partitions_id_)

StoresFetched ==
    /\ Stores
    /\ disturbed' = disturbed \ Entries(committing_)

Reset ==
    \/ /\ CommitReset(CommitError)
       /\ IF CommitError = 0 THEN StoresReset ELSE UNCHANGED <<committed, disturbed>>
       /\ UNCHANGED <<groupVars, printed, resetTo, log, faults>>
    \/ /\ CommitResetFails
       /\ Fault(coordinator_)
       /\ \/ CommitError = 0 /\ Answers(coordinator_) /\ StoresReset
          \/ UNCHANGED <<committed, disturbed>>
       /\ UNCHANGED <<groupVars, printed, resetTo, log>>

(* Last offsets in what the broker sends of its log. *)
Messages(b) ==
    {last \in FetchReplies(b) :
        \A p \in Requested(b) :
            IF partition_offset_[p] < log[p] THEN last[p] \in Offsets /\ last[p] < log[p]
                                             ELSE last[p] = Absent}

FetchPrints(b) ==
    \/ /\ FetchSent(b)
       /\ \E last \in Messages(b) :
            /\ Fetch(b, last)
            /\ printed' = printed \cup
                 {m \in Requested(b) \X Offsets :
                     last[m[1]] # Absent /\ m[2] \in partition_offset_[m[1]] .. last[m[1]]}
       /\ UNCHANGED <<groupVars, committed, resetTo, disturbed, log, faults>>
    \/ /\ FetchThrows(b) \/ (Requested(b) = {} /\ FetchUnusable(b))
       /\ UNCHANGED <<groupVars, logVars, log, faults>>
    \/ /\ FetchFails(b)
       /\ Fault(b)
       /\ UNCHANGED <<groupVars, logVars, log>>

Commit ==
    \/ /\ CommitFetch(CommitError)
       /\ IF CommitError = 0 THEN StoresFetched ELSE UNCHANGED <<committed, disturbed>>
       /\ UNCHANGED <<groupVars, printed, resetTo, log, faults>>
    \/ /\ CommitFetchFails
       /\ Fault(coordinator_)
       /\ \/ CommitError = 0 /\ Answers(coordinator_) /\ StoresFetched
          \/ UNCHANGED <<committed, disturbed>>
       /\ UNCHANGED <<groupVars, printed, resetTo, log>>

Beat(refresh) ==
    \/ /\ Heartbeat(Group!HeartbeatError(member_id_, generation_id_), refresh)
       /\ UNCHANGED <<groupVars, logVars, log, faults>>
    \/ /\ HeartbeatFails
       /\ Fault(coordinator_)
       /\ UNCHANGED <<groupVars, logVars, log>>

-----------------------------------------------------------------------------
ClientInit == Init /\ alive_brokers_ = Bootstrap /\ generation_id_ = NoGeneration

ClientNext(freeIds) ==
    \/ Connect
    \/ JoinSent(freeIds) \/ Joined \/ JoinLost
    \/ SyncSent \/ Synced \/ SyncLost
    \/ AskOffsets
    \/ \E p \in unresolved_ : Resolve(p)
    \/ Reset
    \/ \E b \in unfetched_ : FetchPrints(b)
    \/ Commit
    \/ \E refresh \in BOOLEAN : Beat(refresh)

(* The client will not speak to the coordinator again: it has ended, or is *)
(* in one of the two traps.                                                *)
Gone == process_ # "running" \/ Trapped

(* A client that fetches and whose heartbeat the coordinator would accept. *)
Active == In("PartOfGroup") /\ member_id_ \in members /\ generation_id_ = generation

(* The client asks with an id the coordinator has expelled, and no answer  *)
(* that lets it in is on its way.                                          *)
Expelled ==
    /\ member_id_ \notin members \cup {NoMember}
    /\ \/ In("Initial") /\ event_ = "REFRESH_METADATA"
       \/ In("JoinGroup") /\ event_ = "JOIN_WITH_PREVIOUS_CONSUMER_ID"
       \/ In("SyncGroup") /\ (answer[self] = None \/ answer[self].error # 0)
=============================================================================
