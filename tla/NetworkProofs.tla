---------------------------- MODULE NetworkProofs ----------------------------
(***************************************************************************)
(* Theorems of Network, for every value of its constants.                  *)
(*                                                                         *)
(* The type invariant is inductive.  The safety invariants are not, one by *)
(* one: an event matches its state only because of the states the event    *)
(* was set in, a pointer is usable because of the event, ownership is      *)
(* indexed because of the step, and a commit advances because ownership is *)
(* indexed.  Together (Inv) they are inductive.                            *)
(***************************************************************************)
EXTENDS Network, TLAPS

Codes == {0, 1, -1} \cup ResponseErrors

ControlOK ==
    /\ current_state_ \in States
    /\ event_ \in Events
    /\ step_ \in Steps
    /\ unresolved_ \in SUBSET Partitions
    /\ unfetched_ \in SUBSET Brokers
    /\ committing_ \in [Partitions -> Offsets \cup {UnknownOffset, Absent}]
    /\ error_code_ \in Codes

DataOK ==
    /\ process_ \in {"running", "out_of_range", "bad_response"}
    /\ alive_brokers_ \in SUBSET (Bootstrap \cup Brokers)
    /\ coordinator_ \in Brokers \cup {NULL}
    /\ all_partitions_ \in [Partitions -> Brokers \cup {Absent}]
    /\ my_partitions_id_ \in SUBSET Partitions
    /\ broker_owned_partition_ \in [Brokers -> SUBSET Partitions]
    /\ partition_offset_ \in [Partitions -> Offsets \cup {UnknownOffset, Absent}]
    /\ generation_id_ \in Generations \cup {NoGeneration}
    /\ member_id_ \in MemberIds \cup {NoMember}
    /\ amIGroupLeader_ \in BOOLEAN
    /\ DOMAIN member_partitions_ \subseteq MemberIds
    /\ member_partitions_ \in [DOMAIN member_partitions_ -> SUBSET Partitions]

LEMMA TypeSplit == TypeOK <=> ControlOK /\ DataOK
BY DEF TypeOK, ControlOK, DataOK, Codes

-----------------------------------------------------------------------------
(* What the parts of actions do to the control variables. *)

LEMMA GotoOK ==
    ASSUME NEW state \in States, NEW event \in Events, Goto(state, event)
    PROVE  ControlOK'
BY DEF Goto, ControlOK, Steps, NoCommit, Codes

LEMMA ToFetchOK ==
    ASSUME ControlOK, NEW to \in SUBSET Brokers, NEW error \in Codes, ToFetch(to, error)
    PROVE  ControlOK'
BY DEF ToFetch, ControlOK, Steps, NoCommit

LEMMA LeadersOK == ASSUME NEW ownership PROVE Leaders(ownership) \in SUBSET Brokers
BY DEF Leaders

LEMMA ToResolveOK ==
    ASSUME ControlOK, NEW to \in SUBSET Partitions, NEW error \in Codes, ToResolve(to, error)
    PROVE  ControlOK'
<1>1. CASE to # {} /\ step_' = "resolve"
  BY <1>1 DEF ToResolve, ControlOK, Goto, ToFetch, Steps, States, Events, NoCommit
<1>2. CASE Goto("JoinGroup", "JOIN_WITH_PREVIOUS_CONSUMER_ID")
  BY <1>2, GotoOK DEF States, Events
<1>3. CASE Goto("Initial", "REFRESH_METADATA")
  BY <1>3, GotoOK DEF States, Events
<1>4. CASE ToFetch(Leaders(broker_owned_partition_), error)
  BY <1>4, ToFetchOK, LeadersOK
<1>5. QED
  BY <1>1, <1>2, <1>3, <1>4 DEF ToResolve

(* The map as it may be: an entry for some of the members. *)
Assignment(map) ==
    /\ DOMAIN map \subseteq MemberIds
    /\ map \in [DOMAIN map -> SUBSET Partitions]

LEMMA PartitionAssignmentOK ==
    ASSUME NEW old, Assignment(old),
           NEW memberRank, DOMAIN memberRank \subseteq MemberIds,
           NEW partitionRank, DOMAIN partitionRank \subseteq Partitions
    PROVE  Assignment(PartitionAssignment(old, memberRank, partitionRank))
BY DEF PartitionAssignment, Assignment

LEMMA MembersListed ==
    ASSUME NEW r \in JoinReplies
    PROVE  DOMAIN r.memberRank \subseteq MemberIds
<1>1. CASE r.memberRank = <<>>
  BY <1>1
<1>2. CASE \E S \in SUBSET MemberIds : r.memberRank \in Bijection(S, 1 .. Cardinality(S))
  BY <1>2 DEF Bijection, Injection
<1>3. r.memberRank = <<>> \/ \E S \in SUBSET MemberIds : r.memberRank \in Bijection(S, 1 .. Cardinality(S))
  BY DEF JoinReplies
<1>4. QED
  BY <1>1, <1>2, <1>3

-----------------------------------------------------------------------------
(* Type correctness *)

(* An exchange that fails touches no data but alive_brokers_. *)
LEMMA FailureOK ==
    ASSUME DataOK, NEW b, ExchangeFails(b),
           UNCHANGED <<process_, coordinator_, all_partitions_, owned, partition_offset_, session>>
    PROVE  DataOK'
BY DEF ExchangeFails, SendFails, ReceiveFails, DataOK, owned, session

(* Data that no conjunct of the action changes. *)
LEMMA DataKept ==
    ASSUME DataOK, process_' \in {"running", "out_of_range", "bad_response"},
           UNCHANGED <<cluster, owned, partition_offset_, session>>
    PROVE  DataOK'
BY DEF DataOK, cluster, owned, session

LEMMA ControlKept == ASSUME ControlOK, UNCHANGED control PROVE ControlOK'
BY DEF ControlOK, control, loop

LEMMA InitialType == ASSUME ControlOK, DataOK, InitialNext PROVE ControlOK' /\ DataOK'
<1> USE DEF States, Events
<1>1. CASE FetchMetadataGivesUp
  BY <1>1 DEF FetchMetadataGivesUp, vars, control, loop, cluster, owned, session, ControlOK, DataOK
<1>2. ASSUME NEW b \in alive_brokers_, FetchMetadataFails(b) PROVE ControlOK' /\ DataOK'
  BY <1>2, FailureOK, ControlKept DEF FetchMetadataFails
<1>3. ASSUME NEW b \in alive_brokers_, NEW r \in MetadataReplies, InitialStartup(b, r)
      PROVE  ControlOK' /\ DataOK'
  <2>1. ControlOK'
    BY <1>3, GotoOK, ControlKept DEF InitialStartup
  <2>2. DataOK'
    BY <1>3 DEF InitialStartup, ParseMetadata, MetadataReplies, DataOK, owned, session
  <2>3. QED
    BY <2>1, <2>2
<1>4. ASSUME NEW b \in alive_brokers_, NEW r \in MetadataReplies, NEW id \in Brokers,
             InitialRefresh(b, r, id)
      PROVE  ControlOK' /\ DataOK'
  <2>1. ControlOK'
    BY <1>4, GotoOK, ControlKept DEF InitialRefresh
  <2>2. DataOK'
    BY <1>4 DEF InitialRefresh, ParseMetadata, MetadataReplies, DataOK, cluster, owned, session
  <2>3. QED
    BY <2>1, <2>2
<1>5. QED
  BY <1>1, <1>2, <1>3, <1>4 DEF InitialNext

LEMMA DiscoverType == ASSUME ControlOK, DataOK, DiscoverNext PROVE ControlOK' /\ DataOK'
<1> USE DEF States, Events
<1>1. ASSUME NEW b \in alive_brokers_, DiscoverCoordinatorFails(b) PROVE ControlOK' /\ DataOK'
  BY <1>1, FailureOK, GotoOK DEF DiscoverCoordinatorFails
<1>2. ASSUME NEW b \in alive_brokers_, NEW id \in Brokers \cup {Absent}, DiscoverCoordinator(b, id)
      PROVE  ControlOK' /\ DataOK'
  <2>1. ControlOK'
    BY <1>2, GotoOK, ControlKept DEF DiscoverCoordinator, Terminate
  <2>2. DataOK'
    BY <1>2, IdsAssumption DEF DiscoverCoordinator, Terminate, DataOK, owned, session
  <2>3. QED
    BY <2>1, <2>2
<1>3. QED
  BY <1>1, <1>2 DEF DiscoverNext

LEMMA JoinType == ASSUME ControlOK, DataOK, JoinNext PROVE ControlOK' /\ DataOK'
<1> USE DEF States, Events
<1>1. CASE JoinGroupFails
  BY <1>1, FailureOK, GotoOK DEF JoinGroupFails
<1>2. ASSUME NEW r \in JoinReplies, NEW partitionRank \in PartitionRanks, JoinGroup(r, partitionRank)
      PROVE  ControlOK' /\ DataOK'
  <2>1. DOMAIN partitionRank \subseteq Partitions
    BY DEF PartitionRanks, Bijection, Injection, Entries
  <2>2. /\ r.generation \in Generations \cup {NoGeneration}
        /\ r.member \in MemberIds \cup {NoMember}
    BY DEF JoinReplies, RequestedMember, DataOK
  <2>3. Assignment(member_partitions_)'
    BY <1>2, <2>1, MembersListed, PartitionAssignmentOK DEF JoinGroup, DataOK, Assignment
  <2>4. DataOK'
    BY <1>2, <2>2, <2>3 DEF JoinGroup, DataOK, Assignment, cluster, owned
  <2>5. QED
    BY <1>2, <2>4, GotoOK DEF JoinGroup
<1>3. QED
  BY <1>1, <1>2 DEF JoinNext

LEMMA SyncType == ASSUME ControlOK, DataOK, SyncNext PROVE ControlOK' /\ DataOK'
<1> USE DEF States, Events
<1>1. CASE SyncGroupSendFails
  BY <1>1, FailureOK, ControlKept DEF SyncGroupSendFails, ExchangeFails
<1>2. CASE SyncGroupReceiveFails
  BY <1>2, FailureOK, GotoOK DEF SyncGroupReceiveFails, ExchangeFails
<1>3. ASSUME NEW assigned \in SyncReplies, SyncGroup(assigned) PROVE ControlOK' /\ DataOK'
  <2>1. ControlOK'
    BY <1>3, GotoOK, ControlKept DEF SyncGroup, Terminate
  <2>2. DataOK'
    BY <1>3 DEF SyncGroup, SyncReplies, ByLeader, Terminate, DataOK, cluster, session
  <2>3. QED
    BY <2>1, <2>2
<1>4. QED
  BY <1>1, <1>2, <1>3 DEF SyncNext

LEMMA ResolveType == ASSUME ControlOK, DataOK, ResolveNext PROVE ControlOK' /\ DataOK'
<1> USE DEF States, Events
<1>1. CASE OffsetFetchFails
  BY <1>1, FailureOK, GotoOK DEF OffsetFetchFails
<1>2. CASE OffsetFetchError
  BY <1>2, DataKept, ToFetchOK, LeadersOK DEF OffsetFetchError, Codes, DataOK
<1>3. ASSUME NEW offsets \in OffsetReplies, OffsetFetch(offsets) PROVE ControlOK' /\ DataOK'
  <2> DEFINE updated == [p \in Partitions |->
                IF p \in DOMAIN offsets THEN offsets[p] ELSE partition_offset_[p]]
  <2>1. Unknown(updated) \in SUBSET Partitions
    BY DEF Unknown
  <2>2. ControlOK'
    BY <1>3, <2>1, ToResolveOK, ControlKept DEF OffsetFetch, Terminate, Codes
  <2>3. \A p \in DOMAIN offsets : offsets[p] \in Offsets \cup {UnknownOffset}
    BY DEF OffsetReplies
  <2>4. updated \in [Partitions -> Offsets \cup {UnknownOffset, Absent}]
    BY <2>3 DEF DataOK
  <2>5. DataOK'
    BY <1>3, <2>4 DEF OffsetFetch, Terminate, DataOK, cluster, owned, session
  <2>6. QED
    BY <2>2, <2>5
<1>4. ASSUME NEW p \in unresolved_, ResolveThrows(p) PROVE ControlOK' /\ DataOK'
  BY <1>4, DataKept, ControlKept DEF ResolveThrows, Terminate
<1>5. ASSUME NEW p \in unresolved_, ResolveFails(p) PROVE ControlOK' /\ DataOK'
  BY <1>5, FailureOK, ToResolveOK DEF ResolveFails, ControlOK
<1>6. ASSUME NEW p \in unresolved_, NEW offset \in Offsets \cup {UnknownOffset}, ResolveOffset(p, offset)
      PROVE  ControlOK' /\ DataOK'
  BY <1>6 DEF ResolveOffset, ControlOK, DataOK, Steps, NoCommit, cluster, owned, session
<1>7. CASE CommitResetFails
  <2>1. unresolved_ \in SUBSET Partitions /\ -1 \in Codes
    BY DEF ControlOK, Codes
  <2>2. QED
    BY <1>7, <2>1, FailureOK, ToResolveOK DEF CommitResetFails
<1>8. ASSUME NEW error \in ResponseErrors \cup {0}, CommitReset(error) PROVE ControlOK' /\ DataOK'
  <2>1. error \in Codes /\ unresolved_ \in SUBSET Partitions
    BY DEF Codes, ControlOK
  <2>2. ControlOK'
    BY <1>8, <2>1, GotoOK, ToResolveOK DEF CommitReset
  <2>3. QED
    BY <1>8, <2>2, DataKept DEF CommitReset, DataOK
<1>9. QED
  BY <1>1, <1>2, <1>3, <1>4, <1>5, <1>6, <1>7, <1>8 DEF ResolveNext

LEMMA FetchType == ASSUME ControlOK, DataOK, FetchNext PROVE ControlOK' /\ DataOK'
<1> USE DEF States, Events
<1>1. ASSUME NEW b \in unfetched_, FetchThrows(b) PROVE ControlOK' /\ DataOK'
  BY <1>1, DataKept, ControlKept DEF FetchThrows, Terminate
<1>2. ASSUME NEW b \in unfetched_, FetchFails(b) PROVE ControlOK' /\ DataOK'
  BY <1>2, FailureOK, GotoOK DEF FetchFails
<1>3. ASSUME NEW b \in unfetched_, FetchUnusable(b) PROVE ControlOK' /\ DataOK'
  BY <1>3, DataKept, ControlKept DEF FetchUnusable, Terminate
<1>4. ASSUME NEW b \in unfetched_, NEW last \in FetchReplies(b), Fetch(b, last)
      PROVE  ControlOK' /\ DataOK'
  <2> DEFINE got == {p \in Requested(b) : last[p] # Absent}
  <2>1. \A p \in got : last[p] + 1 \in Offsets
    BY OffsetAssumption DEF FetchReplies, Offsets
  <2>2. DataOK'
    BY <1>4, DataKept DEF Fetch, DataOK
  <2>3. CASE got = {}
    <3>1. ToFetch(unfetched_ \ {b}, error_code_)
      BY <1>4, <2>3 DEF Fetch
    <3>2. QED
      BY <2>2, <3>1, ToFetchOK DEF ControlOK
  <2>4. CASE got # {}
    <3>1. /\ committing_' = [p \in Partitions |-> IF p \in got THEN last[p] + 1 ELSE Absent]
          /\ unfetched_' = unfetched_ \ {b}
          /\ step_' = "commit_fetch"
          /\ UNCHANGED <<current_state_, event_, unresolved_, error_code_>>
      BY <1>4, <2>4 DEF Fetch
    <3>2. committing_' \in [Partitions -> Offsets \cup {UnknownOffset, Absent}]
      BY <3>1, <2>1
    <3>3. QED
      BY <2>2, <3>1, <3>2 DEF ControlOK, Steps
  <2>5. QED
    BY <2>3, <2>4
<1>5. CASE CommitFetchFails
  BY <1>5, FailureOK, GotoOK DEF CommitFetchFails
<1>6. ASSUME NEW error \in ResponseErrors \cup {0}, CommitFetch(error) PROVE ControlOK' /\ DataOK'
  <2>1. ControlOK'
    BY <1>6, GotoOK, ToFetchOK DEF CommitFetch, ControlOK
  <2>2. QED
    BY <1>6, <2>1, DataKept DEF CommitFetch, DataOK
<1>7. QED
  BY <1>1, <1>2, <1>3, <1>4, <1>5, <1>6 DEF FetchNext

LEMMA HeartbeatType == ASSUME ControlOK, DataOK, HeartbeatNext PROVE ControlOK' /\ DataOK'
<1> USE DEF States, Events
<1>1. CASE HeartbeatFails
  BY <1>1, FailureOK, GotoOK DEF HeartbeatFails
<1>2. ASSUME NEW error \in ResponseErrors \cup {0}, NEW refresh \in BOOLEAN, Heartbeat(error, refresh)
      PROVE  ControlOK' /\ DataOK'
  <2>1. ControlOK'
    BY <1>2, GotoOK DEF Heartbeat
  <2>2. QED
    BY <1>2, <2>1, DataKept DEF Heartbeat, DataOK
<1>3. QED
  BY <1>1, <1>2 DEF HeartbeatNext

LEMMA Stuttering == ASSUME ControlOK, DataOK, UNCHANGED vars PROVE ControlOK' /\ DataOK'
BY DEF vars, control, loop, cluster, owned, session, ControlOK, DataOK

LEMMA TypeStep == TypeOK /\ [Next]_vars => TypeOK'
<1> SUFFICES ASSUME ControlOK, DataOK, [Next]_vars PROVE ControlOK' /\ DataOK'
  BY TypeSplit DEF TypeOK, ControlOK, DataOK, Codes
<1>1. QED
  BY InitialType, DiscoverType, JoinType, SyncType, ResolveType, FetchType, HeartbeatType,
     Stuttering DEF Next, Terminated

(* Every variable keeps its type: in particular an offset stays within     *)
(* what the brokers can answer, the coordinator is a broker of the         *)
(* cluster, and the leader's assignment covers partitions of the topic.    *)
THEOREM TypeCorrect == Spec => []TypeOK
<1>1. Init => TypeOK
  BY OffsetAssumption DEF Init, TypeOK, States, Events, Steps, NoCommit
<1>2. QED
  BY <1>1, TypeStep, PTL DEF Spec

-----------------------------------------------------------------------------
(* Safety *)

Safety ==
    /\ EventHandled
    /\ PointersUsable
    /\ OwnershipIndexed
    /\ CommitsAdvance
    /\ RoundStartsConnected

Inv == TypeOK /\ Safety

(* The events a handler has a case for. *)
Handles(state, event) ==
    \/ state = "Initial" /\ event \in {"STARTUP", "REFRESH_METADATA"}
    \/ state = "DiscoverCoordinator" /\ event = "DISCOVER_COORDINATOR"
    \/ state = "JoinGroup" /\ event \in {"JOIN_WITH_EMPTY_CONSUMER_ID",
                                         "JOIN_WITH_PREVIOUS_CONSUMER_ID"}
    \/ state = "SyncGroup" /\ event = "SYNC_GROUP"
    \/ state = "PartOfGroup" /\ event = "FETCH"

LEMMA EventHandledDef ==
    ASSUME current_state_ \in States
    PROVE  EventHandled <=> Handles(current_state_, event_)
BY DEF EventHandled, Handles, States

LEMMA EventHandledDefNext ==
    ASSUME current_state_' \in States
    PROVE  EventHandled' <=> Handles(current_state_', event_')
BY DEF EventHandled, Handles, States

(* The four ways a step ends: the process is over, ... *)
LEMMA EndingSafe ==
    ASSUME TypeOK, Safety, NEW how \in {"out_of_range", "bad_response"}, Terminate(how)
    PROVE  Safety'
<1>1. EventHandled'
  BY EventHandledDef, EventHandledDefNext DEF Terminate, TypeOK, Safety, control
<1>2. QED
  BY <1>1 DEF Terminate, Safety, PointersUsable, OwnershipIndexed,
              CommitsAdvance, RoundStartsConnected, In, At

(* ... the next state is not PartOfGroup, ... *)
LEMMA LeavingSafe ==
    ASSUME NEW state \in States \ {"PartOfGroup"}, NEW event, Goto(state, event),
           Handles(state, event),
           state = "DiscoverCoordinator" => alive_brokers_' # {},
           (state \in {"JoinGroup", "SyncGroup"} \/ event = "REFRESH_METADATA")
                => coordinator_' # NULL
    PROVE  Safety'
<1>1. EventHandled'
  BY EventHandledDefNext DEF Goto
<1>2. PointersUsable'
  BY DEF PointersUsable, Goto
<1>3. current_state_' # "PartOfGroup"
  BY DEF Goto
<1>4. QED
  BY <1>1, <1>2, <1>3 DEF Safety, OwnershipIndexed, CommitsAdvance,
                          RoundStartsConnected, In, At

(* ... a handler outside PartOfGroup is called again, ... *)
LEMMA RetryingSafe ==
    ASSUME TypeOK, Safety, UNCHANGED <<control, process_>>,
           current_state_ \in {"Initial", "SyncGroup"},
           coordinator_ # NULL => coordinator_' # NULL
    PROVE  Safety'
<1>1. EventHandled'
  BY EventHandledDef, EventHandledDefNext DEF TypeOK, Safety, control
<1>2. PointersUsable'
  BY DEF Safety, PointersUsable, control
<1>3. current_state_' # "PartOfGroup"
  BY DEF control
<1>4. QED
  BY <1>1, <1>2, <1>3 DEF Safety, OwnershipIndexed, CommitsAdvance,
                          RoundStartsConnected, In, At

(* ... or the round goes on, with what it took up from SyncGroup. *)
LEMMA RoundSafe ==
    ASSUME TypeOK, Safety, In("PartOfGroup"),
           UNCHANGED <<current_state_, event_, process_, coordinator_, all_partitions_,
                       owned>>,
           step_' # "enter",
           CommitsAdvance'
    PROVE  Safety'
<1>1. EventHandled'
  BY EventHandledDef, EventHandledDefNext DEF TypeOK, Safety
<1>2. PointersUsable'
  BY DEF Safety, PointersUsable, In
<1>3. OwnershipIndexed'
  BY DEF Safety, OwnershipIndexed, ByLeader, In, owned
<1>4. RoundStartsConnected'
  BY DEF Safety, RoundStartsConnected, In, At
<1>5. QED
  BY <1>1, <1>2, <1>3, <1>4 DEF Safety

LEMMA NoCommitSafe == ASSUME step_' # "commit_fetch" PROVE CommitsAdvance'
BY DEF CommitsAdvance, At

LEMMA ToFetchSafe ==
    ASSUME TypeOK, Safety, In("PartOfGroup"), NEW to, NEW error, ToFetch(to, error),
           UNCHANGED <<process_, coordinator_, all_partitions_, owned>>
    PROVE  Safety'
BY RoundSafe, NoCommitSafe DEF ToFetch

LEMMA ToResolveSafe ==
    ASSUME TypeOK, Safety, In("PartOfGroup"), NEW to, NEW error, ToResolve(to, error),
           UNCHANGED <<process_, coordinator_, all_partitions_, owned>>
    PROVE  Safety'
<1>1. coordinator_' # NULL
  BY DEF Safety, PointersUsable, In
<1>2. CASE step_' = "resolve" /\ UNCHANGED <<current_state_, event_>>
  BY <1>2, RoundSafe, NoCommitSafe
<1>3. CASE Goto("JoinGroup", "JOIN_WITH_PREVIOUS_CONSUMER_ID")
  BY <1>1, <1>3, LeavingSafe DEF States, Handles
<1>4. CASE Goto("Initial", "REFRESH_METADATA")
  BY <1>1, <1>4, LeavingSafe DEF States, Handles
<1>5. CASE ToFetch(Leaders(broker_owned_partition_), error)
  BY <1>5, ToFetchSafe
<1>6. QED
  BY <1>2, <1>3, <1>4, <1>5 DEF ToResolve

LEMMA InitialSafe == ASSUME Inv, InitialNext PROVE Safety'
<1> USE DEF Inv, Handles, States
<1>1. CASE FetchMetadataGivesUp
  BY <1>1, RetryingSafe DEF FetchMetadataGivesUp, In, vars, cluster
<1>2. ASSUME NEW b \in alive_brokers_, FetchMetadataFails(b) PROVE Safety'
  BY <1>2, RetryingSafe DEF FetchMetadataFails, In
<1>3. ASSUME NEW b \in alive_brokers_, NEW r \in MetadataReplies, InitialStartup(b, r)
      PROVE  Safety'
  <2>1. CASE UNCHANGED control
    BY <1>3, <2>1, RetryingSafe DEF InitialStartup, In
  <2>2. CASE Goto("DiscoverCoordinator", "DISCOVER_COORDINATOR") /\ alive_brokers_' # {}
    BY <2>2, LeavingSafe
  <2>3. QED
    BY <1>3, <2>1, <2>2 DEF InitialStartup, ParseMetadata
<1>4. ASSUME NEW b \in alive_brokers_, NEW r \in MetadataReplies, NEW id \in Brokers,
             InitialRefresh(b, r, id)
      PROVE  Safety'
  <2>1. id # NULL
    BY IdsAssumption
  <2>2. CASE UNCHANGED control
    BY <1>4, <2>1, <2>2, RetryingSafe DEF InitialRefresh, In, cluster
  <2>3. CASE Goto("JoinGroup", "JOIN_WITH_PREVIOUS_CONSUMER_ID") /\ coordinator_' = id
    BY <2>1, <2>3, LeavingSafe
  <2>4. CASE Goto("DiscoverCoordinator", "DISCOVER_COORDINATOR") /\ alive_brokers_' # {}
    BY <2>4, LeavingSafe
  <2>5. QED
    BY <1>4, <2>2, <2>3, <2>4 DEF InitialRefresh
<1>5. QED
  BY <1>1, <1>2, <1>3, <1>4 DEF InitialNext

LEMMA DiscoverSafe == ASSUME Inv, DiscoverNext PROVE Safety'
<1> USE DEF Inv, Handles, States
<1>1. ASSUME NEW b \in alive_brokers_, DiscoverCoordinatorFails(b) PROVE Safety'
  BY <1>1, LeavingSafe DEF DiscoverCoordinatorFails
<1>2. ASSUME NEW b \in alive_brokers_, NEW id \in Brokers \cup {Absent}, DiscoverCoordinator(b, id)
      PROVE  Safety'
  <2>1. CASE Terminate("out_of_range")
    BY <2>1, EndingSafe
  <2>2. CASE /\ Goto("JoinGroup", "JOIN_WITH_EMPTY_CONSUMER_ID")
             /\ coordinator_' = id
             /\ id \in alive_brokers_
    <3>1. id # NULL
      BY <2>2, IdsAssumption DEF TypeOK
    <3>2. QED
      BY <2>2, <3>1, LeavingSafe
  <2>3. QED
    BY <1>2, <2>1, <2>2 DEF DiscoverCoordinator
<1>3. QED
  BY <1>1, <1>2 DEF DiscoverNext

LEMMA CoordinatorKnown ==
    ASSUME Safety, process_ = "running", current_state_ \in {"JoinGroup", "SyncGroup", "PartOfGroup"}
    PROVE  coordinator_ # NULL
BY DEF Safety, PointersUsable

LEMMA JoinSafe == ASSUME Inv, JoinNext PROVE Safety'
<1> USE DEF Inv, Handles, States
<1>1. CASE JoinGroupFails
  BY <1>1, CoordinatorKnown, LeavingSafe DEF JoinGroupFails, In
<1>2. ASSUME NEW r \in JoinReplies, NEW partitionRank \in PartitionRanks, JoinGroup(r, partitionRank)
      PROVE  Safety'
  BY <1>2, CoordinatorKnown, LeavingSafe DEF JoinGroup, In, cluster
<1>3. QED
  BY <1>1, <1>2 DEF JoinNext

(* The only step into PartOfGroup: here the facts a round relies on are    *)
(* established.                                                            *)
LEMMA SyncSafe == ASSUME Inv, SyncNext PROVE Safety'
<1> USE DEF Inv, Handles, States
<1>1. CASE SyncGroupSendFails
  BY <1>1, RetryingSafe DEF SyncGroupSendFails, In
<1>2. CASE SyncGroupReceiveFails
  BY <1>2, CoordinatorKnown, LeavingSafe DEF SyncGroupReceiveFails, In
<1>3. ASSUME NEW assigned \in SyncReplies, SyncGroup(assigned) PROVE Safety'
  <2>1. CASE Terminate("out_of_range")
    BY <2>1, EndingSafe
  <2>2. CASE /\ assigned \subseteq Entries(all_partitions_)
             /\ broker_owned_partition_' = ByLeader(assigned)
             /\ Goto("PartOfGroup", "FETCH")
             /\ UNCHANGED process_
    <3>1. EventHandled'
      BY <2>2, EventHandledDefNext DEF Goto
    <3>2. PointersUsable'
      BY <1>3, <2>2, CoordinatorKnown DEF PointersUsable, SyncGroup, Goto, In, cluster
    <3>3. \A p \in assigned : all_partitions_[p] \in Brokers
      BY <2>2 DEF Entries, TypeOK, SyncReplies
    <3>4. \A p \in assigned : p \in ByLeader(assigned)[all_partitions_[p]]
      BY <3>3 DEF ByLeader
    <3>5. OwnershipIndexed'
      BY <1>3, <2>2, <3>3, <3>4 DEF OwnershipIndexed, ByLeader, SyncGroup, cluster
    <3>6. CommitsAdvance'
      BY <2>2, NoCommitSafe DEF Goto
    <3>7. RoundStartsConnected'
      BY <1>3 DEF RoundStartsConnected, SyncGroup, Answers, cluster
    <3>8. QED
      BY <3>1, <3>2, <3>5, <3>6, <3>7 DEF Safety
  <2>3. QED
    BY <1>3, <2>1, <2>2 DEF SyncGroup
<1>4. QED
  BY <1>1, <1>2, <1>3 DEF SyncNext

LEMMA ResolveSafe == ASSUME Inv, ResolveNext PROVE Safety'
<1> USE DEF Inv, Handles, States
<1>1. CASE OffsetFetchFails
  BY <1>1, CoordinatorKnown, LeavingSafe DEF OffsetFetchFails, At, In
<1>2. CASE OffsetFetchError
  BY <1>2, ToFetchSafe DEF OffsetFetchError, At, cluster, session
<1>3. ASSUME NEW offsets \in OffsetReplies, OffsetFetch(offsets) PROVE Safety'
  <2>1. CASE Terminate("bad_response")
    BY <2>1, EndingSafe
  <2>2. CASE UNCHANGED process_
    BY <1>3, <2>1, <2>2, ToResolveSafe DEF OffsetFetch, At, cluster, session
  <2>3. QED
    BY <1>3, <2>1, <2>2 DEF OffsetFetch
<1>4. ASSUME NEW p \in unresolved_, ResolveThrows(p) PROVE Safety'
  BY <1>4, EndingSafe DEF ResolveThrows
<1>5. ASSUME NEW p \in unresolved_, ResolveFails(p) PROVE Safety'
  BY <1>5, ToResolveSafe DEF ResolveFails, At, session
<1>6. ASSUME NEW p \in unresolved_, NEW offset \in Offsets \cup {UnknownOffset}, ResolveOffset(p, offset)
      PROVE  Safety'
  BY <1>6, RoundSafe, NoCommitSafe DEF ResolveOffset, At, cluster, session
<1>7. CASE CommitResetFails
  BY <1>7, ToResolveSafe DEF CommitResetFails, At, session
<1>8. ASSUME NEW error \in ResponseErrors \cup {0}, CommitReset(error) PROVE Safety'
  <2>1. CASE Goto("Initial", "REFRESH_METADATA")
    BY <1>8, <2>1, CoordinatorKnown, LeavingSafe DEF CommitReset, At, In, cluster
  <2>2. CASE ToResolve(unresolved_, error)
    BY <1>8, <2>2, ToResolveSafe DEF CommitReset, At, cluster, session
  <2>3. QED
    BY <1>8, <2>1, <2>2 DEF CommitReset
<1>9. QED
  BY <1>1, <1>2, <1>3, <1>4, <1>5, <1>6, <1>7, <1>8 DEF ResolveNext

LEMMA FetchSafe == ASSUME Inv, FetchNext PROVE Safety'
<1> USE DEF Inv, Handles, States
<1>1. ASSUME NEW b \in unfetched_, FetchThrows(b) PROVE Safety'
  BY <1>1, EndingSafe DEF FetchThrows
<1>2. ASSUME NEW b \in unfetched_, FetchFails(b) PROVE Safety'
  BY <1>2, LeavingSafe DEF FetchFails
<1>3. ASSUME NEW b \in unfetched_, FetchUnusable(b) PROVE Safety'
  BY <1>3, EndingSafe DEF FetchUnusable
<1>4. ASSUME NEW b \in unfetched_, NEW last \in FetchReplies(b), Fetch(b, last)
      PROVE  Safety'
  <2> DEFINE got == {p \in Requested(b) : last[p] # Absent}
  <2>1. CASE ToFetch(unfetched_ \ {b}, error_code_)
    BY <1>4, <2>1, ToFetchSafe DEF Fetch, FetchSent, At, cluster, session
  <2>2. CASE /\ committing_' = [p \in Partitions |-> IF p \in got THEN last[p] + 1 ELSE Absent]
             /\ step_' = "commit_fetch"
             /\ UNCHANGED <<current_state_, event_>>
    <3>1. b \in Brokers /\ broker_owned_partition_[b] \in SUBSET my_partitions_id_
      BY <1>4 DEF Fetch, FetchSent, At, Safety, OwnershipIndexed, ByLeader, TypeOK
    <3>2. \A p \in got : /\ p \in my_partitions_id_
                         /\ partition_offset_[p] \in Offsets
                         /\ last[p] + 1 \in Nat
                         /\ last[p] + 1 > partition_offset_[p]
      <4> SUFFICES ASSUME NEW p \in got
                   PROVE  /\ p \in my_partitions_id_
                          /\ partition_offset_[p] \in Offsets
                          /\ last[p] + 1 \in Nat
                          /\ last[p] + 1 > partition_offset_[p]
        OBVIOUS
      <4>1. p \in broker_owned_partition_[b] /\ partition_offset_[p] # UnknownOffset
        BY DEF Requested
      <4>2. p \in my_partitions_id_ /\ p \in Partitions
        BY <3>1, <4>1 DEF TypeOK
      <4>3. partition_offset_[p] # Absent
        BY <1>4, <4>1 DEF Fetch, FetchSent
      <4>4. partition_offset_[p] \in Offsets
        BY <4>1, <4>2, <4>3 DEF TypeOK
      <4>5. last[p] \in 0 .. MaxOffset - 1 /\ last[p] >= partition_offset_[p]
        BY DEF FetchReplies
      <4>6. QED
        BY <4>2, <4>4, <4>5, OffsetAssumption DEF Offsets
    <3>3. \A p \in Entries(committing_)' : p \in got /\ committing_'[p] = last[p] + 1
      BY <2>2 DEF Entries
    <3>4. CommitsAdvance'
      BY <1>4, <3>2, <3>3 DEF CommitsAdvance, Fetch, owned
    <3>5. QED
      BY <1>4, <2>2, <3>4, RoundSafe DEF Fetch, FetchSent, At, cluster, session
  <2>3. QED
    BY <1>4, <2>1, <2>2 DEF Fetch
<1>5. CASE CommitFetchFails
  BY <1>5, LeavingSafe DEF CommitFetchFails
<1>6. ASSUME NEW error \in ResponseErrors \cup {0}, CommitFetch(error) PROVE Safety'
  <2>1. CASE Goto("Initial", "STARTUP")
    BY <2>1, LeavingSafe
  <2>2. CASE ToFetch(unfetched_, error_code_)
    BY <1>6, <2>2, ToFetchSafe DEF CommitFetch, At, cluster, session
  <2>3. QED
    BY <1>6, <2>1, <2>2 DEF CommitFetch
<1>7. QED
  BY <1>1, <1>2, <1>3, <1>4, <1>5, <1>6 DEF FetchNext

LEMMA HeartbeatSafe == ASSUME Inv, HeartbeatNext PROVE Safety'
<1> USE DEF Inv, Handles, States
<1>1. CASE HeartbeatFails
  BY <1>1, CoordinatorKnown, LeavingSafe DEF HeartbeatFails, At, In
<1>2. ASSUME NEW error \in ResponseErrors \cup {0}, NEW refresh \in BOOLEAN, Heartbeat(error, refresh)
      PROVE  Safety'
  <2>1. coordinator_' # NULL
    BY <1>2, CoordinatorKnown DEF Heartbeat, At, In, cluster
  <2>2. CASE Goto("JoinGroup", "JOIN_WITH_PREVIOUS_CONSUMER_ID")
    BY <2>1, <2>2, LeavingSafe
  <2>3. CASE Goto("Initial", "REFRESH_METADATA")
    BY <2>1, <2>3, LeavingSafe
  <2>4. CASE Goto("PartOfGroup", "FETCH")
    <3>1. EventHandled'
      BY <2>4, EventHandledDefNext DEF Goto
    <3>2. PointersUsable'
      BY <2>1, <2>4 DEF PointersUsable, Goto
    <3>3. OwnershipIndexed'
      BY <1>2 DEF Heartbeat, At, In, Safety, OwnershipIndexed, ByLeader, cluster, owned
    <3>4. CommitsAdvance'
      BY <2>4, NoCommitSafe DEF Goto
    <3>5. RoundStartsConnected'
      BY <1>2 DEF RoundStartsConnected, Heartbeat, Answers, cluster
    <3>6. QED
      BY <3>1, <3>2, <3>3, <3>4, <3>5 DEF Safety
  <2>5. QED
    BY <1>2, <2>2, <2>3, <2>4 DEF Heartbeat
<1>3. QED
  BY <1>1, <1>2 DEF HeartbeatNext

LEMMA StutterSafe == ASSUME Inv, UNCHANGED vars PROVE Safety'
BY DEF Inv, Safety, vars, control, loop, cluster, owned, session, EventHandled, PointersUsable,
       OwnershipIndexed, ByLeader, CommitsAdvance, Entries,
       RoundStartsConnected, In, At

LEMMA InvStep == Inv /\ [Next]_vars => Inv'
<1> SUFFICES ASSUME Inv, [Next]_vars PROVE Safety'
  BY TypeStep DEF Inv
<1>1. QED
  BY InitialSafe, DiscoverSafe, JoinSafe, SyncSafe, ResolveSafe, FetchSafe, HeartbeatSafe,
     StutterSafe DEF Next, Terminated

LEMMA InvInit == Init => Inv
<1>1. Init => TypeOK
  BY OffsetAssumption DEF Init, TypeOK, States, Events, Steps, NoCommit
<1>2. Init => Safety
  BY EventHandledDef DEF Init, Safety, States, Handles, PointersUsable, OwnershipIndexed,
     CommitsAdvance, RoundStartsConnected, In, At
<1>3. QED
  BY <1>1, <1>2 DEF Inv

LEMMA InvHolds == Spec => []Inv
BY InvInit, InvStep, PTL DEF Spec

(* A handler is never called with an event its switch has no case for.     *)
THEOREM EventsAreHandled == Spec => []EventHandled
BY InvHolds, PTL DEF Inv, Safety

(* No handler dereferences coordinator_ while it is null, or the first of  *)
(* no brokers.                                                             *)
THEOREM PointersAreUsable == Spec => []PointersUsable
BY InvHolds, PTL DEF Inv, Safety

(* While the client fetches, broker_owned_partition_ is the assignment     *)
(* grouped by the leaders of the current metadata, and misses no partition.*)
THEOREM OwnershipIsIndexed == Spec => []OwnershipIndexed
BY InvHolds, PTL DEF Inv, Safety

(* FetchMessage commits only assigned partitions, past where it fetched.   *)
THEOREM CommitsDoAdvance == Spec => []CommitsAdvance
BY InvHolds, PTL DEF Inv, Safety

(* A round of PartOfGroup begins with a coordinator that has a connection. *)
THEOREM RoundsStartConnected == Spec => []RoundStartsConnected
BY InvHolds, PTL DEF Inv, Safety

-----------------------------------------------------------------------------
(* Traps *)

(* Outside its own state a group of actions does nothing. *)
LEMMA StateOfStep ==
    /\ InitialNext => In("Initial")
    /\ DiscoverNext => In("DiscoverCoordinator")
    /\ JoinNext => In("JoinGroup")
    /\ SyncNext => In("SyncGroup")
    /\ ResolveNext \/ FetchNext \/ HeartbeatNext => In("PartOfGroup")
<1>1. InitialNext => In("Initial")
  BY DEF InitialNext, FetchMetadataGivesUp, FetchMetadataFails, InitialStartup, InitialRefresh
<1>2. DiscoverNext => In("DiscoverCoordinator")
  BY DEF DiscoverNext, DiscoverCoordinatorFails, DiscoverCoordinator
<1>3. JoinNext => In("JoinGroup")
  BY DEF JoinNext, JoinGroupFails, JoinGroup
<1>4. SyncNext => In("SyncGroup")
  BY DEF SyncNext, SyncGroupSendFails, SyncGroupReceiveFails, SyncGroup
<1>5. ResolveNext => In("PartOfGroup")
  BY DEF ResolveNext, OffsetFetchFails, OffsetFetchError, OffsetFetch, ResolveThrows,
         ResolveFails, ResolveOffset, CommitResetFails, CommitReset, At
<1>6. FetchNext => In("PartOfGroup")
  BY DEF FetchNext, FetchThrows, FetchFails, FetchUnusable, Fetch, FetchSent,
         CommitFetchFails, CommitFetch, At
<1>7. HeartbeatNext => In("PartOfGroup")
  BY DEF HeartbeatNext, HeartbeatFails, Heartbeat, At
<1>8. QED
  BY <1>1, <1>2, <1>3, <1>4, <1>5, <1>6, <1>7

LEMMA TrappedStep == Next => (Trapped => Trapped')
<1> SUFFICES ASSUME Next, Trapped PROVE Trapped'
  OBVIOUS
<1>1. CASE UNCHANGED vars
  BY <1>1 DEF Trapped, NoBrokerLeft, LostCoordinator, In, vars, control, cluster
<1>2. CASE NoBrokerLeft
  <2>1. InitialNext \/ Terminated
    BY <1>2, StateOfStep DEF NoBrokerLeft, In, Next
  <2>2. UNCHANGED vars
    BY <1>2, <2>1 DEF NoBrokerLeft, InitialNext, FetchMetadataGivesUp, Terminated
  <2>3. QED
    BY <1>1, <2>2
<1>3. CASE LostCoordinator
  <2>1. SyncNext \/ Terminated
    BY <1>3, StateOfStep DEF LostCoordinator, In, Next
  <2>2. CASE SyncGroupSendFails
    BY <1>3, <2>2 DEF SyncGroupSendFails, SendFails, LostCoordinator, Trapped, In, control
  <2>3. SyncNext => SyncGroupSendFails
    BY <1>3 DEF LostCoordinator, SyncNext, SyncGroupReceiveFails, ReceiveFails, SyncGroup, Answers
  <2>4. QED
    BY <1>1, <2>1, <2>2, <2>3 DEF Terminated
<1>4. QED
  BY <1>2, <1>3 DEF Trapped

(* Once no broker is left, or SyncGroup has lost its coordinator, nothing  *)
(* any broker answers gets the client out.                                 *)
THEOREM TrapsStay == Spec => TrapsAreFinal
BY TrappedStep, PTL DEF Spec, TrapsAreFinal

-----------------------------------------------------------------------------
(* Rounds *)

(* A handler of the group's other states has no round under way.           *)
RoundOnlyInGroup == current_state_ # "PartOfGroup" => step_ = "enter"

LEMMA GotoEnters == ASSUME NEW state, NEW event, Goto(state, event) PROVE step_' = "enter"
BY DEF Goto

(* What a step does to the round: it ends it, or it leaves the state (and  *)
(* the step) as they are, or it is one of PartOfGroup.                     *)
LEMMA OutsideRounds ==
    ASSUME RoundOnlyInGroup, InitialNext \/ DiscoverNext \/ JoinNext \/ SyncNext
    PROVE  step_' = "enter"
<1>1. step_ = "enter"
  BY StateOfStep DEF RoundOnlyInGroup, In
<1>2. CASE InitialNext
  BY <1>1, <1>2, GotoEnters DEF InitialNext, FetchMetadataGivesUp, FetchMetadataFails,
     InitialStartup, InitialRefresh, vars, control, loop
<1>3. CASE DiscoverNext
  BY <1>1, <1>3, GotoEnters DEF DiscoverNext, DiscoverCoordinatorFails, DiscoverCoordinator,
     Terminate, control, loop
<1>4. CASE JoinNext
  BY <1>4, GotoEnters DEF JoinNext, JoinGroupFails, JoinGroup
<1>5. CASE SyncNext
  BY <1>1, <1>5, GotoEnters DEF SyncNext, SyncGroupSendFails, SyncGroupReceiveFails, SyncGroup,
     Terminate, control, loop
<1>6. QED
  BY <1>2, <1>3, <1>4, <1>5

LEMMA ToResolveRound ==
    ASSUME NEW to, NEW error, ToResolve(to, error)
    PROVE  \/ step_' = "enter"
           \/ UNCHANGED current_state_ /\ step_' \in {"fetch", "heartbeat"}
           \/ /\ UNCHANGED <<current_state_, unfetched_>>
              /\ step_' = "resolve" /\ unresolved_' = to
BY GotoEnters DEF ToResolve, ToFetch

LEMMA ResolveRound ==
    ASSUME RoundOnlyInGroup, ResolveNext, process_' = "running", step_' # "enter"
    PROVE  RoundOnlyInGroup' /\ (step_ # "enter" => Shrinks)
<1>0. current_state_ = "PartOfGroup" /\ process_ = "running"
  BY StateOfStep DEF In
<1> USE DEF RoundOnlyInGroup, Shrinks, Loop
<1>1. CASE OffsetFetchFails
  BY <1>1, GotoEnters DEF OffsetFetchFails
<1>2. CASE OffsetFetchError
  BY <1>0, <1>2 DEF OffsetFetchError, At, ToFetch
<1>3. ASSUME NEW offsets \in OffsetReplies, OffsetFetch(offsets)
      PROVE  RoundOnlyInGroup' /\ (step_ # "enter" => Shrinks)
  <2>1. step_ = "enter"
    BY <1>3 DEF OffsetFetch, At
  <2>2. CASE Terminate("bad_response")
    BY <2>2 DEF Terminate
  <2>3. CASE \E to : ToResolve(to, 1)
    BY <1>0, <2>1, <2>3, ToResolveRound
  <2>4. QED
    BY <1>3, <2>2, <2>3 DEF OffsetFetch
<1>4. ASSUME NEW p \in unresolved_, ResolveThrows(p) PROVE FALSE
  BY <1>4 DEF ResolveThrows, Terminate
<1>5. ASSUME NEW p \in unresolved_, ResolveFails(p)
      PROVE  RoundOnlyInGroup' /\ (step_ # "enter" => Shrinks)
  <2>1. step_ = "resolve" /\ ToResolve(unresolved_ \ {p}, error_code_)
    BY <1>5 DEF ResolveFails, At
  <2>2. unresolved_ \ {p} \subseteq unresolved_ /\ unresolved_ \ {p} # unresolved_
    BY <1>5
  <2>3. QED
    BY <1>0, <2>1, <2>2, ToResolveRound
<1>6. ASSUME NEW p \in unresolved_, NEW offset \in Offsets \cup {UnknownOffset}, ResolveOffset(p, offset)
      PROVE  RoundOnlyInGroup' /\ (step_ # "enter" => Shrinks)
  <2>1. unresolved_' \subseteq unresolved_ /\ unresolved_' # unresolved_
    BY <1>6 DEF ResolveOffset
  <2>2. QED
    BY <1>0, <1>6, <2>1 DEF ResolveOffset, At
<1>7. CASE CommitResetFails
  <2>1. step_ = "commit_reset" /\ ToResolve(unresolved_, -1)
    BY <1>7 DEF CommitResetFails, At
  <2>2. QED
    BY <1>0, <2>1, ToResolveRound
<1>8. ASSUME NEW error \in ResponseErrors \cup {0}, CommitReset(error)
      PROVE  RoundOnlyInGroup' /\ (step_ # "enter" => Shrinks)
  <2>1. step_ = "commit_reset"
    BY <1>8 DEF CommitReset, At
  <2>2. ToResolve(unresolved_, error)
    BY <1>8, GotoEnters DEF CommitReset
  <2>3. QED
    BY <1>0, <2>1, <2>2, ToResolveRound
<1>9. QED
  BY <1>1, <1>2, <1>3, <1>4, <1>5, <1>6, <1>7, <1>8 DEF ResolveNext

LEMMA FetchRound ==
    ASSUME RoundOnlyInGroup, FetchNext, process_' = "running", step_' # "enter"
    PROVE  RoundOnlyInGroup' /\ Shrinks
<1>0. current_state_ = "PartOfGroup" /\ process_ = "running"
  BY StateOfStep DEF In
<1> USE DEF RoundOnlyInGroup, Shrinks, Loop
<1>1. ASSUME NEW b \in unfetched_, FetchThrows(b) \/ FetchUnusable(b) PROVE FALSE
  BY <1>1 DEF FetchThrows, FetchUnusable, Terminate
<1>2. ASSUME NEW b \in unfetched_, FetchFails(b) PROVE FALSE
  BY <1>2, GotoEnters DEF FetchFails
<1>3. ASSUME NEW b \in unfetched_, NEW last \in FetchReplies(b), Fetch(b, last)
      PROVE  RoundOnlyInGroup' /\ Shrinks
  <2>1. step_ = "fetch"
    BY <1>3 DEF Fetch, FetchSent, At
  <2>2. unfetched_ \ {b} \subseteq unfetched_ /\ unfetched_ \ {b} # unfetched_
    OBVIOUS
  <2>3. CASE ToFetch(unfetched_ \ {b}, error_code_)
    <3>1. unresolved_' = {} /\ unfetched_' = unfetched_ \ {b} /\ UNCHANGED current_state_
      BY <2>3 DEF ToFetch
    <3>2. step_' \in {"fetch", "heartbeat"}
      BY <2>3 DEF ToFetch
    <3>3. QED
      BY <1>0, <2>1, <2>2, <3>1, <3>2
  <2>4. CASE /\ unfetched_' = unfetched_ \ {b}
             /\ step_' = "commit_fetch"
             /\ UNCHANGED <<current_state_, unresolved_>>
    BY <1>0, <2>1, <2>2, <2>4
  <2>5. QED
    BY <1>3, <2>3, <2>4 DEF Fetch
<1>4. CASE CommitFetchFails
  BY <1>4, GotoEnters DEF CommitFetchFails
<1>5. ASSUME NEW error \in ResponseErrors \cup {0}, CommitFetch(error)
      PROVE  RoundOnlyInGroup' /\ Shrinks
  <2>1. step_ = "commit_fetch"
    BY <1>5 DEF CommitFetch, At
  <2>2. ToFetch(unfetched_, error_code_)
    BY <1>5, GotoEnters DEF CommitFetch
  <2>3. QED
    BY <1>0, <2>1, <2>2 DEF ToFetch
<1>6. QED
  BY <1>1, <1>2, <1>3, <1>4, <1>5 DEF FetchNext

LEMMA EndedInGroup ==
    ASSUME ResolveNext \/ FetchNext \/ HeartbeatNext, process_' # "running"
    PROVE  current_state_' = "PartOfGroup"
<1>0. current_state_ = "PartOfGroup" /\ process_ = "running"
  BY StateOfStep DEF In
<1>1. CASE ResolveNext
  BY <1>0, <1>1 DEF ResolveNext, OffsetFetchFails, OffsetFetchError, OffsetFetch, ResolveThrows,
     ResolveFails, ResolveOffset, CommitResetFails, CommitReset, Terminate, control
<1>2. CASE FetchNext
  BY <1>0, <1>2 DEF FetchNext, FetchThrows, FetchFails, FetchUnusable, Fetch, CommitFetchFails,
     CommitFetch, Terminate, control
<1>3. CASE HeartbeatNext
  BY <1>0, <1>3 DEF HeartbeatNext, HeartbeatFails, Heartbeat
<1>4. QED
  BY <1>1, <1>2, <1>3

LEMMA RoundStep ==
    RoundOnlyInGroup /\ [Next]_vars
        => /\ RoundOnlyInGroup'
           /\ [(process_' = "running" /\ step_ # "enter" /\ step_' # "enter") => Shrinks]_vars
<1> SUFFICES ASSUME RoundOnlyInGroup, Next
             PROVE  /\ RoundOnlyInGroup'
                    /\ \/ (process_' = "running" /\ step_ # "enter" /\ step_' # "enter") => Shrinks
                       \/ UNCHANGED vars
  BY DEF RoundOnlyInGroup, vars, control, loop
<1>1. CASE step_' = "enter"
  BY <1>1 DEF RoundOnlyInGroup
<1>2. CASE UNCHANGED vars
  BY <1>2 DEF RoundOnlyInGroup, vars, control, loop
<1>3. CASE ResolveNext \/ FetchNext \/ HeartbeatNext
  <2>1. CASE process_' = "running" /\ step_' # "enter"
    <3>1. HeartbeatNext => step_' = "enter"
      BY GotoEnters DEF HeartbeatNext, HeartbeatFails, Heartbeat
    <3>2. QED
      BY <1>3, <2>1, <3>1, ResolveRound, FetchRound
  <2>2. CASE process_' # "running"
    <3>1. current_state_' = "PartOfGroup"
      BY <1>3, <2>2, EndedInGroup
    <3>2. QED
      BY <2>2, <3>1 DEF RoundOnlyInGroup
  <2>3. QED
    BY <1>1, <2>1, <2>2
<1>4. QED
  BY <1>1, <1>2, <1>3, OutsideRounds DEF Next, Terminated

(* Every exchange of a round ends it or leaves less of it to do.           *)
THEOREM RoundsDoShrink == Spec => RoundsShrink
<1>1. Init => RoundOnlyInGroup
  BY DEF Init, RoundOnlyInGroup
<1>2. QED
  BY <1>1, RoundStep, PTL DEF Spec, RoundsShrink

-----------------------------------------------------------------------------
(* Joins *)

(* A coordinator erased while FetchValidOffset runs has been noticed by a  *)
(* commit, which leaves a negative error code, or it is the leader of some *)
(* partition: a leader is all that an offset exchange erases.              *)
ErasedAsLeader == \E p \in Partitions : all_partitions_[p] = coordinator_

ErasureKnown ==
    (At("resolve") \/ At("commit_reset")) /\ coordinator_ \notin alive_brokers_
        => error_code_ < 0 \/ ErasedAsLeader

LEMMA ErasureElsewhere ==
    ASSUME process_' # "running" \/ step_' \notin {"resolve", "commit_reset"}
    PROVE  ErasureKnown'
BY DEF ErasureKnown, At, In

LEMMA ToResolveErasure ==
    ASSUME NEW to, NEW error, ToResolve(to, error),
           UNCHANGED <<coordinator_, all_partitions_>>,
           coordinator_ \notin alive_brokers_' => error < 0 \/ ErasedAsLeader
    PROVE  ErasureKnown'
<1>1. CASE step_' = "resolve" /\ error_code_' = error
  BY <1>1 DEF ErasureKnown, ErasedAsLeader
<1>2. CASE step_' \in {"enter", "fetch", "heartbeat"}
  BY <1>2, ErasureElsewhere
<1>3. QED
  BY <1>1, <1>2 DEF ToResolve, ToFetch, Goto

LEMMA ResolveErasure == ASSUME Inv, ErasureKnown, ResolveNext PROVE ErasureKnown'
<1>1. CASE OffsetFetchFails
  BY <1>1, ErasureElsewhere DEF OffsetFetchFails, Goto
<1>2. CASE OffsetFetchError
  BY <1>2, ErasureElsewhere DEF OffsetFetchError, ToFetch
<1>3. ASSUME NEW offsets \in OffsetReplies, OffsetFetch(offsets) PROVE ErasureKnown'
  <2>1. coordinator_ \in alive_brokers_' /\ UNCHANGED cluster
    BY <1>3 DEF OffsetFetch, Answers, cluster
  <2>2. QED
    BY <1>3, <2>1 DEF ErasureKnown, cluster
<1>4. ASSUME NEW p \in unresolved_, ResolveThrows(p) PROVE ErasureKnown'
  BY <1>4, ErasureElsewhere DEF ResolveThrows, Terminate
<1>5. ASSUME NEW p \in unresolved_, ResolveFails(p) PROVE ErasureKnown'
  <2>1. p \in Partitions /\ alive_brokers_ \ {all_partitions_[p]} \subseteq alive_brokers_'
    BY <1>5 DEF Inv, TypeOK, ResolveFails, ExchangeFails, SendFails, ReceiveFails
  <2>2. coordinator_ \notin alive_brokers_' => error_code_ < 0 \/ ErasedAsLeader
    BY <1>5, <2>1 DEF ErasureKnown, ErasedAsLeader, ResolveFails
  <2>3. QED
    BY <1>5, <2>2, ToResolveErasure DEF ResolveFails
<1>6. ASSUME NEW p \in unresolved_, NEW offset \in Offsets \cup {UnknownOffset}, ResolveOffset(p, offset)
      PROVE  ErasureKnown'
  BY <1>6 DEF ErasureKnown, ErasedAsLeader, ResolveOffset, At, In, cluster
<1>7. CASE CommitResetFails
  BY <1>7, ToResolveErasure DEF CommitResetFails
<1>8. ASSUME NEW error \in ResponseErrors \cup {0}, CommitReset(error) PROVE ErasureKnown'
  <2>1. coordinator_ \in alive_brokers_' /\ UNCHANGED cluster
    BY <1>8 DEF CommitReset, Answers, cluster
  <2>2. QED
    BY <1>8, <2>1 DEF ErasureKnown, cluster
<1>9. QED
  BY <1>1, <1>2, <1>3, <1>4, <1>5, <1>6, <1>7, <1>8 DEF ResolveNext

LEMMA FetchErasure == ASSUME FetchNext PROVE ErasureKnown'
<1> USE ErasureElsewhere
<1>1. ASSUME NEW b \in unfetched_,
             FetchThrows(b) \/ FetchFails(b) \/ FetchUnusable(b)
      PROVE  ErasureKnown'
  BY <1>1 DEF FetchThrows, FetchFails, FetchUnusable, Terminate, Goto
<1>2. ASSUME NEW b \in unfetched_, NEW last \in FetchReplies(b), Fetch(b, last)
      PROVE  ErasureKnown'
  BY <1>2 DEF Fetch, ToFetch
<1>3. CASE CommitFetchFails
  BY <1>3 DEF CommitFetchFails, Goto
<1>4. ASSUME NEW error \in ResponseErrors \cup {0}, CommitFetch(error) PROVE ErasureKnown'
  BY <1>4 DEF CommitFetch, ToFetch, Goto
<1>5. QED
  BY <1>1, <1>2, <1>3, <1>4 DEF FetchNext

LEMMA ErasureStep ==
    Inv /\ RoundOnlyInGroup /\ ErasureKnown /\ [Next]_vars => ErasureKnown'
<1> SUFFICES ASSUME Inv, RoundOnlyInGroup, ErasureKnown, [Next]_vars PROVE ErasureKnown'
  OBVIOUS
<1>1. CASE InitialNext \/ DiscoverNext \/ JoinNext \/ SyncNext
  BY <1>1, OutsideRounds, ErasureElsewhere
<1>2. CASE HeartbeatNext
  BY <1>2, ErasureElsewhere DEF HeartbeatNext, HeartbeatFails, Heartbeat, Goto
<1>3. CASE UNCHANGED vars
  BY <1>3 DEF ErasureKnown, ErasedAsLeader, At, In, vars, control, loop, cluster
<1>4. QED
  BY <1>1, <1>2, <1>3, ResolveErasure, FetchErasure DEF Next, Terminated

JoinBegins == current_state_ # "JoinGroup" /\ current_state_' = "JoinGroup"

JoinConnected ==
    \/ coordinator_' \in alive_brokers_'
    \/ At("resolve") /\ error_code_ \in FencedErrors /\ ErasedAsLeader

LEMMA ToResolveJoins ==
    ASSUME NEW to, NEW error, ToResolve(to, error), JoinBegins
    PROVE  error \in FencedErrors
BY DEF ToResolve, ToFetch, Goto, JoinBegins

LEMMA JoinStep == Inv /\ ErasureKnown /\ Next => (JoinBegins => JoinConnected)
<1> SUFFICES ASSUME Inv, ErasureKnown, Next, JoinBegins PROVE JoinConnected
  OBVIOUS
<1>1. CASE InitialNext
  BY <1>1 DEF InitialNext, FetchMetadataGivesUp, FetchMetadataFails, InitialStartup,
     InitialRefresh, ParseMetadata, JoinBegins, JoinConnected, Goto, vars, control
<1>2. CASE DiscoverNext
  BY <1>2 DEF DiscoverNext, DiscoverCoordinatorFails, DiscoverCoordinator, JoinBegins,
     JoinConnected, Goto, Terminate, control
<1>3. CASE JoinNext \/ SyncNext
  BY <1>3, StateOfStep DEF In, JoinBegins, SyncNext, SyncGroupSendFails,
     SyncGroupReceiveFails, SyncGroup, Goto, Terminate, control
<1>4. CASE ResolveNext
  <2>1. ASSUME NEW p \in unresolved_, ResolveFails(p) PROVE JoinConnected
    <3>1. error_code_ \in FencedErrors
      BY <2>1, ToResolveJoins DEF ResolveFails
    <3>2. CASE coordinator_ \in alive_brokers_ /\ coordinator_ # all_partitions_[p]
      BY <2>1, <3>2 DEF JoinConnected, ResolveFails, ExchangeFails, SendFails, ReceiveFails
    <3>3. ~(error_code_ < 0)
      BY <3>1 DEF FencedErrors, ILLEGAL_GENERATION, UNKNOWN_MEMBER_ID
    <3>4. p \in Partitions
      BY <2>1 DEF Inv, TypeOK
    <3>5. CASE ErasedAsLeader
      BY <2>1, <3>1, <3>5 DEF JoinConnected, ResolveFails
    <3>6. coordinator_ = all_partitions_[p] => ErasedAsLeader
      BY <3>4 DEF ErasedAsLeader
    <3>7. coordinator_ \notin alive_brokers_ => ErasedAsLeader
      BY <2>1, <3>3 DEF ErasureKnown, ResolveFails
    <3>8. QED
      BY <3>2, <3>5, <3>6, <3>7
  <2>2. ASSUME NEW error \in ResponseErrors \cup {0}, CommitReset(error) PROVE JoinConnected
    BY <2>2 DEF CommitReset, Answers, cluster, JoinConnected
  <2>3. ASSUME NEW offsets \in OffsetReplies, OffsetFetch(offsets) PROVE JoinConnected
    BY <2>3 DEF OffsetFetch, Answers, cluster, JoinConnected
  <2>4. CASE CommitResetFails
    <3>1. -1 \in FencedErrors
      BY <2>4, ToResolveJoins DEF CommitResetFails
    <3>2. QED
      BY <3>1 DEF FencedErrors, ILLEGAL_GENERATION, UNKNOWN_MEMBER_ID
  <2>5. QED
    BY <1>4, <2>1, <2>2, <2>3, <2>4 DEF ResolveNext, OffsetFetchFails, OffsetFetchError,
       ResolveThrows, ResolveOffset, ToFetch, Goto, Terminate, control, JoinBegins
<1>5. CASE FetchNext
  BY <1>5 DEF FetchNext, FetchThrows, FetchFails, FetchUnusable, Fetch, CommitFetchFails,
     CommitFetch, ToFetch, Goto, Terminate, control, JoinBegins
<1>6. CASE HeartbeatNext
  BY <1>6 DEF HeartbeatNext, HeartbeatFails, Heartbeat, Answers, Goto, cluster, JoinBegins,
     JoinConnected
<1>7. CASE Terminated
  BY <1>7 DEF Terminated, vars, control, JoinBegins
<1>8. QED
  BY <1>1, <1>2, <1>3, <1>4, <1>5, <1>6, <1>7 DEF Next

(* Every handler that hands over to JoinGroup leaves it a coordinator with *)
(* a connection, but for the one way through a fenced reset commit and an  *)
(* offset exchange that erases the leader which is the coordinator.        *)
THEOREM JoinsAreConnected == Spec => JoinsConnected
<1>1. Init => RoundOnlyInGroup /\ ErasureKnown
  BY DEF Init, RoundOnlyInGroup, ErasureKnown, At, In
<1>2. Inv /\ ErasureKnown /\ [Next]_vars
        => [(current_state_ # "JoinGroup" /\ current_state_' = "JoinGroup") =>
              \/ coordinator_' \in alive_brokers_'
              \/ /\ At("resolve") /\ error_code_ \in FencedErrors
                 /\ \E p \in Partitions : all_partitions_[p] = coordinator_]_vars
  BY JoinStep DEF JoinBegins, JoinConnected, ErasedAsLeader
<1>3. QED
  BY <1>1, <1>2, InvHolds, RoundStep, ErasureStep, PTL DEF Spec, JoinsConnected

-----------------------------------------------------------------------------
(* Refinement *)

BrokersKept == UNCHANGED alive_brokers_
BrokerErased == \E b \in alive_brokers_ : alive_brokers_' = alive_brokers_ \ {b}
BrokersReplaced == alive_brokers_ # {} /\ alive_brokers_' \in (SUBSET Brokers) \ {{}}

LEMMA FailureErases == ASSUME NEW b, ExchangeFails(b) PROVE BrokersKept \/ BrokerErased
BY DEF ExchangeFails, SendFails, ReceiveFails, BrokersKept, BrokerErased

LEMMA BrokersStep == ASSUME Next PROVE BrokersKept \/ BrokerErased \/ BrokersReplaced
<1> USE FailureErases DEF BrokersKept
<1>1. CASE InitialNext
  <2>1. ASSUME NEW b \in alive_brokers_, NEW r \in MetadataReplies, InitialStartup(b, r)
        PROVE  BrokersKept \/ BrokersReplaced
    BY <2>1 DEF InitialStartup, ParseMetadata, MetadataReplies, BrokersReplaced
  <2>2. ASSUME NEW b \in alive_brokers_, NEW r \in MetadataReplies, NEW id \in Brokers,
               InitialRefresh(b, r, id)
        PROVE  BrokersKept \/ BrokersReplaced
    BY <2>2 DEF InitialRefresh, ParseMetadata, MetadataReplies, BrokersReplaced, cluster
  <2>3. QED
    BY <1>1, <2>1, <2>2 DEF InitialNext, FetchMetadataGivesUp, FetchMetadataFails, vars, cluster
<1>2. CASE DiscoverNext
  BY <1>2 DEF DiscoverNext, DiscoverCoordinatorFails, DiscoverCoordinator
<1>3. CASE JoinNext
  BY <1>3 DEF JoinNext, JoinGroupFails, JoinGroup, cluster
<1>4. CASE SyncNext
  BY <1>4 DEF SyncNext, SyncGroupSendFails, SyncGroupReceiveFails, SyncGroup, cluster, ExchangeFails
<1>5. CASE ResolveNext
  BY <1>5 DEF ResolveNext, OffsetFetchFails, OffsetFetchError, OffsetFetch, ResolveThrows,
     ResolveFails, ResolveOffset, CommitResetFails, CommitReset, cluster
<1>6. CASE FetchNext
  BY <1>6 DEF FetchNext, FetchThrows, FetchFails, FetchUnusable, Fetch, CommitFetchFails,
     CommitFetch, cluster
<1>7. CASE HeartbeatNext
  BY <1>7 DEF HeartbeatNext, HeartbeatFails, Heartbeat, cluster
<1>8. CASE Terminated
  BY <1>8 DEF Terminated, vars, cluster
<1>9. QED
  BY <1>1, <1>2, <1>3, <1>4, <1>5, <1>6, <1>7, <1>8 DEF Next

(* The client implements BrokerSet: whatever a handler does and a broker   *)
(* answers, alive_brokers_ is kept, loses one broker, or is replaced by    *)
(* brokers of the cluster.                                                 *)
THEOREM ImplementsBrokerSet == Spec => BrokersAsPromised
<1>1. Init => BrokerSet!Init
  BY DEF Init, BrokerSet!Init
<1>2. [Next]_vars => [BrokerSet!Next]_(BrokerSet!vars)
  <2>1. Next => [BrokerSet!Next]_(BrokerSet!vars)
    BY BrokersStep DEF BrokersKept, BrokerErased, BrokersReplaced, BrokerSet!Next,
       BrokerSet!Erase, BrokerSet!Refresh, BrokerSet!vars
  <2>2. UNCHANGED vars => UNCHANGED BrokerSet!vars
    BY DEF vars, cluster, BrokerSet!vars
  <2>3. QED
    BY <2>1, <2>2
<1>3. QED
  BY <1>1, <1>2, PTL DEF Spec, BrokersAsPromised, BrokerSet!Spec
=============================================================================
