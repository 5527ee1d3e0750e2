-------------------------- MODULE GroupClientProofs --------------------------
(***************************************************************************)
(* Lemmas about one client of a group, for every value of the constants.   *)
(*                                                                         *)
(* A client and the coordinator share variables that the other clients     *)
(* change as well, so the lemmas come in pairs: what a step of this client *)
(* preserves (the lemmas named ...Step), and what a step of anybody else,  *)
(* which leaves this client's own variables alone, preserves of it         *)
(* (...Else).  ConsumerGroup instantiates this module once for each client,*)
(* and ConsumerGroupProofs puts the pairs together.                        *)
(***************************************************************************)
EXTENDS GroupClient, NetworkProofs, FiniteSetTheorems, FunctionTheorems

(* What the lemmas assume of the constants. *)
Constants ==
    /\ self \in Clients
    /\ Brokers # {}
    /\ IsFiniteSet(Partitions)
    /\ Generations # {}
    /\ NoMember \notin MemberIds
    /\ \A r \in Group!JoinAnswers \cup Group!SyncAnswers : r # None
    /\ \A ps \in SUBSET Partitions : ps # Empty

-----------------------------------------------------------------------------
(* Invariants *)

(* The coordinator: an assignment leaves nobody without an answer and      *)
(* gives a partition to one member.                                        *)
GroupOK ==
    /\ phase \in {"preparing", "completing", "stable"}
    /\ members \subseteq MemberIds /\ IsFiniteSet(members)
    /\ joined \subseteq members
    /\ generation \in Generations
    /\ leader \in members \cup {NoMember}
    /\ phase # "preparing" => leader \in members
    /\ assignment \in [MemberIds -> SUBSET Partitions]
    /\ \A m, n \in MemberIds : m # n => assignment[m] \cap assignment[n] = {}
    /\ waiting \in [Clients -> [call : {"none", "join", "sync"}, member : MemberIds \cup {NoMember}]]
    /\ DOMAIN answer = Clients /\ answer = [c \in Clients |-> answer[c]]

LogOK ==
    /\ committed \in [Partitions -> Offsets \cup {UnknownOffset}]
    /\ log \in [Partitions -> Offsets]
    /\ resetTo \in [Partitions -> Offsets \cup {UnknownOffset}]
    /\ printed \subseteq Partitions \X Offsets

(* The member and the generation this client has are current. *)
Current == member_id_ \in members /\ generation_id_ = generation

(* The answer to a JoinGroup request.  While the leader's assignment is    *)
(* awaited, the leader is told of every member.                            *)
JoinAnswered ==
    LET r == answer[self]
    IN  /\ r \in Group!JoinAnswers
        /\ r.member = waiting[self].member
        /\ r.members # {} => r.member \in r.members
        /\ r.generation = NoGeneration => r.members = {} /\ r.member = RequestedMember
        /\ phase = "completing" /\ r.generation = generation /\ r.member = leader
                => r.members = members

(* The answer to a SyncGroup request is the member's assignment, as long   *)
(* as the generation lasts.                                                *)
SyncAnswered ==
    LET r == answer[self]
    IN  /\ r \in Group!SyncAnswers
        /\ r.error = 0 =>
            /\ generation_id_ \in Generations /\ member_id_ \in MemberIds
            /\ Current => phase # "completing" /\ r.assigned = assignment[member_id_]

Calls ==
    /\ waiting[self].call = "none" => waiting[self].member = NoMember /\ answer[self] = None
    /\ waiting[self].call = "join" =>
        /\ In("JoinGroup")
        /\ waiting[self].member \in MemberIds
        /\ RequestedMember \in {NoMember, waiting[self].member}
        /\ answer[self] # None => JoinAnswered
    /\ waiting[self].call = "sync" =>
        /\ In("SyncGroup")
        /\ waiting[self].member = member_id_
        /\ IF answer[self] = None THEN Current /\ phase = "completing" ELSE SyncAnswered

(* A client that fetches in the current generation fetches what it was     *)
(* assigned.                                                               *)
Holding == In("PartOfGroup") /\ Current => phase # "completing" /\ my_partitions_id_ = assignment[member_id_]

(* The client that is to send the assignment of the current generation has *)
(* one that is complete and gives a partition to one member.               *)
Leading ==
    phase = "completing" /\ generation_id_ = generation /\ member_id_ = leader =>
        /\ amIGroupLeader_
        /\ members \subseteq DOMAIN member_partitions_
        /\ \A m, n \in members : m # n => member_partitions_[m] \cap member_partitions_[n] = {}

MetadataRead == current_state_ # "Initial" => all_partitions_ = Metadata.leader

MemberOK == Calls /\ Holding /\ Leading /\ MetadataRead

ClientOK == Inv /\ MemberOK

-----------------------------------------------------------------------------
(* Every step is one of Network's: the answers are those Network admits.   *)

LEMMA BrokerIs == ASSUME Constants PROVE broker \in Brokers
BY DEF Constants, broker

LEMMA MetadataIsReply == ASSUME Constants PROVE Metadata \in MetadataReplies
BY BrokerIs, IdsAssumption DEF Metadata, MetadataReplies

LEMMA AnyRankIs ==
    ASSUME Constants
    PROVE  AnyRank(Partitions) \in Bijection(Partitions, 1 .. Cardinality(Partitions))
<1>1. ExistsBijection(1 .. Cardinality(Partitions), Partitions)
  BY FS_CardinalityType DEF Constants
<1>2. ExistsBijection(Partitions, 1 .. Cardinality(Partitions))
  BY <1>1, Fun_ExistsBijSymmetric
<1>3. QED
  BY <1>2 DEF AnyRank, ExistsBijection

LEMMA AllRanks ==
    ASSUME Constants, all_partitions_ = Metadata.leader
    PROVE  AnyRank(Partitions) \in PartitionRanks
<1>1. Entries(all_partitions_) = Partitions
  BY BrokerIs, IdsAssumption DEF Metadata, Entries
<1>2. QED
  BY <1>1, AnyRankIs DEF PartitionRanks

LEMMA ConnectStep ==
    ASSUME Constants, Connect
    PROVE  InitialNext \/ DiscoverNext
<1>1. CASE \E b \in alive_brokers_ : FetchMetadataFails(b) \/ DiscoverCoordinatorFails(b)
  BY <1>1 DEF InitialNext, DiscoverNext
<1>2. ASSUME NEW b \in alive_brokers_,
             \/ InitialStartup(b, Metadata)
             \/ InitialRefresh(b, Metadata, broker)
             \/ DiscoverCoordinator(b, broker)
      PROVE  InitialNext \/ DiscoverNext
  BY <1>2, BrokerIs, MetadataIsReply DEF InitialNext, DiscoverNext
<1>3. QED
  BY <1>1, <1>2 DEF Connect

(* A follower's answer lists no member, the leader's lists it as well.     *)
LEMMA AnswerIsReply ==
    ASSUME JoinAnswered, GroupOK, waiting[self].call = "join",
           NEW memberRank \in Bijection(answer[self].members, 1 .. Cardinality(answer[self].members))
    PROVE  [generation |-> answer[self].generation, member |-> answer[self].member,
            memberRank |-> memberRank] \in JoinReplies
<1> DEFINE r == answer[self]
           reply == [generation |-> r.generation, member |-> r.member, memberRank |-> memberRank]
           memberLists == {<<>>} \cup
            UNION {Bijection(S, 1 .. Cardinality(S)) : S \in (SUBSET MemberIds) \ {{}}}
<1>1. DOMAIN memberRank = r.members
  BY DEF Bijection, Injection
<1>2. /\ r.generation \in Generations \cup {NoGeneration} /\ r.member \in MemberIds
      /\ r.members \in SUBSET MemberIds
  BY DEF JoinAnswered, Group!JoinAnswers
<1>3. CASE r.members = {}
  <2>1. memberRank = <<>>
    BY <1>1, <1>3 DEF Bijection, Injection
  <2>2. r.generation = NoGeneration => r.member = RequestedMember
    BY DEF JoinAnswered
  <2>3. DOMAIN reply.memberRank = {}
    BY <1>1, <1>3
  <2>4. memberRank \in memberLists
    BY <2>1
  <2>5. CASE r.generation \in Generations
    BY <1>2, <2>3, <2>4, <2>5 DEF JoinReplies
  <2>6. CASE r.generation = NoGeneration
    BY <2>1, <2>2, <2>6 DEF JoinReplies
  <2>7. QED
    BY <1>2, <2>5, <2>6
<1>4. CASE r.members # {}
  <2>1. r.generation \in Generations /\ r.member \in r.members
    BY <1>2, <1>4 DEF JoinAnswered
  <2>2. memberRank \in memberLists
    BY <1>2, <1>4
  <2>3. QED
    BY <1>1, <1>2, <2>1, <2>2 DEF JoinReplies
<1>5. QED
  BY <1>3, <1>4

LEMMA JoinedStep ==
    ASSUME Constants, ClientOK, GroupOK, Joined
    PROVE  JoinNext
<1>1. PICK memberRank \in Bijection(answer[self].members, 1 .. Cardinality(answer[self].members)) :
            JoinGroup([generation |-> answer[self].generation, member |-> answer[self].member,
                       memberRank |-> memberRank], AnyRank(Partitions))
  BY DEF Joined
<1>2. In("JoinGroup") /\ JoinAnswered /\ waiting[self].call = "join"
  BY DEF Joined, ClientOK, MemberOK, Calls
<1>3. AnyRank(Partitions) \in PartitionRanks
  BY <1>2, AllRanks DEF ClientOK, MemberOK, MetadataRead, In
<1>4. QED
  BY <1>1, <1>2, <1>3, AnswerIsReply DEF JoinNext

LEMMA SyncedStep ==
    ASSUME ClientOK, Synced
    PROVE  SyncNext
<1>1. CASE answer[self].error # 0
  BY <1>1 DEF Synced, SyncNext
<1>2. CASE answer[self].error = 0
  <2>1. SyncAnswered
    BY DEF Synced, ClientOK, MemberOK, Calls
  <2>2. answer[self].assigned \in SyncReplies
    BY <1>2, <2>1 DEF SyncAnswered, SyncReplies, Group!SyncAnswers
  <2>3. QED
    BY <1>2, <2>2 DEF Synced, SyncNext
<1>3. QED
  BY <1>1, <1>2

LEMMA ErrorsOK ==
    /\ CommitError \in ResponseErrors \cup {0}
    /\ Group!HeartbeatError(member_id_, generation_id_) \in ResponseErrors \cup {0}
BY DEF CommitError, Group!CommitError, Group!HeartbeatError, ResponseErrors, FencedErrors,
       OtherError, ILLEGAL_GENERATION, UNKNOWN_MEMBER_ID, Group!ILLEGAL_GENERATION,
       Group!UNKNOWN_MEMBER_ID, Group!REBALANCE_IN_PROGRESS

LEMMA ResolvingStep ==
    ASSUME ClientOK, LogOK, AskOffsets \/ (\E p \in unresolved_ : Resolve(p)) \/ Reset
    PROVE  ResolveNext
<1>1. CASE AskOffsets
  <2>1. Positions \in OffsetReplies
    BY DEF Positions, OffsetReplies, LogOK, ClientOK, Inv, TypeOK
  <2>2. QED
    BY <1>1, <2>1 DEF AskOffsets, ResolveNext
<1>2. ASSUME NEW p \in unresolved_, Resolve(p) PROVE ResolveNext
  <2>1. p \in Partitions
    BY DEF ClientOK, Inv, TypeOK
  <2>2. log[p] \in Offsets
    BY <2>1 DEF LogOK
  <2>3. QED
    BY <1>2, <2>2 DEF Resolve, ResolveNext
<1>3. CASE Reset
  BY <1>3, ErrorsOK DEF Reset, ResolveNext
<1>4. QED
  BY <1>1, <1>2, <1>3

LEMMA MessagesAreReplies == ASSUME NEW b PROVE Messages(b) \subseteq FetchReplies(b)
BY DEF Messages

LEMMA FetchingStep ==
    ASSUME ClientOK, (\E b \in unfetched_ : FetchPrints(b)) \/ Commit
    PROVE  FetchNext
<1>1. ASSUME NEW b \in unfetched_, FetchPrints(b) PROVE FetchNext
  BY <1>1, MessagesAreReplies DEF FetchPrints, FetchNext
<1>2. CASE Commit
  BY <1>2, ErrorsOK DEF Commit, FetchNext
<1>3. QED
  BY <1>1, <1>2

LEMMA BeatStep == ASSUME NEW refresh \in BOOLEAN, Beat(refresh) PROVE HeartbeatNext
BY ErrorsOK DEF Beat, HeartbeatNext

(* What the client itself does when it only sends a request that blocks.   *)
LEMMA SentStep == ASSUME NEW freeIds, JoinSent(freeIds) \/ SyncSent PROVE UNCHANGED vars
BY DEF JoinSent, SyncSent

LEMMA NetworkStep ==
    ASSUME Constants, ClientOK, GroupOK, LogOK, NEW freeIds, ClientNext(freeIds)
    PROVE  [Next]_vars
<1>1. CASE Connect
  BY <1>1, ConnectStep DEF Next
<1>2. CASE JoinSent(freeIds) \/ SyncSent
  BY <1>2, SentStep
<1>3. CASE Joined
  BY <1>3, JoinedStep DEF Next
<1>4. CASE JoinLost
  BY <1>4 DEF JoinLost, JoinNext, Next
<1>5. CASE Synced
  BY <1>5, SyncedStep DEF Next
<1>6. CASE SyncLost
  BY <1>6 DEF SyncLost, SyncNext, Next
<1>7. CASE AskOffsets \/ (\E p \in unresolved_ : Resolve(p)) \/ Reset
  BY <1>7, ResolvingStep DEF Next
<1>8. CASE (\E b \in unfetched_ : FetchPrints(b)) \/ Commit
  BY <1>8, FetchingStep DEF Next
<1>9. CASE \E refresh \in BOOLEAN : Beat(refresh)
  BY <1>9, BeatStep DEF Next
<1>10. QED
  BY <1>1, <1>2, <1>3, <1>4, <1>5, <1>6, <1>7, <1>8, <1>9 DEF ClientNext

LEMMA NetworkKept ==
    ASSUME Constants, ClientOK, GroupOK, LogOK, NEW freeIds, ClientNext(freeIds)
    PROVE  Inv'
BY NetworkStep, InvStep DEF ClientOK

-----------------------------------------------------------------------------
(* Which step touches what *)

(* The exchanges of PartOfGroup leave the assignment, the member and the   *)
(* metadata alone.                                                         *)
LEMMA RoundKeeps ==
    ASSUME ResolveNext \/ FetchNext \/ HeartbeatNext
    PROVE  In("PartOfGroup") /\ UNCHANGED <<all_partitions_, owned, session>>
<1>1. In("PartOfGroup")
  BY StateOfStep
<1>2. CASE ResolveNext
  BY <1>1, <1>2 DEF ResolveNext, OffsetFetchFails, OffsetFetchError, OffsetFetch, ResolveThrows,
     ResolveFails, ResolveOffset, CommitResetFails, CommitReset, cluster
<1>3. CASE FetchNext
  BY <1>1, <1>3 DEF FetchNext, FetchThrows, FetchFails, FetchUnusable, Fetch, CommitFetchFails,
     CommitFetch, cluster
<1>4. CASE HeartbeatNext
  BY <1>1, <1>4 DEF HeartbeatNext, HeartbeatFails, Heartbeat, cluster
<1>5. QED
  BY <1>1, <1>2, <1>3, <1>4

(* Only JoinGroup and SyncGroup requests and the hanging up after them     *)
(* concern the coordinator; and only the other steps concern the log.      *)
InRound ==
    \/ AskOffsets
    \/ \E p \in unresolved_ : Resolve(p)
    \/ Reset
    \/ \E b \in unfetched_ : FetchPrints(b)
    \/ Commit
    \/ \E refresh \in BOOLEAN : Beat(refresh)

LEMMA Split ==
    ASSUME NEW freeIds, ClientNext(freeIds)
    PROVE  \/ Connect \/ JoinSent(freeIds) \/ Joined \/ JoinLost
           \/ SyncSent \/ Synced \/ SyncLost \/ InRound
BY DEF ClientNext, InRound

LEMMA RoundOwn ==
    ASSUME ClientOK, LogOK, InRound
    PROVE  In("PartOfGroup") /\ UNCHANGED <<all_partitions_, owned, session>>
BY RoundKeeps, ResolvingStep, FetchingStep, BeatStep DEF InRound

LEMMA RoundShared == ASSUME InRound PROVE UNCHANGED groupVars
BY DEF InRound, AskOffsets, Resolve, Reset, FetchPrints, Commit, Beat

LEMMA ConnectShared ==
    ASSUME Connect
    PROVE  UNCHANGED <<groupVars, logVars, log, owned, session, partition_offset_>>
BY DEF Connect, InitialStartup, InitialRefresh, DiscoverCoordinator, FetchMetadataFails,
       DiscoverCoordinatorFails

LEMMA CallsShareNoLog ==
    ASSUME NEW freeIds,
           JoinSent(freeIds) \/ Joined \/ JoinLost \/ SyncSent \/ Synced \/ SyncLost
    PROVE  UNCHANGED <<logVars, log>>
BY DEF JoinSent, Joined, JoinLost, SyncSent, Synced, SyncLost

LEMMA LogGrowsOnlyOutside == ASSUME InRound PROVE UNCHANGED log
BY DEF InRound, AskOffsets, Resolve, Reset, FetchPrints, Commit, Beat, logVars

LEMMA LogKept ==
    ASSUME ClientOK, LogOK, NEW freeIds, ClientNext(freeIds)
    PROVE  LogOK'
<1> DEFINE Same == UNCHANGED <<logVars, log>>
<1>0. ASSUME Same PROVE LogOK'
  BY <1>0 DEF LogOK, logVars
<1>1. ASSUME Stores, UNCHANGED <<printed, resetTo, log>> PROVE LogOK'
  BY <1>1 DEF LogOK, Stores, ClientOK, Inv, TypeOK
<1>2. ASSUME UNCHANGED <<committed, printed, resetTo, log>> PROVE LogOK'
  BY <1>2 DEF LogOK
<1>3. CASE AskOffsets
  BY <1>0, <1>3 DEF AskOffsets
<1>4. ASSUME NEW p \in unresolved_, Resolve(p) PROVE LogOK'
  <2>1. CASE Same
    BY <1>0, <2>1
  <2>2. CASE resetTo' = [resetTo EXCEPT ![p] = log[p]] /\ UNCHANGED <<committed, printed, log>>
    <3>1. p \in Partitions
      BY DEF ClientOK, Inv, TypeOK
    <3>2. QED
      BY <2>2, <3>1 DEF LogOK
  <2>3. QED
    BY <1>4, <2>1, <2>2 DEF Resolve
<1>5. CASE Reset
  BY <1>1, <1>2, <1>5 DEF Reset, StoresReset
<1>6. ASSUME NEW b \in unfetched_, FetchPrints(b) PROVE LogOK'
  <2>1. CASE Same
    BY <1>0, <2>1
  <2>2. CASE /\ UNCHANGED <<committed, resetTo, disturbed, log>>
             /\ \E last \in Messages(b) : printed' = printed \cup
                 {m \in Requested(b) \X Offsets :
                     last[m[1]] # Absent /\ m[2] \in partition_offset_[m[1]] .. last[m[1]]}
    <3>1. Requested(b) \subseteq Partitions
      BY DEF Requested, ClientOK, Inv, TypeOK
    <3>2. QED
      BY <2>2, <3>1 DEF LogOK
  <2>3. QED
    BY <1>6, <2>1, <2>2 DEF FetchPrints
<1>7. CASE Commit
  BY <1>1, <1>2, <1>7 DEF Commit, StoresFetched
<1>8. ASSUME NEW refresh \in BOOLEAN, Beat(refresh) PROVE LogOK'
  BY <1>0, <1>8 DEF Beat
<1>9. QED
  BY <1>0, <1>3, <1>4, <1>5, <1>6, <1>7, <1>8, Split, ConnectShared, CallsShareNoLog DEF InRound

-----------------------------------------------------------------------------
(* The coordinator *)

CallsTyped ==
    /\ waiting \in [Clients -> [call : {"none", "join", "sync"}, member : MemberIds \cup {NoMember}]]
    /\ DOMAIN answer = Clients /\ answer = [c \in Clients |-> answer[c]]

LEMMA GroupKept == ASSUME GroupOK, UNCHANGED groupState, CallsTyped' PROVE GroupOK'
BY DEF GroupOK, groupState, CallsTyped

LEMMA PrepareOK ==
    ASSUME GroupOK, NEW ms \in SUBSET MemberIds, IsFiniteSet(ms), NEW js \in SUBSET ms,
           Group!Prepare(ms, js), leader' \in ms \cup {NoMember}, CallsTyped'
    PROVE  GroupOK'
BY DEF GroupOK, Group!Prepare, CallsTyped

LEMMA HangupOK == ASSUME Constants, GroupOK, Group!Hangup(self) PROVE CallsTyped'
BY DEF GroupOK, Constants, Group!Hangup, Group!NoCall, CallsTyped

(* A JoinGroup request: id is known or new. *)
LEMMA JoinArrivesOK ==
    ASSUME Constants, GroupOK,
           NEW id \in MemberIds \cup {NoMember}, NEW newId, id = NoMember => newId \in MemberIds,
           Group!JoinArrives(self, id, newId)
    PROVE  GroupOK'
<1> DEFINE member == IF id = NoMember THEN newId ELSE id
<1>1. member \in MemberIds
  OBVIOUS
<1>2. waiting' = [waiting EXCEPT ![self] = [call |-> "join", member |-> member]]
  BY DEF Group!JoinArrives
<1>3. waiting' \in [Clients -> [call : {"none", "join", "sync"}, member : MemberIds \cup {NoMember}]]
  BY <1>1, <1>2 DEF GroupOK, Constants
<1>4. CASE UNCHANGED groupState
  <2>1. CallsTyped'
    BY <1>3, <1>4 DEF Group!JoinArrives, Group!Prepare, Group!Interrupted, CallsTyped, GroupOK
  <2>2. QED
    BY <1>4, <2>1, GroupKept
<1>5. CASE /\ Group!Prepare(members \cup {member},
                            IF phase = "preparing" THEN joined \cup {member} ELSE {member})
           /\ answer' = Group!Interrupted
           /\ UNCHANGED leader
  <2>1. CallsTyped'
    BY <1>3, <1>5 DEF Group!Interrupted, CallsTyped
  <2>2. IsFiniteSet(members \cup {member})
    BY FS_AddElement DEF GroupOK
  <2>3. QED
    BY <1>1, <1>5, <2>1, <2>2, PrepareOK DEF GroupOK
<1>6. QED
  BY <1>4, <1>5 DEF Group!JoinArrives, Group!group, groupState

(* The assignment a leader sends is complete. *)
Sendable(given) ==
    /\ given \in [DOMAIN given -> SUBSET Partitions]
    /\ members \subseteq DOMAIN given
    /\ \A m, n \in members : m # n => given[m] \cap given[n] = {}

Spread(given) ==
    [m \in MemberIds |->
        IF m \notin members THEN {} ELSE IF m \in DOMAIN given THEN given[m] ELSE Empty]

LEMMA SpreadOK ==
    ASSUME GroupOK, NEW given, Sendable(given)
    PROVE  /\ Spread(given) \in [MemberIds -> SUBSET Partitions]
           /\ \A m, n \in MemberIds : m # n => Spread(given)[m] \cap Spread(given)[n] = {}
BY DEF Spread, Sendable, GroupOK

(* The cases of a SyncGroup request: an error, an assignment that is       *)
(* there, a wait for the leader, and the leader itself.                    *)
LEMMA SyncArrivesCases ==
    ASSUME NEW id, NEW g, NEW given, Group!SyncArrives(self, id, g, given)
    PROVE  /\ waiting' = [waiting EXCEPT ![self] = [call |-> "sync", member |-> id]]
           /\ \/ /\ UNCHANGED groupState
                 /\ \E error \in {ILLEGAL_GENERATION, UNKNOWN_MEMBER_ID, OtherError} :
                        answer' = [answer EXCEPT ![self] = Group!SyncAnswer(error, {})]
              \/ /\ UNCHANGED groupState
                 /\ id \in members /\ g = generation /\ phase = "stable"
                 /\ answer' = [answer EXCEPT ![self] = Group!SyncAnswer(0, assignment[id])]
              \/ /\ UNCHANGED <<groupState, answer>>
                 /\ id \in members /\ g = generation /\ phase \notin {"preparing", "stable"}
              \/ /\ id = leader /\ id \in members /\ g = generation
                 /\ phase \notin {"preparing", "stable"}
                 /\ phase' = "stable" /\ assignment' = Spread(given)
                 /\ answer' = [k \in Clients |->
                        IF k = self THEN Group!SyncAnswer(0, Spread(given)[id])
                        ELSE IF Group!Blocked(k, "sync")
                        THEN Group!SyncAnswer(0, Spread(given)[waiting[k].member])
                        ELSE answer[k]]
                 /\ UNCHANGED <<members, joined, generation, leader>>
<1> DEFINE error == Group!SyncError(id, g)
<1>1. waiting' = [waiting EXCEPT ![self] = [call |-> "sync", member |-> id]]
  BY DEF Group!SyncArrives
<1>2. error = (IF id \notin members THEN UNKNOWN_MEMBER_ID
               ELSE IF g # generation THEN ILLEGAL_GENERATION
               ELSE IF phase = "preparing" THEN OtherError ELSE 0)
  BY DEF Group!SyncError, Group!UNKNOWN_MEMBER_ID, Group!ILLEGAL_GENERATION,
         Group!REBALANCE_IN_PROGRESS, UNKNOWN_MEMBER_ID, ILLEGAL_GENERATION, OtherError
<1>3. CASE error # 0
  <2>1. /\ UNCHANGED groupState
        /\ answer' = [answer EXCEPT ![self] = Group!SyncAnswer(error, {})]
    BY <1>3 DEF Group!SyncArrives, Group!group, groupState
  <2>2. error \in {ILLEGAL_GENERATION, UNKNOWN_MEMBER_ID, OtherError}
    BY <1>2, <1>3
  <2>3. QED
    BY <1>1, <2>1, <2>2
<1>4. CASE error = 0
  <2>1. id \in members /\ g = generation /\ phase # "preparing"
    BY <1>2, <1>4 DEF UNKNOWN_MEMBER_ID, ILLEGAL_GENERATION, OtherError
  <2>2. CASE phase = "stable"
    BY <1>1, <1>4, <2>1, <2>2 DEF Group!SyncArrives, Group!group, groupState
  <2>3. CASE phase # "stable" /\ id # leader
    BY <1>1, <1>4, <2>1, <2>3 DEF Group!SyncArrives, Group!group, groupState
  <2>4. CASE phase # "stable" /\ id = leader
    BY <1>1, <1>4, <2>1, <2>4 DEF Group!SyncArrives, Spread
  <2>5. QED
    BY <2>2, <2>3, <2>4
<1>5. QED
  BY <1>3, <1>4

LEMMA CompleteJoinOK ==
    ASSUME GroupOK, NEW fresh \in Generations, Group!CompleteJoin(fresh)
    PROVE  GroupOK'
BY DEF GroupOK, Group!CompleteJoin

LEMMA ExpireOK == ASSUME GroupOK, NEW m, Group!Expire(m) PROVE GroupOK'
<1>1. /\ m \in members \ joined
      /\ leader' = (IF leader = m THEN NoMember ELSE leader)
      /\ UNCHANGED waiting
  BY DEF Group!Expire, Group!MayExpire
<1>2. IsFiniteSet(members \ {m})
  BY FS_RemoveElement DEF GroupOK
<1>3. leader' \in (members \ {m}) \cup {NoMember}
  BY <1>1 DEF GroupOK
<1>4. CASE Group!Prepare(members \ {m}, joined) /\ UNCHANGED answer
  BY <1>1, <1>2, <1>3, <1>4, PrepareOK DEF GroupOK, CallsTyped
<1>5. CASE Group!Prepare(members \ {m}, {}) /\ answer' = Group!Interrupted
  BY <1>1, <1>2, <1>3, <1>5, PrepareOK DEF GroupOK, CallsTyped, Group!Interrupted
<1>6. QED
  BY <1>4, <1>5 DEF Group!Expire

(* What the client sends. *)
LEMMA JoinSentIds ==
    ASSUME ClientOK, NEW freeIds \in SUBSET MemberIds, JoinSent(freeIds)
    PROVE  /\ In("JoinGroup") /\ waiting[self].call = "none" /\ UNCHANGED vars
           /\ RequestedMember \in MemberIds \cup {NoMember}
           /\ \E newId :
                /\ RequestedMember = NoMember => newId \in freeIds
                /\ Group!JoinArrives(self, RequestedMember, newId)
BY DEF JoinSent, RequestedMember, ClientOK, Inv, TypeOK, Group!NoCall

Given == IF amIGroupLeader_ THEN member_partitions_ ELSE [m \in {} |-> {}]

LEMMA GivenSendable ==
    ASSUME ClientOK, phase = "completing", generation_id_ = generation, member_id_ = leader
    PROVE  Sendable(Given)
BY DEF ClientOK, MemberOK, Leading, Inv, TypeOK, Given, Sendable

LEMMA SyncSentOK == ASSUME Constants, ClientOK, GroupOK, SyncSent PROVE GroupOK'
<1>1. Group!SyncArrives(self, member_id_, generation_id_, Given)
  BY DEF SyncSent, Given
<1>2. waiting' = [waiting EXCEPT ![self] = [call |-> "sync", member |-> member_id_]]
  BY <1>1, SyncArrivesCases
<1>3. waiting' \in [Clients -> [call : {"none", "join", "sync"}, member : MemberIds \cup {NoMember}]]
  BY <1>2 DEF GroupOK, Constants, ClientOK, Inv, TypeOK
<1>4. CASE UNCHANGED groupState /\ \E r : answer' = [answer EXCEPT ![self] = r]
  <2>1. CallsTyped'
    BY <1>3, <1>4 DEF CallsTyped, GroupOK
  <2>2. QED
    BY <1>4, <2>1, GroupKept
<1>5. CASE UNCHANGED <<groupState, answer>>
  BY <1>3, <1>5, GroupKept DEF CallsTyped, GroupOK
<1>6. CASE /\ member_id_ = leader /\ generation_id_ = generation
           /\ phase \notin {"preparing", "stable"}
           /\ phase' = "stable" /\ assignment' = Spread(Given)
           /\ \E r : answer' = [k \in Clients |-> r[k]]
           /\ UNCHANGED <<members, joined, generation, leader>>
  <2>1. Sendable(Given)
    BY <1>6, GivenSendable DEF GroupOK
  <2>2. /\ assignment' \in [MemberIds -> SUBSET Partitions]
        /\ \A m, n \in MemberIds : m # n => assignment'[m] \cap assignment'[n] = {}
    BY <1>6, <2>1, SpreadOK
  <2>3. QED
    BY <1>3, <1>6, <2>2 DEF GroupOK
<1>7. CASE /\ UNCHANGED groupState
           /\ \/ \E error : answer' = [answer EXCEPT ![self] = Group!SyncAnswer(error, {})]
              \/ answer' = [answer EXCEPT ![self] = Group!SyncAnswer(0, assignment[member_id_])]
  BY <1>4, <1>7
<1>8. CASE /\ member_id_ = leader /\ generation_id_ = generation
           /\ phase \notin {"preparing", "stable"}
           /\ phase' = "stable" /\ assignment' = Spread(Given)
           /\ answer' = [k \in Clients |->
                        IF k = self THEN Group!SyncAnswer(0, Spread(Given)[member_id_])
                        ELSE IF Group!Blocked(k, "sync")
                        THEN Group!SyncAnswer(0, Spread(Given)[waiting[k].member])
                        ELSE answer[k]]
           /\ UNCHANGED <<members, joined, generation, leader>>
  <2> DEFINE r == [k \in Clients |->
                        IF k = self THEN Group!SyncAnswer(0, Spread(Given)[member_id_])
                        ELSE IF Group!Blocked(k, "sync")
                        THEN Group!SyncAnswer(0, Spread(Given)[waiting[k].member])
                        ELSE answer[k]]
  <2>1. answer' = [k \in Clients |-> r[k]]
    BY <1>8
  <2>2. QED
    BY <1>6, <1>8, <2>1
<1>9. QED
  BY <1>1, <1>5, <1>7, <1>8, SyncArrivesCases

LEMMA GroupStep ==
    ASSUME Constants, ClientOK, GroupOK, NEW freeIds \in SUBSET MemberIds, ClientNext(freeIds)
    PROVE  GroupOK'
<1>1. ASSUME UNCHANGED groupVars PROVE GroupOK'
  BY <1>1, GroupKept DEF groupVars, groupState, CallsTyped, GroupOK
<1>2. CASE Connect \/ InRound
  BY <1>1, <1>2, ConnectShared, RoundShared
<1>3. CASE JoinSent(freeIds)
  BY <1>3, JoinSentIds, JoinArrivesOK
<1>4. CASE SyncSent
  BY <1>4, SyncSentOK
<1>5. CASE Joined \/ JoinLost \/ Synced \/ SyncLost
  <2>1. Group!Hangup(self) /\ UNCHANGED groupState
    BY <1>5 DEF Joined, JoinLost, Synced, SyncLost
  <2>2. QED
    BY <2>1, HangupOK, GroupKept
<1>6. QED
  BY <1>2, <1>3, <1>4, <1>5, Split

-----------------------------------------------------------------------------
(* The client and its calls *)

(* Nothing but the client's place in the state machine and its log changes.*)
LEMMA QuietOK ==
    ASSUME MemberOK, UNCHANGED <<groupVars, session>>, waiting[self].call = "none",
           In("PartOfGroup")' => In("PartOfGroup") /\ UNCHANGED my_partitions_id_,
           current_state_' # "Initial" => all_partitions_' = Metadata.leader
    PROVE  MemberOK'
<1>1. UNCHANGED <<phase, members, generation, leader, assignment, waiting, answer,
                  generation_id_, member_id_, amIGroupLeader_, member_partitions_>>
  BY DEF groupVars, groupState, session
<1>2. Calls'
  BY <1>1 DEF MemberOK, Calls
<1>3. Holding'
  BY <1>1 DEF MemberOK, Holding, Current
<1>4. Leading'
  BY <1>1 DEF MemberOK, Leading
<1>5. MetadataRead'
  BY DEF MetadataRead, Metadata, broker
<1>6. QED
  BY <1>2, <1>3, <1>4, <1>5 DEF MemberOK

LEMMA RoundMember == ASSUME Constants, ClientOK, GroupOK, LogOK, InRound PROVE MemberOK'
<1>1. In("PartOfGroup") /\ UNCHANGED <<all_partitions_, owned, session>>
  BY RoundOwn
<1>2. waiting[self].call = "none"
  BY <1>1 DEF ClientOK, MemberOK, Calls, GroupOK, Constants, In
<1>3. all_partitions_' = Metadata.leader
  BY <1>1 DEF ClientOK, MemberOK, MetadataRead, In
<1>4. QED
  BY <1>1, <1>2, <1>3, QuietOK, RoundShared DEF ClientOK, owned

(* Connecting is done with the metadata read. *)
LEMMA ConnectMember == ASSUME Constants, ClientOK, GroupOK, Connect PROVE MemberOK'
<1>1. In("Initial") \/ In("DiscoverCoordinator")
  BY DEF Connect, InitialStartup, InitialRefresh, DiscoverCoordinator, FetchMetadataFails,
         DiscoverCoordinatorFails
<1>2. waiting[self].call = "none"
  BY <1>1 DEF ClientOK, MemberOK, Calls, GroupOK, Constants, In
<1>3. current_state_' # "PartOfGroup"
  BY <1>1 DEF Connect, InitialStartup, InitialRefresh, DiscoverCoordinator, FetchMetadataFails,
         DiscoverCoordinatorFails, Terminate, Goto, control, In
<1>4. current_state_' # "Initial" => all_partitions_' = Metadata.leader
  <2>1. Metadata.brokers # {} /\ broker \in Metadata.brokers /\ ~Metadata.topicError
    BY BrokerIs DEF Metadata, Constants
  <2>2. ASSUME NEW b \in alive_brokers_, InitialStartup(b, Metadata)
        PROVE  all_partitions_' = Metadata.leader
    BY <2>1, <2>2 DEF InitialStartup, ParseMetadata
  <2>3. ASSUME NEW b \in alive_brokers_, InitialRefresh(b, Metadata, broker)
        PROVE  all_partitions_' = Metadata.leader
    BY <2>1, <2>3 DEF InitialRefresh, ParseMetadata
  <2>4. ASSUME NEW b \in alive_brokers_,
               FetchMetadataFails(b) \/ DiscoverCoordinatorFails(b) \/ DiscoverCoordinator(b, broker)
        PROVE  current_state_' # "Initial" => all_partitions_' = Metadata.leader
    BY <2>4 DEF FetchMetadataFails, DiscoverCoordinatorFails, DiscoverCoordinator, Goto,
                control, In, ClientOK, MemberOK, MetadataRead
  <2>5. QED
    BY <2>2, <2>3, <2>4 DEF Connect
<1>5. QED
  BY <1>2, <1>3, <1>4, ConnectShared, QuietOK DEF ClientOK, In

(* A JoinGroup request: the answer to a known member repeats the           *)
(* generation, the one to an unknown member has none.                      *)
LEMMA JoinSentMember ==
    ASSUME Constants, ClientOK, GroupOK, NEW freeIds \in SUBSET MemberIds, JoinSent(freeIds)
    PROVE  MemberOK'
<1>1. PICK newId :
        /\ RequestedMember = NoMember => newId \in freeIds
        /\ Group!JoinArrives(self, RequestedMember, newId)
  BY JoinSentIds
<1> DEFINE id == RequestedMember
           member == IF id = NoMember THEN newId ELSE id
<1>2. /\ In("JoinGroup") /\ waiting[self].call = "none" /\ answer[self] = None
      /\ id \in MemberIds \cup {NoMember} /\ member \in MemberIds
      /\ UNCHANGED <<vars, generation, assignment, leader>>
  BY <1>1, JoinSentIds DEF ClientOK, MemberOK, Calls, Group!JoinArrives, Group!Prepare, Group!group
<1>3. /\ UNCHANGED <<current_state_, event_, process_, member_id_, generation_id_,
                     amIGroupLeader_, member_partitions_, all_partitions_>>
      /\ current_state_ = "JoinGroup"
  BY <1>2 DEF vars, control, session, cluster, In
<1>4. waiting'[self] = [call |-> "join", member |-> member]
  BY <1>1 DEF Group!JoinArrives, GroupOK, Constants
<1>5. Holding' /\ MetadataRead'
  BY <1>3 DEF Holding, MetadataRead, In, MemberOK, ClientOK, Metadata, broker
<1>6. In("JoinGroup")' /\ RequestedMember' = id
  BY <1>2, <1>3 DEF In, RequestedMember
<1>7. CASE /\ id \notin members \cup {NoMember}
           /\ answer'[self] = Group!JoinAnswer(NoGeneration, id, {})
           /\ UNCHANGED groupState
  <2>1. JoinAnswered'
    BY <1>2, <1>4, <1>6, <1>7, IdsAssumption DEF JoinAnswered, Group!JoinAnswer, Group!JoinAnswers,
       groupState, GroupOK
  <2>2. Leading'
    BY <1>3, <1>7 DEF ClientOK, MemberOK, Leading, groupState
  <2>3. QED
    BY <1>2, <1>4, <1>5, <1>6, <2>1, <2>2 DEF MemberOK, Calls
<1>8. CASE /\ id \in members /\ phase \in {"completing", "stable"}
           /\ answer'[self] = Group!JoinAnswer(generation, id, IF id = leader THEN members ELSE {})
           /\ UNCHANGED groupState
  <2>1. JoinAnswered'
    BY <1>2, <1>4, <1>6, <1>8, IdsAssumption DEF JoinAnswered, Group!JoinAnswer, Group!JoinAnswers,
       groupState, GroupOK
  <2>2. Leading'
    BY <1>3, <1>8 DEF ClientOK, MemberOK, Leading, groupState
  <2>3. id # NoMember
    BY <1>8, IdsAssumption DEF GroupOK
  <2>4. QED
    BY <1>2, <1>4, <1>5, <1>6, <2>1, <2>2, <2>3 DEF MemberOK, Calls
<1>9. CASE /\ phase' = "preparing" /\ answer' = Group!Interrupted
  <2>1. answer'[self] = None
    BY <1>2, <1>9 DEF Group!Interrupted, Group!Blocked, Constants
  <2>2. Leading'
    BY <1>9 DEF Leading
  <2>3. QED
    BY <1>2, <1>4, <1>5, <1>6, <2>1, <2>2 DEF MemberOK, Calls
<1>10. QED
  BY <1>1, <1>7, <1>8, <1>9 DEF Group!JoinArrives, Group!Prepare, Group!group, groupState, GroupOK, Constants

(* A partition is in one share only. *)
LEMMA SharesApart ==
    ASSUME NEW n \in Nat, NEW k \in Nat, NEW i \in 1 .. k, NEW j \in 1 .. k, i < j
    PROVE  Share(i, n, k) \cap Share(j, n, k) = {}
<1> DEFINE q == n \div k
           r == n % k
<1>1. k \in Nat \ {0} /\ i \in Nat \ {0} /\ j \in Nat \ {0} /\ i <= j - 1
  OBVIOUS
<1>2. q \in Nat /\ r \in Nat
  BY <1>1
<1>3. /\ DealtBefore(i, n, k) = (i - 1) * q + (IF i - 1 <= r THEN i - 1 ELSE r)
      /\ DealtBefore(j, n, k) = (j - 1) * q + (IF j - 1 <= r THEN j - 1 ELSE r)
      /\ Quota(i, n, k) = q + (IF i <= r THEN 1 ELSE 0)
  BY DEF DealtBefore, Quota
<1> HIDE DEF q, r
<1>4. i * q = (i - 1) * q + q /\ (i - 1) * q \in Nat
  BY <1>1, <1>2
<1>5. i * q <= (j - 1) * q /\ (j - 1) * q \in Nat
  BY <1>1, <1>2
<1>6. DealtBefore(i, n, k) + Quota(i, n, k) <= DealtBefore(j, n, k)
  BY <1>1, <1>2, <1>3, <1>4, <1>5
<1>7. DealtBefore(i, n, k) \in Nat /\ DealtBefore(j, n, k) \in Nat /\ Quota(i, n, k) \in Nat
  BY <1>1, <1>2, <1>3, <1>4, <1>5
<1>8. QED
  BY <1>6, <1>7 DEF Share

(* A list of the members in any order: PartitionAssignment gives each an   *)
(* entry, and a partition to one of them.                                  *)
LEMMA AssignmentApart ==
    ASSUME NEW old, NEW S, IsFiniteSet(S),
           NEW memberRank \in Bijection(S, 1 .. Cardinality(S)),
           NEW partitionRank, IsFiniteSet(DOMAIN partitionRank),
           NEW m \in S, NEW n \in S, m # n
    PROVE  LET given == PartitionAssignment(old, memberRank, partitionRank)
           IN  S \subseteq DOMAIN given /\ given[m] \cap given[n] = {}
<1> DEFINE given == PartitionAssignment(old, memberRank, partitionRank)
           k == Cardinality(S)
           l == Cardinality(DOMAIN partitionRank)
<1>1. DOMAIN memberRank = S
  BY DEF Bijection, Injection
<1>2. memberRank[m] \in 1 .. k /\ memberRank[n] \in 1 .. k /\ memberRank[m] # memberRank[n]
  BY DEF Bijection, Injection, IsInjective
<1>3. k \in Nat /\ l \in Nat
  BY FS_CardinalityType
<1>4. S \subseteq DOMAIN given
  BY <1>1 DEF PartitionAssignment
<1>5. /\ given[m] = {p \in DOMAIN partitionRank : partitionRank[p] \in Share(memberRank[m], l, k)}
      /\ given[n] = {p \in DOMAIN partitionRank : partitionRank[p] \in Share(memberRank[n], l, k)}
  BY <1>1 DEF PartitionAssignment
<1>6. Share(memberRank[m], l, k) \cap Share(memberRank[n], l, k) = {}
  <2>1. memberRank[m] < memberRank[n] \/ memberRank[n] < memberRank[m]
    BY <1>2, <1>3
  <2>2. QED
    BY <1>2, <1>3, <2>1, SharesApart
<1>7. QED
  BY <1>4, <1>5, <1>6

LEMMA HungUp ==
    ASSUME Constants, GroupOK, Group!Hangup(self)
    PROVE  waiting'[self] = Group!NoCall /\ answer'[self] = None
BY DEF Constants, GroupOK, Group!Hangup

(* A client without a call that does not fetch: only what it knows of its  *)
(* generation is left to show.                                             *)
LEMMA IdleMember ==
    ASSUME Constants, GroupOK, Group!Hangup(self), ~In("PartOfGroup")', Leading',
           current_state_' # "Initial" => all_partitions_' = Metadata.leader
    PROVE  MemberOK'
<1>1. Calls'
  BY HungUp DEF Calls, Group!NoCall
<1>2. Holding'
  BY DEF Holding
<1>3. MetadataRead'
  BY DEF MetadataRead, Metadata, broker
<1>4. QED
  BY <1>1, <1>2, <1>3 DEF MemberOK

LEMMA JoinedMember == ASSUME Constants, ClientOK, GroupOK, Joined PROVE MemberOK'
<1> DEFINE r == answer[self]
<1>1. PICK memberRank \in Bijection(r.members, 1 .. Cardinality(r.members)) :
            JoinGroup([generation |-> r.generation, member |-> r.member,
                       memberRank |-> memberRank], AnyRank(Partitions))
  BY DEF Joined
<1>2. /\ In("JoinGroup") /\ JoinAnswered /\ all_partitions_ = Metadata.leader
      /\ Group!Hangup(self) /\ UNCHANGED groupState
  BY DEF Joined, ClientOK, MemberOK, Calls, MetadataRead, In
<1>3. /\ generation_id_' = r.generation
      /\ member_id_' = r.member
      /\ amIGroupLeader_' = (DOMAIN memberRank # {})
      /\ member_partitions_' = PartitionAssignment(member_partitions_, memberRank, AnyRank(Partitions))
      /\ UNCHANGED all_partitions_ /\ current_state_' = "SyncGroup"
  BY <1>1 DEF JoinGroup, Goto, cluster
<1>4. DOMAIN AnyRank(Partitions) = Partitions /\ DOMAIN memberRank = r.members
  BY AnyRankIs DEF Bijection, Injection
<1>5. Leading'
  <2> SUFFICES ASSUME phase = "completing", r.generation = generation, r.member = leader
               PROVE  /\ amIGroupLeader_'
                      /\ members \subseteq DOMAIN member_partitions_'
                      /\ \A m, n \in members : m # n =>
                            member_partitions_'[m] \cap member_partitions_'[n] = {}
    BY <1>2, <1>3 DEF Leading, groupState
  <2>1. r.members = members /\ leader \in members /\ IsFiniteSet(members)
    BY <1>2 DEF JoinAnswered, GroupOK
  <2>2. amIGroupLeader_'
    BY <1>3, <1>4, <2>1
  <2>3. members \subseteq DOMAIN member_partitions_'
    BY <1>3, <1>4, <2>1 DEF PartitionAssignment
  <2>4. IsFiniteSet(DOMAIN AnyRank(Partitions))
    BY <1>4 DEF Constants
  <2>5. \A m, n \in members : m # n => member_partitions_'[m] \cap member_partitions_'[n] = {}
    BY <1>1, <1>3, <2>1, <2>4, AssignmentApart
  <2>6. QED
    BY <2>2, <2>3, <2>5
<1>6. QED
  BY <1>2, <1>3, <1>5, IdleMember DEF In

LEMMA JoinLostMember == ASSUME Constants, ClientOK, GroupOK, JoinLost PROVE MemberOK'
<1>1. /\ Group!Hangup(self) /\ UNCHANGED <<groupState, session, all_partitions_>>
      /\ In("JoinGroup") /\ current_state_' = "SyncGroup"
  BY DEF JoinLost, JoinGroupFails, Goto
<1>2. Leading'
  BY <1>1 DEF ClientOK, MemberOK, Leading, groupState, session
<1>3. QED
  BY <1>1, <1>2, IdleMember DEF ClientOK, MemberOK, MetadataRead, In

LEMMA SyncLostMember == ASSUME Constants, ClientOK, GroupOK, SyncLost PROVE MemberOK'
<1>1. /\ Group!Hangup(self) /\ UNCHANGED <<groupState, session, all_partitions_>>
      /\ In("SyncGroup") /\ current_state_' \in {"SyncGroup", "Initial"}
  BY DEF SyncLost, SyncGroupSendFails, SyncGroupReceiveFails, Goto, control, In
<1>2. Leading'
  BY <1>1 DEF ClientOK, MemberOK, Leading, groupState, session
<1>3. QED
  BY <1>1, <1>2, IdleMember DEF ClientOK, MemberOK, MetadataRead, In

LEMMA SyncedMember == ASSUME Constants, ClientOK, GroupOK, Synced PROVE MemberOK'
<1>1. /\ Group!Hangup(self) /\ UNCHANGED <<groupState, session, all_partitions_>>
      /\ In("SyncGroup") /\ waiting[self].call = "sync" /\ answer[self] # None
  BY DEF Synced, SyncGroup, SyncGroupReceiveFails, cluster
<1>2. Leading'
  BY <1>1 DEF ClientOK, MemberOK, Leading, groupState, session
<1>3. CASE answer[self].error # 0
  <2>1. current_state_' = "Initial"
    BY <1>3 DEF Synced, SyncGroupReceiveFails, Goto
  <2>2. QED
    BY <1>1, <1>2, <2>1, IdleMember DEF In
<1>4. CASE answer[self].error = 0
  <2>1. SyncAnswered
    BY <1>1 DEF ClientOK, MemberOK, Calls
  <2>2. my_partitions_id_' = answer[self].assigned
    BY <1>4 DEF Synced, SyncGroup
  <2>3. Holding'
    BY <1>1, <1>4, <2>1, <2>2 DEF SyncAnswered, Holding, Current, groupState, session
  <2>4. MetadataRead'
    BY <1>1 DEF ClientOK, MemberOK, MetadataRead, Metadata, broker, In
  <2>5. Calls'
    BY <1>1, HungUp DEF Calls, Group!NoCall
  <2>6. QED
    BY <1>2, <2>3, <2>4, <2>5 DEF MemberOK
<1>5. QED
  BY <1>3, <1>4

LEMMA SyncSentMember == ASSUME Constants, ClientOK, GroupOK, SyncSent PROVE MemberOK'
<1>1. /\ In("SyncGroup") /\ waiting[self].call = "none" /\ answer[self] = None
      /\ UNCHANGED vars
      /\ Group!SyncArrives(self, member_id_, generation_id_, Given)
  BY DEF SyncSent, Given, Group!NoCall, ClientOK, MemberOK, Calls
<1>2. /\ UNCHANGED <<current_state_, event_, process_, member_id_, generation_id_,
                     amIGroupLeader_, member_partitions_, all_partitions_>>
      /\ current_state_ = "SyncGroup"
  BY <1>1 DEF vars, control, session, cluster, In
<1>3. waiting'[self] = [call |-> "sync", member |-> member_id_]
  BY <1>1, SyncArrivesCases DEF GroupOK, Constants
<1>4. Holding' /\ MetadataRead'
  BY <1>2 DEF Holding, MetadataRead, In, MemberOK, ClientOK, Metadata, broker
<1>5. In("SyncGroup")'
  BY <1>1, <1>2 DEF In
<1>6. CASE /\ UNCHANGED groupState
           /\ \E error \in {ILLEGAL_GENERATION, UNKNOWN_MEMBER_ID, OtherError} :
                    answer'[self] = Group!SyncAnswer(error, {})
  <2>1. PICK error \in {ILLEGAL_GENERATION, UNKNOWN_MEMBER_ID, OtherError} :
                answer'[self] = Group!SyncAnswer(error, {})
    BY <1>6
  <2>2. Group!SyncAnswer(error, {}) \in Group!SyncAnswers /\ error # 0
    BY DEF Group!SyncAnswer, Group!SyncAnswers, Group!ILLEGAL_GENERATION, ILLEGAL_GENERATION,
           Group!UNKNOWN_MEMBER_ID, UNKNOWN_MEMBER_ID, Group!REBALANCE_IN_PROGRESS, OtherError
  <2>3. answer'[self] # None /\ SyncAnswered'
    BY <2>1, <2>2 DEF SyncAnswered, Group!SyncAnswer, Constants
  <2>4. Leading'
    BY <1>2, <1>6 DEF ClientOK, MemberOK, Leading, groupState
  <2>5. QED
    BY <1>2, <1>3, <1>4, <1>5, <2>3, <2>4 DEF MemberOK, Calls
<1>7. CASE /\ phase' = "stable" /\ UNCHANGED <<members, generation>>
           /\ Current
           /\ answer'[self] = Group!SyncAnswer(0, assignment'[member_id_])
  <2>1. member_id_ \in MemberIds /\ generation_id_ \in Generations
    BY <1>7 DEF Current, GroupOK
  <2>2. assignment'[member_id_] \in SUBSET Partitions
    BY <2>1, SyncSentOK DEF GroupOK
  <2>3. Group!SyncAnswer(0, assignment'[member_id_]) \in Group!SyncAnswers
    BY <2>2 DEF Group!SyncAnswer, Group!SyncAnswers
  <2>4. answer'[self] # None /\ SyncAnswered'
    BY <1>2, <1>7, <2>1, <2>3 DEF SyncAnswered, Group!SyncAnswer, Constants
  <2>5. Leading'
    BY <1>7 DEF Leading
  <2>6. QED
    BY <1>2, <1>3, <1>4, <1>5, <2>4, <2>5 DEF MemberOK, Calls
<1>8. CASE /\ UNCHANGED <<groupState, answer>>
           /\ Current /\ phase = "completing"
  <2>1. Leading'
    BY <1>2, <1>8 DEF ClientOK, MemberOK, Leading, groupState
  <2>2. QED
    BY <1>1, <1>2, <1>3, <1>4, <1>5, <1>8, <2>1 DEF MemberOK, Calls, Current, groupState
<1>9. QED
  <2>1. \A v : [answer EXCEPT ![self] = v][self] = v
    BY DEF GroupOK, Constants
  <2>2. phase \notin {"preparing", "stable"} => phase = "completing"
    BY DEF GroupOK
  <2>3. self \in Clients /\ (member_id_ \in members => member_id_ \in MemberIds)
    BY DEF Constants, GroupOK
  <2>4. QED
    BY <1>1, <1>6, <1>7, <1>8, <2>1, <2>2, <2>3, SyncArrivesCases DEF Current, groupState

LEMMA MemberInit ==
    ASSUME Constants, ClientInit, Group!Init
    PROVE  ClientOK
<1>1. Inv
  BY InvInit DEF ClientInit
<1>2. /\ waiting[self] = Group!NoCall /\ answer[self] = None
      /\ phase = "preparing" /\ current_state_ = "Initial"
  BY DEF ClientInit, Init, Group!Init, Constants
<1>3. Calls /\ Holding /\ Leading /\ MetadataRead
  BY <1>2 DEF Calls, Holding, Leading, MetadataRead, In, Group!NoCall
<1>4. QED
  BY <1>1, <1>3 DEF ClientOK, MemberOK

LEMMA MemberStep ==
    ASSUME Constants, ClientOK, GroupOK, LogOK, NEW freeIds \in SUBSET MemberIds, ClientNext(freeIds)
    PROVE  MemberOK'
BY Split, RoundMember, ConnectMember, JoinSentMember, JoinedMember, JoinLostMember,
   SyncSentMember, SyncedMember, SyncLostMember

-----------------------------------------------------------------------------
(* What others do, as client c sees it: nothing, or the coordinator begins *)
(* or goes on with a round, which new members may have joined, or makes a  *)
(* generation, or gets the assignment.                                     *)

Nothing(c) == UNCHANGED <<groupState, waiting[c], answer[c]>>

Round(c, new) ==
    /\ phase' = "preparing"
    /\ members' \subseteq members \cup new
    /\ UNCHANGED <<generation, assignment, waiting[c]>>
    /\ \/ phase = "preparing" /\ UNCHANGED answer[c]
       \/ answer'[c] = IF Group!Blocked(c, "sync") THEN Group!SyncAnswer(OtherError, {}) ELSE answer[c]

Generation(c) ==
    /\ phase = "preparing" /\ phase' = "completing"
    /\ UNCHANGED <<members, assignment, waiting[c]>>
    /\ answer'[c] = IF Group!Blocked(c, "join")
                    THEN Group!JoinAnswer(generation', waiting[c].member,
                            IF waiting[c].member = leader' THEN members ELSE {})
                    ELSE answer[c]

Assigns(c) ==
    /\ phase = "completing" /\ phase' = "stable"
    /\ UNCHANGED <<members, generation, leader, waiting[c]>>
    /\ answer'[c] = IF Group!Blocked(c, "sync")
                    THEN Group!SyncAnswer(0, assignment'[waiting[c].member])
                    ELSE answer[c]

LEMMA OwnUnchanged ==
    ASSUME UNCHANGED vars
    PROVE  /\ UNCHANGED <<current_state_, event_, process_, all_partitions_, my_partitions_id_,
                          member_id_, generation_id_, amIGroupLeader_, member_partitions_>>
           /\ \A s : In(s)' = In(s)
           /\ UNCHANGED RequestedMember
           /\ MetadataRead => MetadataRead'
BY DEF vars, control, cluster, owned, session, In, RequestedMember, MetadataRead, Metadata, broker

LEMMA NothingElse == ASSUME MemberOK, UNCHANGED vars, Nothing(self) PROVE MemberOK'
<1>1. UNCHANGED <<phase, members, generation, leader, assignment, waiting[self], answer[self]>>
  BY DEF Nothing, groupState
<1>2. Calls' /\ Holding' /\ Leading'
  BY <1>1, OwnUnchanged DEF MemberOK, Calls, Holding, Leading, Current, JoinAnswered, SyncAnswered
<1>3. QED
  BY <1>2, OwnUnchanged DEF MemberOK

LEMMA RoundElse ==
    ASSUME Constants, MemberOK, UNCHANGED vars, NEW new, Round(self, new), member_id_ \notin new
    PROVE  MemberOK'
<1>1. Current' => Current
  BY OwnUnchanged DEF Current, Round
<1>2. Leading'
  BY DEF Leading, Round
<1>3. Holding'
  BY <1>1, OwnUnchanged DEF MemberOK, Holding, Current, Round
<1>4. CASE waiting[self].call = "sync" /\ answer[self] = None
  <2>1. answer'[self] = Group!SyncAnswer(OtherError, {})
    BY <1>4 DEF MemberOK, Calls, Round, Group!Blocked
  <2>2. Group!SyncAnswer(OtherError, {}) \in Group!SyncAnswers
    BY DEF Group!SyncAnswer, Group!SyncAnswers, OtherError, Group!REBALANCE_IN_PROGRESS
  <2>3. answer'[self] # None /\ SyncAnswered'
    BY <2>1, <2>2 DEF SyncAnswered, Group!SyncAnswer, Constants, OtherError
  <2>4. Calls'
    BY <1>4, <2>3, OwnUnchanged DEF MemberOK, Calls, Round
  <2>5. QED
    BY <1>2, <1>3, <2>4, OwnUnchanged DEF MemberOK
<1>5. CASE ~(waiting[self].call = "sync" /\ answer[self] = None)
  <2>1. UNCHANGED <<waiting[self], answer[self]>>
    BY <1>5 DEF Round, Group!Blocked
  <2>2. JoinAnswered => JoinAnswered'
    BY <2>1, OwnUnchanged DEF JoinAnswered, Round
  <2>3. SyncAnswered => SyncAnswered'
    BY <1>1, <2>1, OwnUnchanged DEF SyncAnswered, Round
  <2>4. Calls'
    BY <1>5, <2>1, <2>2, <2>3, OwnUnchanged DEF MemberOK, Calls
  <2>5. QED
    BY <1>2, <1>3, <2>4, OwnUnchanged DEF MemberOK
<1>6. QED
  BY <1>4, <1>5

(* A generation nobody knows or is being told. *)
LEMMA GenerationElse ==
    ASSUME Constants, MemberOK, GroupOK, GroupOK', UNCHANGED vars, Generation(self),
           generation' # generation_id_,
           waiting[self].call = "join" /\ answer[self] # None => generation' # answer[self].generation
    PROVE  MemberOK'
<1>1. ~Current'
  BY OwnUnchanged DEF Current
<1>2. Leading' /\ Holding'
  BY <1>1, OwnUnchanged DEF Leading, Holding
<1>3. CASE waiting[self].call = "join" /\ answer[self] = None
  <2> DEFINE list == IF waiting[self].member = leader' THEN members ELSE {}
             r    == Group!JoinAnswer(generation', waiting[self].member, list)
  <2>1. answer'[self] = r /\ UNCHANGED waiting[self]
    BY <1>3 DEF Generation, Group!Blocked
  <2>2. waiting[self].member \in MemberIds /\ generation' \in Generations /\ leader' \in members
    BY <1>3 DEF MemberOK, Calls, GroupOK, Generation
  <2>3. r \in Group!JoinAnswers
    BY <2>2 DEF Group!JoinAnswer, Group!JoinAnswers, GroupOK
  <2>4. answer'[self] # None /\ JoinAnswered'
    BY <2>1, <2>2, <2>3, IdsAssumption DEF JoinAnswered, Group!JoinAnswer, Constants, Generation
  <2>5. Calls'
    BY <1>3, <2>1, <2>4, OwnUnchanged DEF MemberOK, Calls
  <2>6. QED
    BY <1>2, <2>5, OwnUnchanged DEF MemberOK
<1>4. CASE ~(waiting[self].call = "join" /\ answer[self] = None)
  <2>1. UNCHANGED <<waiting[self], answer[self]>>
    BY <1>4 DEF Generation, Group!Blocked
  <2>2. ASSUME waiting[self].call = "join" PROVE JoinAnswered => JoinAnswered'
    BY <1>4, <2>1, <2>2, OwnUnchanged DEF JoinAnswered, Generation
  <2>3. SyncAnswered => SyncAnswered'
    BY <1>1, <2>1, OwnUnchanged DEF SyncAnswered
  <2>4. ~(waiting[self].call = "sync" /\ answer[self] = None)
    BY DEF MemberOK, Calls, Generation
  <2>5. Calls'
    BY <1>4, <2>1, <2>2, <2>3, <2>4, OwnUnchanged DEF MemberOK, Calls
  <2>6. QED
    BY <1>2, <2>5, OwnUnchanged DEF MemberOK
<1>5. QED
  BY <1>3, <1>4

(* A client that waits for its assignment is not left out. *)
LEMMA AssignsElse ==
    ASSUME Constants, MemberOK, GroupOK, GroupOK', UNCHANGED vars, Assigns(self)
    PROVE  MemberOK'
<1>1. UNCHANGED Current /\ phase = "completing" /\ phase' = "stable"
  BY OwnUnchanged DEF Current, Assigns
<1>2. Leading'
  BY <1>1 DEF Leading
<1>3. Holding'
  BY <1>1, OwnUnchanged DEF Holding, MemberOK
<1>4. CASE waiting[self].call = "sync" /\ answer[self] = None
  <2>1. Current /\ waiting[self].member = member_id_
    BY <1>4 DEF MemberOK, Calls
  <2>2. answer'[self] = Group!SyncAnswer(0, assignment'[member_id_]) /\ UNCHANGED waiting[self]
    BY <1>4, <2>1 DEF Assigns, Group!Blocked
  <2>3. member_id_ \in MemberIds /\ generation_id_ \in Generations
    BY <2>1 DEF Current, GroupOK
  <2>4. Group!SyncAnswer(0, assignment'[member_id_]) \in Group!SyncAnswers
    BY <2>3 DEF Group!SyncAnswer, Group!SyncAnswers, GroupOK
  <2>5. answer'[self] # None /\ SyncAnswered'
    BY <1>1, <2>2, <2>3, <2>4, OwnUnchanged DEF SyncAnswered, Group!SyncAnswer, Constants
  <2>6. Calls'
    BY <1>4, <2>2, <2>5, OwnUnchanged DEF MemberOK, Calls
  <2>7. QED
    BY <1>2, <1>3, <2>6, OwnUnchanged DEF MemberOK
<1>5. CASE ~(waiting[self].call = "sync" /\ answer[self] = None)
  <2>1. UNCHANGED <<waiting[self], answer[self]>>
    BY <1>5 DEF Assigns, Group!Blocked
  <2>2. JoinAnswered => JoinAnswered'
    BY <1>1, <2>1, OwnUnchanged DEF JoinAnswered
  <2>3. SyncAnswered => SyncAnswered'
    BY <1>1, <2>1, OwnUnchanged DEF SyncAnswered
  <2>4. Calls'
    BY <1>5, <2>1, <2>2, <2>3, OwnUnchanged DEF MemberOK, Calls
  <2>5. QED
    BY <1>2, <1>3, <2>4, OwnUnchanged DEF MemberOK
<1>6. QED
  BY <1>4, <1>5

-----------------------------------------------------------------------------
(* What the others see of a step of this client *)

LEMMA HangupSeen ==
    ASSUME GroupOK, Group!Hangup(self), UNCHANGED groupState, NEW c \in Clients \ {self}
    PROVE  Nothing(c)
BY DEF Group!Hangup, Nothing, GroupOK

LEMMA JoinSentSeen ==
    ASSUME ClientOK, GroupOK, NEW freeIds \in SUBSET MemberIds, JoinSent(freeIds),
           NEW c \in Clients \ {self}
    PROVE  Nothing(c) \/ Round(c, freeIds)
<1>1. PICK newId :
        /\ RequestedMember = NoMember => newId \in freeIds
        /\ Group!JoinArrives(self, RequestedMember, newId)
  BY JoinSentIds
<1> DEFINE id == RequestedMember
           member == IF id = NoMember THEN newId ELSE id
<1>2. UNCHANGED waiting[c]
  BY <1>1 DEF Group!JoinArrives, GroupOK
<1>3. CASE UNCHANGED groupState /\ \E r : answer' = [answer EXCEPT ![self] = r]
  BY <1>2, <1>3 DEF Nothing, GroupOK
<1>4. CASE /\ id \in members \cup {NoMember}
           /\ Group!Prepare(members \cup {member},
                            IF phase = "preparing" THEN joined \cup {member} ELSE {member})
           /\ answer' = Group!Interrupted
  <2>1. members' \subseteq members \cup freeIds
    BY <1>1, <1>4 DEF Group!Prepare
  <2>2. answer'[c] = IF Group!Blocked(c, "sync") THEN Group!SyncAnswer(OtherError, {}) ELSE answer[c]
    BY <1>4 DEF Group!Interrupted, Group!REBALANCE_IN_PROGRESS, OtherError
  <2>3. QED
    BY <1>2, <1>4, <2>1, <2>2 DEF Round, Group!Prepare
<1>5. QED
  BY <1>1, <1>3, <1>4 DEF Group!JoinArrives, Group!group, groupState

LEMMA SyncSentSeen ==
    ASSUME ClientOK, GroupOK, SyncSent, NEW c \in Clients \ {self}
    PROVE  Nothing(c) \/ Assigns(c)
<1>1. Group!SyncArrives(self, member_id_, generation_id_, Given)
  BY DEF SyncSent, Given
<1>2. UNCHANGED waiting[c]
  BY <1>1, SyncArrivesCases DEF GroupOK
<1>3. CASE UNCHANGED groupState /\ \E r : answer' = [answer EXCEPT ![self] = r]
  BY <1>2, <1>3 DEF Nothing, GroupOK
<1>4. CASE UNCHANGED <<groupState, answer>>
  BY <1>2, <1>4 DEF Nothing
<1>5. CASE /\ phase \notin {"preparing", "stable"}
           /\ phase' = "stable" /\ assignment' = Spread(Given)
           /\ answer' = [k \in Clients |->
                        IF k = self THEN Group!SyncAnswer(0, Spread(Given)[member_id_])
                        ELSE IF Group!Blocked(k, "sync")
                        THEN Group!SyncAnswer(0, Spread(Given)[waiting[k].member])
                        ELSE answer[k]]
           /\ UNCHANGED <<members, joined, generation, leader>>
  <2>1. answer'[c] = IF Group!Blocked(c, "sync")
                     THEN Group!SyncAnswer(0, assignment'[waiting[c].member]) ELSE answer[c]
    BY <1>5
  <2>2. QED
    BY <1>2, <1>5, <2>1 DEF Assigns, GroupOK
<1>6. QED
  BY <1>1, <1>3, <1>4, <1>5, SyncArrivesCases

LEMMA Seen ==
    ASSUME Constants, ClientOK, GroupOK, NEW freeIds \in SUBSET MemberIds, ClientNext(freeIds),
           NEW c \in Clients \ {self}
    PROVE  Nothing(c) \/ Round(c, freeIds) \/ Assigns(c)
<1>1. CASE Connect \/ InRound
  BY <1>1, ConnectShared, RoundShared DEF Nothing, groupVars
<1>2. CASE Joined \/ JoinLost \/ Synced \/ SyncLost
  BY <1>2, HangupSeen DEF Joined, JoinLost, Synced, SyncLost
<1>3. QED
  BY <1>1, <1>2, JoinSentSeen, SyncSentSeen, Split

(* The ids a client has, or will have when its call is answered.           *)
Ids == {member_id_, waiting[self].member}

LEMMA IdsStep ==
    ASSUME Constants, ClientOK, GroupOK, LogOK, NEW freeIds \in SUBSET MemberIds, ClientNext(freeIds)
    PROVE  Ids' \subseteq Ids \cup freeIds \cup {NoMember}
<1>1. CASE Connect \/ InRound
  BY <1>1, ConnectShared, RoundShared, RoundOwn DEF Ids, groupVars, session
<1>2. CASE JoinSent(freeIds)
  <2>1. PICK newId :
        /\ RequestedMember = NoMember => newId \in freeIds
        /\ Group!JoinArrives(self, RequestedMember, newId)
    BY <1>2, JoinSentIds
  <2>2. waiting'[self].member = IF RequestedMember = NoMember THEN newId ELSE RequestedMember
    BY <2>1 DEF Group!JoinArrives, GroupOK, Constants
  <2>3. UNCHANGED member_id_
    BY <1>2, JoinSentIds, OwnUnchanged
  <2>4. RequestedMember \in {member_id_, NoMember}
    BY DEF RequestedMember
  <2>5. QED
    BY <2>1, <2>2, <2>3, <2>4 DEF Ids
<1>3. CASE Joined
  <2>1. member_id_' = answer[self].member
    BY <1>3 DEF Joined, JoinGroup
  <2>2. JoinAnswered
    BY <1>3 DEF Joined, ClientOK, MemberOK, Calls
  <2>3. waiting'[self] = Group!NoCall
    BY <1>3, HungUp DEF Joined
  <2>4. QED
    BY <2>1, <2>2, <2>3 DEF Ids, JoinAnswered, Group!NoCall
<1>4. CASE JoinLost \/ Synced \/ SyncLost
  <2>1. UNCHANGED member_id_ /\ waiting'[self] = Group!NoCall
    BY <1>4, HungUp DEF JoinLost, Synced, SyncLost, JoinGroupFails, SyncGroup,
       SyncGroupReceiveFails, SyncGroupSendFails, session
  <2>2. QED
    BY <2>1 DEF Ids, Group!NoCall
<1>5. CASE SyncSent
  <2>1. waiting'[self] = [call |-> "sync", member |-> member_id_]
    BY <1>5, SyncArrivesCases DEF SyncSent, GroupOK, Constants
  <2>2. UNCHANGED member_id_
    BY <1>5, SentStep, OwnUnchanged
  <2>3. QED
    BY <2>1, <2>2 DEF Ids
<1>6. QED
  BY <1>1, <1>2, <1>3, <1>4, <1>5, Split

-----------------------------------------------------------------------------
(* The log *)

(* Every message before offset k has been printed, or skipped by a reset.  *)
Covered(p, k) == \A o \in Offsets : o < k => <<p, o>> \in printed \/ o < resetTo[p]

(* The offsets this client fetches from or is committing are covered. *)
Covers ==
    \A p \in Partitions :
        /\ partition_offset_[p] # Absent => Covered(p, partition_offset_[p])
        /\ committing_[p] # Absent => Covered(p, committing_[p])

LogCovered ==
    \A p \in Partitions : Covered(p, committed[p]) /\ resetTo[p] <= log[p]

(* What is covered stays covered. *)
Grows ==
    /\ printed \subseteq printed'
    /\ \A p \in Partitions : resetTo[p] <= resetTo'[p] /\ log[p] <= log'[p]

LEMMA CoveredGrows ==
    ASSUME LogOK, LogOK', Grows, NEW p \in Partitions, NEW k, Covered(p, k)
    PROVE  \A o \in Offsets : o < k => <<p, o>> \in printed' \/ o < resetTo'[p]
BY OffsetAssumption DEF LogOK, Grows, Covered, Offsets, UnknownOffset

(* The client learns no offset. *)
LearnsNothing ==
    /\ UNCHANGED partition_offset_
    /\ committing_' = committing_ \/ committing_' = NoCommit

LEMMA LearnsNothingCovers ==
    ASSUME Covers, LogOK, LogOK', Grows, LearnsNothing
    PROVE  Covers'
<1> SUFFICES ASSUME NEW p \in Partitions
             PROVE  /\ partition_offset_'[p] # Absent => Covered(p, partition_offset_[p])'
                    /\ committing_'[p] # Absent => Covered(p, committing_[p])'
  BY DEF Covers
<1>1. partition_offset_'[p] # Absent => Covered(p, partition_offset_[p])'
  BY CoveredGrows DEF Covers, LearnsNothing, Covered
<1>2. committing_'[p] # Absent => Covered(p, committing_[p])'
  BY CoveredGrows DEF Covers, LearnsNothing, NoCommit, Covered
<1>3. QED
  BY <1>1, <1>2

LEMMA NothingGrows == ASSUME LogOK, UNCHANGED <<printed, resetTo, log>> PROVE Grows
BY OffsetAssumption DEF LogOK, Grows, Offsets, UnknownOffset

LEMMA StoresCovered ==
    ASSUME LogOK, LogCovered, Covers, Stores, UNCHANGED <<printed, resetTo, log>>
    PROVE  LogCovered'
BY DEF LogCovered, Covers, Stores, Covered

LEMMA LogCoveredKept ==
    ASSUME LogOK, LogOK', LogCovered, Grows, UNCHANGED <<committed, resetTo>>
    PROVE  LogCovered'
BY CoveredGrows, OffsetAssumption DEF LogCovered, Grows, Covered, LogOK, Offsets, UnknownOffset

(* The committed offsets are taken over; nothing is known of a partition   *)
(* the group has no offset for.                                            *)
LEMMA AskOffsetsCovers ==
    ASSUME ClientOK, LogOK, Covers, LogCovered, AskOffsets
    PROVE  Covers'
<1>1. UNCHANGED <<printed, resetTo, log>>
  BY DEF AskOffsets, logVars
<1>2. CASE LearnsNothing
  BY <1>1, <1>2 DEF Covers, LearnsNothing, NoCommit, Covered
<1>3. CASE OffsetFetch(Positions)
  <2>1. \A p \in Partitions :
            \/ partition_offset_'[p] = partition_offset_[p]
            \/ partition_offset_'[p] = committed[p]
    BY <1>3 DEF OffsetFetch, Positions, ClientOK, Inv, TypeOK
  <2>2. committing_' = committing_ \/ committing_' = NoCommit
    BY <1>3 DEF OffsetFetch, ToResolve, ToFetch, Goto, Terminate, control, loop
  <2>3. QED
    BY <1>1, <2>1, <2>2 DEF Covers, LogCovered, Covered, NoCommit
<1>4. CASE OffsetFetchFails \/ OffsetFetchError
  BY <1>2, <1>4 DEF OffsetFetchFails, OffsetFetchError, ToFetch, Goto, LearnsNothing
<1>5. QED
  BY <1>3, <1>4 DEF AskOffsets

(* A reset to the newest offset skips what it passes. *)
LEMMA ResolveCovers ==
    ASSUME ClientOK, LogOK, LogOK', Covers, LogCovered, NEW p \in unresolved_, Resolve(p)
    PROVE  Covers' /\ LogCovered' /\ Grows
<1>1. p \in Partitions
  BY DEF ClientOK, Inv, TypeOK
<1>2. \A q \in Partitions : resetTo[q] \in Int /\ log[q] \in Int
  BY OffsetAssumption DEF LogOK, Offsets, UnknownOffset
<1>3. CASE ResolveOffset(p, log[p]) /\ resetTo' = [resetTo EXCEPT ![p] = log[p]]
           /\ UNCHANGED <<committed, printed, log>>
  <2>1. Grows
    BY <1>1, <1>2, <1>3 DEF Grows, LogCovered, LogOK
  <2>2. LogCovered'
    <3> SUFFICES ASSUME NEW q \in Partitions
                 PROVE  Covered(q, committed[q])' /\ resetTo'[q] <= log'[q]
      BY DEF LogCovered
    <3>1. Covered(q, committed[q])'
      BY <1>3, <2>1, CoveredGrows DEF LogCovered, Covered
    <3>2. resetTo'[q] <= log'[q]
      BY <1>1, <1>2, <1>3 DEF LogCovered, LogOK
    <3>3. QED
      BY <3>1, <3>2
  <2>3. /\ partition_offset_' = [partition_offset_ EXCEPT ![p] = log[p]]
        /\ committing_' = [NoCommit EXCEPT ![p] = log[p]]
    BY <1>3 DEF ResolveOffset
  <2>4. resetTo'[p] = log[p]
    BY <1>1, <1>3 DEF LogOK
  <2>5. \A o \in Offsets : o < log[p] => <<p, o>> \in printed' \/ o < resetTo'[p]
    BY <2>4
  <2>6. Covers'
    <3> SUFFICES ASSUME NEW q \in Partitions
                 PROVE  /\ partition_offset_'[q] # Absent => Covered(q, partition_offset_[q])'
                        /\ committing_'[q] # Absent => Covered(q, committing_[q])'
      BY DEF Covers
    <3>1. CASE q = p
      <4>1. partition_offset_'[p] = log[p] /\ committing_'[p] = log[p]
        BY <1>1, <2>3 DEF NoCommit, ClientOK, Inv, TypeOK
      <4>2. QED
        BY <2>5, <3>1, <4>1 DEF Covered
    <3>2. CASE q # p
      <4>1. partition_offset_'[q] = partition_offset_[q] /\ committing_'[q] = Absent
        BY <1>1, <2>3, <3>2 DEF NoCommit, ClientOK, Inv, TypeOK
      <4>2. QED
        BY <2>1, <4>1, CoveredGrows DEF Covers, Covered
    <3>3. QED
      BY <3>1, <3>2
  <2>7. QED
    BY <2>1, <2>2, <2>6
<1>4. CASE /\ ResolveThrows(p) \/ ResolveFails(p) \/ ResolveOffset(p, UnknownOffset)
           /\ UNCHANGED <<logVars, log>>
  <2>1. Grows /\ LogCovered'
    BY <1>4, NothingGrows, LogCoveredKept DEF logVars
  <2>2. CASE LearnsNothing
    BY <2>1, <2>2, LearnsNothingCovers
  <2>3. CASE ResolveThrows(p) \/ ResolveFails(p)
    BY <2>2, <2>3 DEF ResolveThrows, ResolveFails, ToResolve, ToFetch, Goto, Terminate, control,
       loop, LearnsNothing
  <2>4. CASE ResolveOffset(p, UnknownOffset)
    <3>1. \A q \in Partitions :
            /\ partition_offset_'[q] \in {partition_offset_[q], UnknownOffset}
            /\ committing_'[q] \in {Absent, UnknownOffset}
      BY <1>1, <2>4 DEF ResolveOffset, NoCommit, ClientOK, Inv, TypeOK
    <3>2. \A o \in Offsets : ~(o < UnknownOffset)
      BY OffsetAssumption DEF Offsets, UnknownOffset
    <3>3. QED
      BY <1>4, <2>1, <3>1, <3>2 DEF Covers, Covered, logVars
  <2>5. QED
    BY <1>4, <2>1, <2>3, <2>4
<1>5. QED
  BY <1>3, <1>4 DEF Resolve

(* What FetchMessage commits, it has printed. *)
LEMMA FetchPrintsCovers ==
    ASSUME ClientOK, LogOK, LogOK', Covers, LogCovered, NEW b \in unfetched_, FetchPrints(b)
    PROVE  Covers' /\ LogCovered' /\ Grows
<1>1. CASE \E last \in Messages(b) :
            /\ Fetch(b, last)
            /\ printed' = printed \cup
                 {m \in Requested(b) \X Offsets :
                     last[m[1]] # Absent /\ m[2] \in partition_offset_[m[1]] .. last[m[1]]}
            /\ UNCHANGED <<committed, resetTo, log>>
  <2>1. PICK last \in Messages(b) :
            /\ Fetch(b, last)
            /\ printed' = printed \cup
                 {m \in Requested(b) \X Offsets :
                     last[m[1]] # Absent /\ m[2] \in partition_offset_[m[1]] .. last[m[1]]}
            /\ UNCHANGED <<committed, resetTo, log>>
    BY <1>1
  <2>2. Grows
    BY <2>1, OffsetAssumption DEF Grows, LogOK, Offsets, UnknownOffset
  <2>3. LogCovered'
    BY <2>1, <2>2, LogCoveredKept
  <2>4. CASE LearnsNothing
    BY <2>2, <2>3, <2>4, LearnsNothingCovers
  <2>5. CASE /\ UNCHANGED partition_offset_
             /\ committing_' = [p \in Partitions |->
                    IF p \in {q \in Requested(b) : last[q] # Absent} THEN last[p] + 1 ELSE Absent]
    <3> SUFFICES ASSUME NEW p \in Partitions
                 PROVE  /\ partition_offset_'[p] # Absent => Covered(p, partition_offset_[p])'
                        /\ committing_'[p] # Absent => Covered(p, committing_[p])'
      BY <2>2, <2>3 DEF Covers
    <3>1. partition_offset_'[p] # Absent => Covered(p, partition_offset_[p])'
      BY <2>2, <2>5, CoveredGrows DEF Covers, Covered
    <3>2. committing_'[p] # Absent => Covered(p, committing_[p])'
      <4> SUFFICES ASSUME p \in Requested(b), last[p] # Absent, NEW o \in Offsets, o < last[p] + 1
                   PROVE  <<p, o>> \in printed' \/ o < resetTo'[p]
        BY <2>5, OffsetAssumption DEF Covered, Offsets
      <4>1. partition_offset_[p] \in Offsets /\ last[p] \in Int
        <5>1. FetchSent(b) /\ p \in broker_owned_partition_[b] /\ partition_offset_[p] # UnknownOffset
          BY <2>1 DEF Fetch, Requested
        <5>2. partition_offset_[p] \in Offsets
          BY <5>1 DEF FetchSent, ClientOK, Inv, TypeOK
        <5>3. last[p] \in Int
          BY <2>1 DEF Messages, FetchReplies
        <5>4. QED
          BY <5>2, <5>3
      <4>2. CASE o < partition_offset_[p]
        BY <2>2, <4>1, <4>2, CoveredGrows, IdsAssumption, OffsetAssumption DEF Covers, Offsets
      <4>3. CASE ~(o < partition_offset_[p])
        <5>1. o \in partition_offset_[p] .. last[p]
          BY <4>1, <4>3, OffsetAssumption DEF Offsets
        <5>2. <<p, o>> \in {m \in Requested(b) \X Offsets :
                     last[m[1]] # Absent /\ m[2] \in partition_offset_[m[1]] .. last[m[1]]}
          BY <5>1
        <5>3. QED
          BY <2>1, <5>2
      <4>4. QED
        BY <4>2, <4>3
    <3>3. QED
      BY <3>1, <3>2
  <2>6. LearnsNothing \/
        /\ UNCHANGED partition_offset_
        /\ committing_' = [p \in Partitions |->
                    IF p \in {q \in Requested(b) : last[q] # Absent} THEN last[p] + 1 ELSE Absent]
    BY <2>1 DEF Fetch, ToFetch, LearnsNothing
  <2>7. QED
    BY <2>4, <2>5, <2>6
<1>2. CASE LearnsNothing /\ UNCHANGED <<logVars, log>>
  <2>1. Grows /\ LogCovered'
    BY <1>2, NothingGrows, LogCoveredKept DEF logVars
  <2>2. QED
    BY <1>2, <2>1, LearnsNothingCovers
<1>3. FetchThrows(b) \/ FetchUnusable(b) \/ FetchFails(b) => LearnsNothing
  BY DEF FetchThrows, FetchUnusable, FetchFails, Terminate, control, loop, Goto, LearnsNothing
<1>4. QED
  BY <1>1, <1>2, <1>3 DEF FetchPrints

LEMMA CommitCovers ==
    ASSUME ClientOK, LogOK, LogOK', Covers, LogCovered, Reset \/ Commit
    PROVE  Covers' /\ LogCovered' /\ Grows
<1>1. UNCHANGED <<printed, resetTo, log>>
  BY DEF Reset, Commit
<1>2. Grows
  BY <1>1, NothingGrows
<1>3. Stores \/ UNCHANGED committed
  BY DEF Reset, StoresReset, StoresFetched, Commit
<1>4. LogCovered'
  BY <1>1, <1>2, <1>3, StoresCovered, LogCoveredKept
<1>5. LearnsNothing
  <2>1. CASE Reset
    BY <2>1 DEF Reset, CommitReset, CommitResetFails, ToResolve, ToFetch, Goto, LearnsNothing
  <2>2. CASE Commit
    BY <2>2 DEF Commit, CommitFetch, CommitFetchFails, ToFetch, Goto, LearnsNothing
  <2>3. QED
    BY <2>1, <2>2
<1>6. QED
  BY <1>2, <1>4, <1>5, LearnsNothingCovers

(* The other steps do not concern the log. *)
LEMMA ElsewhereLearnsNothing ==
    ASSUME NEW freeIds,
           \/ Connect \/ JoinSent(freeIds) \/ Joined \/ JoinLost
           \/ SyncSent \/ Synced \/ SyncLost \/ \E refresh \in BOOLEAN : Beat(refresh)
    PROVE  LearnsNothing /\ UNCHANGED <<logVars, log>>
<1>1. CASE Connect
  BY <1>1, ConnectShared DEF Connect, InitialStartup, InitialRefresh, DiscoverCoordinator,
     FetchMetadataFails, DiscoverCoordinatorFails, Goto, Terminate, control, loop, LearnsNothing
<1>2. CASE JoinSent(freeIds) \/ SyncSent
  BY <1>2, SentStep, CallsShareNoLog DEF vars, control, loop, LearnsNothing
<1>3. CASE Joined \/ JoinLost
  BY <1>3, CallsShareNoLog DEF Joined, JoinLost, JoinGroup, JoinGroupFails, Goto, LearnsNothing
<1>4. CASE Synced \/ SyncLost
  BY <1>4, CallsShareNoLog DEF Synced, SyncLost, SyncGroup, SyncGroupSendFails,
     SyncGroupReceiveFails, Goto, Terminate, control, loop, LearnsNothing
<1>5. CASE \E refresh \in BOOLEAN : Beat(refresh)
  BY <1>5 DEF Beat, Heartbeat, HeartbeatFails, Goto, LearnsNothing
<1>6. QED
  BY <1>1, <1>2, <1>3, <1>4, <1>5

LEMMA CoversStep ==
    ASSUME ClientOK, LogOK, LogOK', Covers, LogCovered, NEW freeIds, ClientNext(freeIds)
    PROVE  Covers' /\ LogCovered' /\ Grows
<1>1. CASE UNCHANGED <<printed, resetTo, log, committed>> /\ Covers'
  BY <1>1, NothingGrows, LogCoveredKept
<1>2. CASE AskOffsets
  BY <1>1, <1>2, AskOffsetsCovers DEF AskOffsets, logVars
<1>3. CASE LearnsNothing /\ UNCHANGED <<logVars, log>>
  BY <1>1, <1>3, NothingGrows, LearnsNothingCovers DEF logVars
<1>4. QED
  BY <1>2, <1>3, ResolveCovers, FetchPrintsCovers, CommitCovers, ElsewhereLearnsNothing
     DEF ClientNext

LEMMA CoversElse ==
    ASSUME LogOK, LogOK', Covers, Grows, UNCHANGED vars
    PROVE  Covers'
BY LearnsNothingCovers DEF vars, control, loop, LearnsNothing

-----------------------------------------------------------------------------
(* An expelled client *)

LEMMA ExpelledConnects ==
    ASSUME Constants, ClientOK, Expelled, Connect
    PROVE  Expelled'
<1>1. In("Initial") /\ event_ = "REFRESH_METADATA"
  BY DEF Connect, InitialStartup, InitialRefresh, DiscoverCoordinator, FetchMetadataFails,
         DiscoverCoordinatorFails, Expelled, In
<1>2. UNCHANGED <<members, member_id_>>
  BY ConnectShared DEF groupVars, groupState, session
<1>3. CASE \E b \in alive_brokers_ : InitialRefresh(b, Metadata, broker)
  <2>1. Metadata.brokers # {} /\ broker \in Metadata.brokers /\ ~Metadata.topicError
    BY BrokerIs DEF Metadata
  <2>2. Goto("JoinGroup", "JOIN_WITH_PREVIOUS_CONSUMER_ID") /\ UNCHANGED process_
    BY <1>3, <2>1 DEF InitialRefresh
  <2>3. QED
    BY <1>1, <1>2, <2>2 DEF Goto, In, Expelled
<1>4. CASE \E b \in alive_brokers_ : FetchMetadataFails(b)
  BY <1>1, <1>2, <1>4 DEF FetchMetadataFails, control, In, Expelled
<1>5. QED
  BY <1>1, <1>3, <1>4 DEF Connect, InitialStartup, DiscoverCoordinator, DiscoverCoordinatorFails, In

LEMMA ExpelledJoins ==
    ASSUME Constants, ClientOK, GroupOK, Expelled, NEW freeIds,
           JoinSent(freeIds) \/ Joined \/ JoinLost
    PROVE  Expelled'
<1>1. In("JoinGroup") /\ event_ = "JOIN_WITH_PREVIOUS_CONSUMER_ID"
  BY DEF JoinSent, Joined, JoinLost, JoinGroup, JoinGroupFails, Expelled, In
<1>2. RequestedMember = member_id_ /\ member_id_ \notin members \cup {NoMember}
  BY <1>1 DEF RequestedMember, Expelled
<1>3. CASE JoinSent(freeIds)
  BY <1>1, <1>2, <1>3, OwnUnchanged DEF JoinSent, Group!JoinArrives, Group!group, Expelled
<1>4. CASE Joined \/ JoinLost
  <2>1. UNCHANGED members /\ answer'[self] = None
    BY <1>4, HungUp DEF Joined, JoinLost, groupState
  <2>2. In("SyncGroup")'
    BY <1>1, <1>4 DEF Joined, JoinLost, JoinGroup, JoinGroupFails, Goto, In
  <2>3. member_id_' = member_id_
    <3>1. CASE Joined
      BY <1>1, <1>2, <3>1 DEF Joined, JoinGroup, ClientOK, MemberOK, Calls, JoinAnswered
    <3>2. CASE JoinLost
      BY <3>2 DEF JoinLost, JoinGroupFails, session
    <3>3. QED
      BY <1>4, <3>1, <3>2
  <2>4. QED
    BY <1>2, <2>1, <2>2, <2>3 DEF Expelled
<1>5. QED
  BY <1>3, <1>4

LEMMA ExpelledSyncs ==
    ASSUME Constants, ClientOK, GroupOK, Expelled, SyncSent \/ Synced \/ SyncLost
    PROVE  Expelled'
<1>1. /\ In("SyncGroup") /\ member_id_ \notin members \cup {NoMember}
      /\ answer[self] = None \/ answer[self].error # 0
  BY DEF SyncSent, Synced, SyncLost, SyncGroup, SyncGroupSendFails, SyncGroupReceiveFails,
         Expelled, In
<1>2. CASE SyncSent
  <2>1. /\ UNCHANGED groupState
        /\ \E error \in {ILLEGAL_GENERATION, UNKNOWN_MEMBER_ID, OtherError} :
                answer' = [answer EXCEPT ![self] = Group!SyncAnswer(error, {})]
    BY <1>1, <1>2, SyncArrivesCases DEF SyncSent
  <2>2. answer'[self].error # 0
    BY <2>1 DEF GroupOK, Constants, Group!SyncAnswer, ILLEGAL_GENERATION, UNKNOWN_MEMBER_ID,
       OtherError
  <2>3. QED
    BY <1>1, <1>2, <2>1, <2>2, OwnUnchanged DEF SyncSent, groupState, Expelled
<1>3. CASE Synced \/ SyncLost
  <2>1. UNCHANGED <<members, member_id_>> /\ answer'[self] = None
    BY <1>1, <1>3, HungUp DEF Synced, SyncLost, SyncGroup, SyncGroupSendFails,
       SyncGroupReceiveFails, groupState, session
  <2>2. /\ UNCHANGED process_
        /\ \/ UNCHANGED control
           \/ Goto("Initial", "REFRESH_METADATA")
    BY <1>1, <1>3 DEF Synced, SyncLost, SyncGroupSendFails, SyncGroupReceiveFails
  <2>3. QED
    BY <1>1, <2>1, <2>2 DEF Goto, control, In, Expelled
<1>4. QED
  BY <1>2, <1>3

LEMMA ExpelledStep ==
    ASSUME Constants, ClientOK, GroupOK, LogOK, Expelled, NEW freeIds, ClientNext(freeIds)
    PROVE  Expelled'
<1>1. ~InRound
  BY RoundOwn DEF Expelled, In
<1>2. QED
  BY <1>1, Split, ExpelledConnects, ExpelledJoins, ExpelledSyncs

LEMMA ExpelledElse ==
    ASSUME MemberOK, Expelled, UNCHANGED vars,
           NEW new, member_id_ \notin new,
           Nothing(self) \/ Round(self, new) \/ Generation(self) \/ Assigns(self)
    PROVE  Expelled'
<1>1. member_id_' \notin members' \cup {NoMember}
  BY OwnUnchanged DEF Expelled, Nothing, Round, Generation, Assigns, groupState
<1>2. In("SyncGroup") /\ answer[self] = None => ~Group!Blocked(self, "join")
  BY DEF MemberOK, Calls, In, Group!Blocked
<1>3. CASE Round(self, new) /\ Group!Blocked(self, "sync")
  <2>1. answer'[self] = answer[self] \/ answer'[self].error # 0
    BY <1>3 DEF Round, Group!SyncAnswer, OtherError
  <2>2. QED
    BY <1>1, <2>1, OwnUnchanged DEF Expelled
<1>4. CASE Round(self, new) /\ ~Group!Blocked(self, "sync")
  BY <1>1, <1>4, OwnUnchanged DEF Round, Expelled
<1>5. CASE Nothing(self)
  BY <1>1, <1>5, OwnUnchanged DEF Nothing, Expelled
<1>6. CASE Generation(self)
  <2>1. In("SyncGroup") => UNCHANGED answer[self]
    BY <1>2, <1>6 DEF Generation, Group!Blocked
  <2>2. QED
    BY <1>1, <2>1, OwnUnchanged DEF Expelled
<1>7. CASE Assigns(self)
  <2>1. ~Group!Blocked(self, "sync")
    BY DEF Group!Blocked, MemberOK, Calls, Current, Expelled
  <2>2. QED
    BY <1>1, <1>7, <2>1, OwnUnchanged DEF Assigns, Expelled
<1>8. QED
  BY <1>3, <1>4, <1>5, <1>6, <1>7

-----------------------------------------------------------------------------
(* Resets *)

(* The partitions a round is going to reset, or is resetting. *)
Resetting == {p \in my_partitions_id_ : p \in unresolved_ \/ committing_[p] # Absent}

(* A round of a current member resets a partition of its own only if the   *)
(* group has no offset for it but one that a member not owning it has put  *)
(* there.                                                                  *)
ResetsSpare ==
    At("resolve") \/ At("commit_reset") =>
        /\ \A p \in unresolved_ : committing_[p] = Absent
        /\ Current => \A p \in Resetting : p \in disturbed \/ committed[p] = UnknownOffset

LEMMA AcceptedIsCurrent == ASSUME CommitError = 0 PROVE Current
BY DEF CommitError, Group!CommitError, Group!UNKNOWN_MEMBER_ID, Group!ILLEGAL_GENERATION,
       Group!REBALANCE_IN_PROGRESS, Current

(* The group's offset of p is what it was, unless it is a disturbance.     *)
OffsetKept(p) ==
    p \in disturbed' \/ (p \notin disturbed /\ committed'[p] = committed[p])

(* What this client makes of the group's offsets: those of partitions it   *)
(* owns as a current member, and otherwise it is a disturbance.            *)
StoresOwn ==
    \A p \in Partitions : OffsetKept(p) \/ (Active /\ p \in my_partitions_id_)

LEMMA StoresOwnStep ==
    ASSUME ClientOK, LogOK, NEW freeIds, ClientNext(freeIds)
    PROVE  StoresOwn
<1>1. CASE UNCHANGED <<committed, disturbed>>
  BY <1>1 DEF StoresOwn, OffsetKept
<1>2. CASE Reset
  <2>1. UNCHANGED <<committed, disturbed>> \/ (CommitError = 0 /\ StoresReset)
    BY <1>2 DEF Reset
  <2>2. CASE CommitError = 0 /\ StoresReset
    <3>1. Active
      BY <1>2, <2>2, AcceptedIsCurrent DEF Reset, CommitReset, CommitResetFails, At, Active, Current
    <3>2. QED
      BY <2>2, <3>1 DEF StoresReset, Stores, Entries, StoresOwn, OffsetKept
  <2>3. QED
    BY <1>1, <2>1, <2>2
<1>3. CASE Commit
  <2>1. At("commit_fetch")
    BY <1>3 DEF Commit, CommitFetch, CommitFetchFails
  <2>2. UNCHANGED <<committed, disturbed>> \/ (CommitError = 0 /\ StoresFetched)
    BY <1>3 DEF Commit
  <2>3. CASE CommitError = 0 /\ StoresFetched
    <3>1. Active
      BY <2>1, <2>3, AcceptedIsCurrent DEF At, Active, Current
    <3>2. \A p \in Partitions : committing_[p] # Absent => p \in my_partitions_id_
      BY <2>1 DEF ClientOK, Inv, Safety, CommitsAdvance, Entries
    <3>3. QED
      BY <2>3, <3>1, <3>2 DEF StoresFetched, Stores, Entries, StoresOwn, OffsetKept
  <2>4. QED
    BY <1>1, <2>2, <2>3
<1>4. CASE AskOffsets \/ (\E p \in unresolved_ : Resolve(p)) \/ (\E b \in unfetched_ : FetchPrints(b))
  BY <1>1, <1>4 DEF AskOffsets, Resolve, FetchPrints, logVars
<1>5. QED
  BY <1>1, <1>2, <1>3, <1>4, ElsewhereLearnsNothing DEF ClientNext, logVars

LEMMA ResetIsNext ==
    ASSUME ClientOK, At("commit_reset"), NEW freeIds, ClientNext(freeIds), ~UNCHANGED vars
    PROVE  Reset
<1>1. In("PartOfGroup") /\ step_ = "commit_reset"
  BY DEF At
<1>2. CASE Connect \/ JoinSent(freeIds) \/ Joined \/ JoinLost \/ SyncSent \/ Synced \/ SyncLost
  BY <1>1, <1>2, SentStep DEF Connect, InitialStartup, InitialRefresh, DiscoverCoordinator,
     FetchMetadataFails, DiscoverCoordinatorFails, Joined, JoinLost, JoinGroup, JoinGroupFails,
     Synced, SyncLost, SyncGroup, SyncGroupSendFails, SyncGroupReceiveFails, In
<1>3. ~AskOffsets /\ ~(\E p \in unresolved_ : Resolve(p))
  BY <1>1 DEF AskOffsets, OffsetFetch, OffsetFetchFails, OffsetFetchError, Resolve, ResolveOffset,
     ResolveThrows, ResolveFails, At
<1>4. ~(\E b \in unfetched_ : FetchPrints(b)) /\ ~Commit
  BY <1>1 DEF FetchPrints, FetchSent, FetchThrows, FetchUnusable, FetchFails, Commit, CommitFetch,
     CommitFetchFails, At
<1>5. ~(\E refresh \in BOOLEAN : Beat(refresh))
  BY <1>1 DEF Beat, Heartbeat, HeartbeatFails, At
<1>6. QED
  BY <1>2, <1>3, <1>4, <1>5, Split DEF InRound

(* What this client resets as a current member, it owns: the property.     *)
LEMMA ResetAllowed ==
    ASSUME ClientOK, ResetsSpare, At("commit_reset"),
           NEW p \in my_partitions_id_, committing_[p] # Absent,
           NEW freeIds, ClientNext(freeIds), ~UNCHANGED vars
    PROVE  p \in disturbed \/ committed[p] \in {UnknownOffset, committed'[p]}
<1>1. Reset
  BY ResetIsNext
<1>2. CASE UNCHANGED committed
  BY <1>2
<1>3. CASE CommitError = 0
  BY <1>3, AcceptedIsCurrent DEF ResetsSpare, Resetting
<1>4. QED
  BY <1>1, <1>2, <1>3 DEF Reset

(* A round goes on with fewer partitions to reset, and the group's offsets *)
(* of those are what they were.                                            *)
LEMMA FewerResetting ==
    ASSUME ClientOK, ResetsSpare, At("resolve") \/ At("commit_reset"),
           UNCHANGED <<groupVars, owned, session>>,
           unresolved_' \subseteq unresolved_,
           \A p \in Partitions : committing_'[p] # Absent => p \in unresolved_ \ unresolved_',
           \A p \in unresolved_ : OffsetKept(p)
    PROVE  ResetsSpare'
<1>1. /\ my_partitions_id_' = my_partitions_id_ /\ my_partitions_id_ \subseteq Partitions
      /\ unresolved_ \subseteq Partitions
  BY DEF owned, ClientOK, Inv, TypeOK
<1>2. Current' => Current
  BY DEF Current, groupVars, groupState, session
<1>3. Resetting' \subseteq my_partitions_id_ \cap unresolved_
  BY <1>1 DEF Resetting
<1>4. \A p \in unresolved_' : committing_'[p] = Absent
  BY <1>1
<1>5. Current => \A p \in my_partitions_id_ \cap unresolved_ :
                    p \in disturbed \/ committed[p] = UnknownOffset
  BY DEF ResetsSpare, Resetting
<1>6. QED
  BY <1>2, <1>3, <1>4, <1>5 DEF ResetsSpare, OffsetKept

LEMMA NotResetting ==
    ASSUME ~(In("PartOfGroup")' /\ step_' \in {"resolve", "commit_reset"})
    PROVE  ResetsSpare'
BY DEF ResetsSpare, At, In

(* The group is asked for the offsets of what the client owns. *)
LEMMA AskOffsetsSpares ==
    ASSUME Constants, ClientOK, LogOK, AskOffsets
    PROVE  ResetsSpare'
<1>1. CASE OffsetFetchFails \/ OffsetFetchError
  <2>1. step_' \notin {"resolve", "commit_reset"}
    BY <1>1 DEF OffsetFetchFails, OffsetFetchError, Goto, ToFetch
  <2>2. QED
    BY <2>1, NotResetting
<1>2. CASE OffsetFetch(Positions) /\ UNCHANGED <<groupVars, logVars>>
  <2> DEFINE updated == [p \in Partitions |->
                IF p \in DOMAIN Positions THEN Positions[p] ELSE partition_offset_[p]]
  <2>1. CASE Terminate("bad_response")
    BY <2>1, NotResetting DEF Terminate, In
  <2>2. CASE ToResolve(Unknown(updated), 1)
    <3>1. CASE step_' \notin {"resolve", "commit_reset"}
      BY <3>1, NotResetting
    <3>2. CASE unresolved_' = Unknown(updated) /\ committing_' = NoCommit
      <4>1. \A p \in Partitions : committing_'[p] = Absent
        BY <3>2 DEF NoCommit
      <4>2. /\ my_partitions_id_' = my_partitions_id_ /\ my_partitions_id_ \subseteq Partitions
            /\ unresolved_' \subseteq Partitions
        BY <1>2, <3>2 DEF OffsetFetch, owned, ClientOK, Inv, TypeOK, Unknown
      <4>3. ASSUME NEW p \in my_partitions_id_, p \in Unknown(updated)
            PROVE  committed[p] = UnknownOffset
        <5>1. Positions = [q \in my_partitions_id_ |-> committed[q]]
          BY <4>3 DEF Positions
        <5>2. updated[p] = committed[p]
          BY <4>2, <4>3, <5>1
        <5>3. QED
          BY <4>3, <5>2 DEF Unknown
      <4>4. \A p \in Resetting' : committed'[p] = UnknownOffset
        BY <1>2, <3>2, <4>1, <4>2, <4>3 DEF Resetting, logVars
      <4>5. QED
        BY <4>1, <4>2, <4>4 DEF ResetsSpare
    <3>3. QED
      BY <2>2, <3>1, <3>2 DEF ToResolve, Goto, ToFetch
  <2>3. QED
    BY <1>2, <2>1, <2>2 DEF OffsetFetch
<1>3. QED
  BY <1>1, <1>2 DEF AskOffsets

LEMMA ToResolveSpares ==
    ASSUME ClientOK, ResetsSpare, At("resolve") \/ At("commit_reset"),
           UNCHANGED <<groupVars, owned, session>>,
           NEW to \in SUBSET unresolved_, NEW error, ToResolve(to, error),
           \A p \in unresolved_ : OffsetKept(p)
    PROVE  ResetsSpare'
<1>1. CASE step_' \notin {"resolve", "commit_reset"}
  BY <1>1, NotResetting
<1>2. CASE unresolved_' = to /\ committing_' = NoCommit
  <2>1. \A p \in Partitions : committing_'[p] = Absent
    BY <1>2 DEF NoCommit
  <2>2. QED
    BY <1>2, <2>1, FewerResetting
<1>3. QED
  BY <1>1, <1>2 DEF ToResolve, Goto, ToFetch

LEMMA ResolveSpares ==
    ASSUME ClientOK, ResetsSpare, NEW p \in unresolved_, Resolve(p)
    PROVE  ResetsSpare'
<1>1. At("resolve") /\ UNCHANGED <<groupVars, committed, disturbed>>
  BY DEF Resolve, ResolveOffset, ResolveThrows, ResolveFails, logVars
<1>2. CASE ResolveThrows(p)
  BY <1>2, NotResetting DEF ResolveThrows, Terminate, In
<1>3. CASE ResolveFails(p)
  BY <1>1, <1>3, ToResolveSpares DEF ResolveFails, OffsetKept
<1>4. ASSUME NEW offset, ResolveOffset(p, offset) PROVE ResetsSpare'
  <2>1. /\ committing_' = [NoCommit EXCEPT ![p] = offset]
        /\ unresolved_' = unresolved_ \ {p}
        /\ UNCHANGED <<owned, session>>
    BY <1>4 DEF ResolveOffset
  <2>2. \A q \in Partitions : committing_'[q] # Absent => q = p
    BY <2>1 DEF NoCommit
  <2>3. QED
    BY <1>1, <2>1, <2>2, FewerResetting DEF OffsetKept
<1>5. QED
  BY <1>2, <1>3, <1>4 DEF Resolve

LEMMA ResetSpares ==
    ASSUME ClientOK, ResetsSpare, Reset
    PROVE  ResetsSpare'
<1>1. /\ At("commit_reset") /\ UNCHANGED <<groupVars, owned, session>>
      /\ \/ step_' = "enter"
         \/ \E error : ToResolve(unresolved_, error)
  BY DEF Reset, CommitReset, CommitResetFails, Goto
<1>2. ASSUME NEW p \in unresolved_ PROVE OffsetKept(p)
  <2>1. p \in Partitions /\ committing_[p] = Absent
    BY <1>1 DEF ResetsSpare, ClientOK, Inv, TypeOK
  <2>2. QED
    BY <2>1 DEF Reset, StoresReset, Stores, Entries, OffsetKept
<1>3. QED
  BY <1>1, <1>2, ToResolveSpares, NotResetting

LEMMA ResetsSpareStep ==
    ASSUME Constants, ClientOK, LogOK, ResetsSpare, NEW freeIds, ClientNext(freeIds)
    PROVE  ResetsSpare'
<1>1. CASE AskOffsets \/ (\E p \in unresolved_ : Resolve(p)) \/ Reset
  BY <1>1, AskOffsetsSpares, ResolveSpares, ResetSpares
<1>2. CASE (\E b \in unfetched_ : FetchPrints(b)) \/ Commit \/ (\E refresh \in BOOLEAN : Beat(refresh))
  <2>1. process_' # "running" \/ step_' \notin {"resolve", "commit_reset"}
    BY <1>2 DEF FetchPrints, Fetch, FetchThrows, FetchUnusable, FetchFails, Commit, CommitFetch,
       CommitFetchFails, Beat, Heartbeat, HeartbeatFails, Goto, ToFetch, Terminate
  <2>2. QED
    BY <2>1, NotResetting DEF In
<1>3. CASE JoinSent(freeIds) \/ SyncSent
  BY <1>3, NotResetting, OwnUnchanged, SentStep DEF JoinSent, SyncSent, In
<1>4. CASE Connect \/ Joined \/ JoinLost \/ Synced \/ SyncLost
  <2>1. \/ process_' # "running"
        \/ step_' = "enter"
        \/ UNCHANGED control /\ current_state_ # "PartOfGroup"
    BY <1>4 DEF Connect, InitialStartup, InitialRefresh, DiscoverCoordinator, FetchMetadataFails,
       DiscoverCoordinatorFails, Joined, JoinLost, JoinGroup, JoinGroupFails, Synced, SyncLost,
       SyncGroup, SyncGroupSendFails, SyncGroupReceiveFails, Goto, Terminate, In
  <2>2. QED
    BY <2>1, NotResetting DEF control, In
<1>5. QED
  BY <1>1, <1>2, <1>3, <1>4, Split DEF InRound

LEMMA ResetsSpareElse ==
    ASSUME ResetsSpare, UNCHANGED vars, Current' => Current,
           Active => \A p \in my_partitions_id_ : OffsetKept(p)
    PROVE  ResetsSpare'
<1>1. UNCHANGED <<my_partitions_id_, unresolved_, committing_, step_>>
  BY DEF vars, control, loop, owned
<1>2. UNCHANGED Resetting /\ Resetting \subseteq my_partitions_id_
  BY <1>1 DEF Resetting
<1>3. (At("resolve") \/ At("commit_reset")) /\ Current => Active
  BY DEF At, Active, Current
<1>4. At("resolve")' = At("resolve") /\ At("commit_reset")' = At("commit_reset")
  BY <1>1, OwnUnchanged DEF At, In
<1>5. QED
  BY <1>1, <1>2, <1>3, <1>4 DEF ResetsSpare, OffsetKept

(* A client becomes current only by its own steps. *)
LEMMA CurrentElse ==
    ASSUME UNCHANGED vars, NEW new, member_id_ \notin new,
           \/ Nothing(self) \/ Round(self, new) \/ Assigns(self)
           \/ Generation(self) /\ generation' # generation_id_
    PROVE  Current' => Current
BY OwnUnchanged DEF Current, Nothing, Round, Assigns, Generation, groupState
=============================================================================
