---------------------------- MODULE ConsumerGroup ----------------------------
(***************************************************************************)
(* Two clients, their group's coordinator and the log they consume: two    *)
(* instances of GroupClient, each with variables of its own, which share   *)
(* the variables of GroupCoordinator.  The instances are of                *)
(* GroupClientProofs, which adds lemmas to GroupClient and nothing else, so*)
(* that ConsumerGroupProofs can cite the lemmas for either client.         *)
(*                                                                         *)
(* A member whose client does not use it any more, because it starts over, *)
(* has ended or is trapped, sends no heartbeat: its session ends sooner or *)
(* later.  The session of a member in use ends only by a fault, a fetch    *)
(* that takes too long.                                                    *)
(***************************************************************************)
EXTENDS Integers, FiniteSets

CONSTANTS Bootstrap, Brokers, Partitions, MemberIds, NoMember, Generations,
          NoGeneration, MaxOffset, Absent, NULL, Empty, None, MaxFaults

ASSUME IdsAssumption ==
    /\ Bootstrap \cap Brokers = {}
    /\ Absent \notin Bootstrap \cup Brokers \cup Int
    /\ NULL \notin Bootstrap \cup Brokers
    /\ NoMember \notin MemberIds
    /\ NoGeneration \notin Generations
ASSUME OffsetAssumption == MaxOffset \in Nat

Clients == {"a", "b"}

VARIABLES a_current_state_, a_event_, a_process_, a_step_,
          a_unresolved_, a_unfetched_, a_committing_, a_error_code_,
          a_alive_brokers_, a_coordinator_, a_all_partitions_,
          a_my_partitions_id_, a_broker_owned_partition_, a_partition_offset_,
          a_generation_id_, a_member_id_, a_amIGroupLeader_, a_member_partitions_,
          b_current_state_, b_event_, b_process_, b_step_,
          b_unresolved_, b_unfetched_, b_committing_, b_error_code_,
          b_alive_brokers_, b_coordinator_, b_all_partitions_,
          b_my_partitions_id_, b_broker_owned_partition_, b_partition_offset_,
          b_generation_id_, b_member_id_, b_amIGroupLeader_, b_member_partitions_

VARIABLES phase, members, joined, generation, leader, assignment, waiting, answer,
          committed, log, printed, resetTo, disturbed, faults

A == INSTANCE GroupClientProofs WITH
        self <- "a",
        current_state_ <- a_current_state_, event_ <- a_event_,
        process_ <- a_process_, step_ <- a_step_, unresolved_ <- a_unresolved_,
        unfetched_ <- a_unfetched_, committing_ <- a_committing_,
        error_code_ <- a_error_code_, alive_brokers_ <- a_alive_brokers_,
        coordinator_ <- a_coordinator_, all_partitions_ <- a_all_partitions_,
        my_partitions_id_ <- a_my_partitions_id_,
        broker_owned_partition_ <- a_broker_owned_partition_,
        partition_offset_ <- a_partition_offset_,
        generation_id_ <- a_generation_id_, member_id_ <- a_member_id_,
        amIGroupLeader_ <- a_amIGroupLeader_,
        member_partitions_ <- a_member_partitions_

B == INSTANCE GroupClientProofs WITH
        self <- "b",
        current_state_ <- b_current_state_, event_ <- b_event_,
        process_ <- b_process_, step_ <- b_step_, unresolved_ <- b_unresolved_,
        unfetched_ <- b_unfetched_, committing_ <- b_committing_,
        error_code_ <- b_error_code_, alive_brokers_ <- b_alive_brokers_,
        coordinator_ <- b_coordinator_, all_partitions_ <- b_all_partitions_,
        my_partitions_id_ <- b_my_partitions_id_,
        broker_owned_partition_ <- b_broker_owned_partition_,
        partition_offset_ <- b_partition_offset_,
        generation_id_ <- b_generation_id_, member_id_ <- b_member_id_,
        amIGroupLeader_ <- b_amIGroupLeader_,
        member_partitions_ <- b_member_partitions_

Group == INSTANCE GroupCoordinator

(* There is a cluster, and a coordinator that counts generations; what     *)
(* stands for no answer and for no bytes is not an answer or an assignment.*)
ASSUME GroupAssumption ==
    /\ Brokers # {}
    /\ IsFiniteSet(Partitions)
    /\ Generations # {}
    /\ \A r \in Group!JoinAnswers \cup Group!SyncAnswers : r # None
    /\ \A ps \in SUBSET Partitions : ps # Empty

aVars ==
    <<a_current_state_, a_event_, a_process_, a_step_,
      a_unresolved_, a_unfetched_, a_committing_, a_error_code_,
      a_alive_brokers_, a_coordinator_, a_all_partitions_,
      a_my_partitions_id_, a_broker_owned_partition_, a_partition_offset_,
      a_generation_id_, a_member_id_, a_amIGroupLeader_,
      a_member_partitions_>>
bVars ==
    <<b_current_state_, b_event_, b_process_, b_step_,
      b_unresolved_, b_unfetched_, b_committing_, b_error_code_,
      b_alive_brokers_, b_coordinator_, b_all_partitions_,
      b_my_partitions_id_, b_broker_owned_partition_, b_partition_offset_,
      b_generation_id_, b_member_id_, b_amIGroupLeader_,
      b_member_partitions_>>
shared == <<phase, members, joined, generation, leader, assignment, waiting, answer,
            committed, log, printed, resetTo, disturbed, faults>>
vars == <<aVars, bVars, shared>>

Init ==
    /\ A!ClientInit /\ B!ClientInit
    /\ Group!Init
    /\ committed = [p \in Partitions |-> A!UnknownOffset]
    /\ log = [p \in Partitions |-> 0]
    /\ printed = {}
    /\ resetTo = [p \in Partitions |-> A!UnknownOffset]
    /\ disturbed = {}
    /\ faults = 0

(* The members a client uses, or will answer for. *)
Uses(state, event, gone, member, call) ==
    IF gone THEN {}
    ELSE {call.member} \cup
         (IF state = "DiscoverCoordinator" \/ event \in {"STARTUP", "JOIN_WITH_EMPTY_CONSUMER_ID"}
          THEN {} ELSE {member})

InUse == Uses(a_current_state_, a_event_, A!Gone, a_member_id_, waiting["a"])
         \cup Uses(b_current_state_, b_event_, B!Gone, b_member_id_, waiting["b"])

(* An id is given again only after everybody has forgotten it. *)
FreeIds == MemberIds \ (members \cup {a_member_id_, b_member_id_,
                                     waiting["a"].member, waiting["b"].member})

SessionEnds(m) ==
    /\ Group!Expire(m)
    /\ IF m \in InUse
       THEN faults < MaxFaults /\ faults' = faults + 1
       ELSE UNCHANGED faults
    /\ UNCHANGED <<aVars, bVars, committed, log, printed, resetTo, disturbed>>

(* The coordinator counts the generations, and what matters of the numbers *)
(* is that a new one is not that of an earlier generation: any number      *)
(* nobody knows or is being told will do.                                  *)
Told == {answer[c].generation : c \in {k \in Clients : waiting[k].call = "join" /\ answer[k] # None}}
FreeGenerations == Generations \ ({generation, a_generation_id_, b_generation_id_} \cup Told)

RoundCompletes ==
    /\ FreeGenerations # {}
    /\ Group!CompleteJoin(CHOOSE g \in FreeGenerations : TRUE)
    /\ UNCHANGED <<aVars, bVars, committed, log, printed, resetTo, disturbed, faults>>

(* A producer appends a message. *)
Produce(p) ==
    /\ log[p] < MaxOffset
    /\ log' = [log EXCEPT ![p] = @ + 1]
    /\ UNCHANGED <<aVars, bVars, phase, members, joined, generation, leader, assignment,
                   waiting, answer, committed, printed, resetTo, disturbed, faults>>

AStep == A!ClientNext(FreeIds) /\ UNCHANGED bVars
BStep == B!ClientNext(FreeIds) /\ UNCHANGED aVars

Ended == A!Gone /\ B!Gone /\ UNCHANGED vars

Next ==
    \/ AStep
    \/ BStep
    \/ RoundCompletes
    \/ \E m \in MemberIds : SessionEnds(m)
    \/ \E p \in Partitions : Produce(p)
    \/ Ended

Spec == Init /\ [][Next]_vars

-----------------------------------------------------------------------------
(* Invariants *)

(* Every shared variable has its type; the clients' have theirs as in      *)
(* module Network.                                                         *)
TypeOK ==
    /\ A!TypeOK /\ B!TypeOK
    /\ phase \in {"preparing", "completing", "stable"}
    /\ joined \subseteq members /\ members \subseteq MemberIds
    /\ generation \in Generations
    /\ leader \in members \cup {NoMember}
    /\ \A m \in MemberIds : assignment[m] = Empty \/ assignment[m] \subseteq Partitions
    /\ \A c \in Clients : answer[c] # None => waiting[c] # Group!NoCall
    /\ committed \in [Partitions -> A!Offsets \cup {A!UnknownOffset}]
    /\ printed \subseteq Partitions \X A!Offsets

(* No partition is fetched by two clients of one generation: although each *)
(* leader computes the assignment from its own metadata, a rejoin returns  *)
(* to a generation without computing it again, and a client that has not   *)
(* noticed the next round goes on fetching.                                *)
OwnersDisjoint ==
    A!Active /\ B!Active => a_my_partitions_id_ \cap b_my_partitions_id_ = {}

(* A leader's SyncGroup request has an entry for every member of the       *)
(* generation, also for one that joined while the leader was away: nobody  *)
(* is sent an assignment of no bytes, which ParsePartitions would read on  *)
(* past the end of.                                                        *)
NobodyLeftOut ==
    \A m \in members : phase = "stable" => assignment[m] # Empty

(* A message the group has committed past was printed by somebody, or a    *)
(* reset to the newest offset has skipped it: whatever is answered or      *)
(* lost, whoever commits, in whichever generation, no other message is     *)
(* lost.                                                                   *)
NothingLost ==
    \A p \in Partitions : \A o \in 0 .. committed[p] - 1 :
        <<p, o>> \in printed \/ o < resetTo[p]

-----------------------------------------------------------------------------
(* Action properties *)

(* The reset of a client that owns the partition never replaces an offset  *)
(* that an owner has committed, after a fetch or by a reset: by the time   *)
(* there is one, the commit is refused.  All it may replace is an offset   *)
(* that a client that does not own the partition has put there, resetting  *)
(* a left-over entry of its partition_offset_ (disturbed).                 *)
Resets(p, committing, owned) == committing[p] # Absent /\ p \in owned

OwnResetsSpareCommitted ==
    [][\A p \in Partitions :
         (\/ A!At("commit_reset") /\ Resets(p, a_committing_, a_my_partitions_id_) /\ aVars' # aVars
          \/ B!At("commit_reset") /\ Resets(p, b_committing_, b_my_partitions_id_) /\ bVars' # bVars)
         => p \in disturbed \/ committed[p] \in {A!UnknownOffset, committed'[p]}]_vars

(* A client that rejoins with an id the coordinator has expelled never     *)
(* comes back: the error in the join answer is not read, the one in the    *)
(* sync answer leads to a refresh and another rejoin with the id, and so   *)
(* on, until the client loses its broker for good.  This is so as long as  *)
(* every refresh finds the coordinator in the metadata, as it does here: a *)
(* refresh that misses it (InitialRefresh of module Network) goes on to    *)
(* DiscoverCoordinator and a join with an empty id, by accident a way back.*)
ExpelledForGood ==
    [][(A!Expelled => A!Expelled') /\ (B!Expelled => B!Expelled')]_vars

-----------------------------------------------------------------------------
(* Liveness *)

(* Start calls the handlers without a pause; more than ten seconds after   *)
(* the last refresh a heartbeat is followed by another; the coordinator    *)
(* completes rounds, and ends the sessions of members that are not in use. *)
Fairness ==
    /\ WF_vars(AStep) /\ WF_vars(BStep)
    /\ SF_vars(A!Beat(TRUE) /\ UNCHANGED bVars)
    /\ SF_vars(B!Beat(TRUE) /\ UNCHANGED aVars)
    /\ WF_vars(RoundCompletes)
    /\ \A m \in MemberIds : WF_vars(m \notin InUse /\ SessionEnds(m))

LiveSpec == Spec /\ Fairness

(* Somebody fetches, again and again, until both clients have ended, are   *)
(* trapped or ask with an id that was expelled: the clients and the        *)
(* coordinator, who wait on one another to join, to send the assignment    *)
(* and to hear of the next round, never wait in a circle.                  *)
KeepsFetching ==
    []<>(\/ a_current_state_ = "PartOfGroup" /\ a_process_ = "running"
         \/ b_current_state_ = "PartOfGroup" /\ b_process_ = "running"
         \/ (A!Gone \/ A!Expelled) /\ (B!Gone \/ B!Expelled))

-----------------------------------------------------------------------------
(* "rejoin", over the branch of JOIN_WITH_PREVIOUS_CONSUMER_ID: a client   *)
(* the coordinator has expelled is let in again by joining again, or ends. *)
ExpelledRejoins ==
    /\ A!Expelled ~> (~A!Expelled \/ A!Gone)
    /\ B!Expelled ~> (~B!Expelled \/ B!Gone)
=============================================================================
