-------------------------- MODULE GroupCoordinator ---------------------------
(***************************************************************************)
(* The broker's side of a consumer group, which is not in the repository:  *)
(* what the client's requests and the errors it distinguishes rely on.     *)
(* Members join in rounds; a round ends when every member has joined, and  *)
(* makes a generation.  Its leader sends the assignment, on which the      *)
(* SyncGroup requests of the others wait.  A member whose session ends is  *)
(* expelled.                                                               *)
(*                                                                         *)
(* waiting and answer are the calls that block: JoinGroup and SyncGroup.   *)
(* A heartbeat or a commit is answered at once, by an error code.          *)
(***************************************************************************)
EXTENDS Integers, FiniteSets

CONSTANTS Clients,       \* the processes that call
          Partitions,
          MemberIds,     \* ids the coordinator hands out
          NoMember,      \* the empty id
          Generations,   \* as many as need to be told apart at a time
          NoGeneration,  \* generation in a join answer that is an error
          Empty,         \* an assignment of no bytes, not even that of no partition
          None           \* no answer yet

VARIABLES phase,       \* "preparing", "completing" or "stable"
          members,
          joined,      \* members that have joined the round being prepared
          generation,
          leader,
          assignment,  \* of the members of the generation
          waiting,     \* by client: the call it blocks in, and the member it is
          answer       \* by client: the answer on its way

group == <<phase, members, joined, generation, leader, assignment>>
calls == <<waiting, answer>>

ILLEGAL_GENERATION      == 22
UNKNOWN_MEMBER_ID       == 25
REBALANCE_IN_PROGRESS   == 27

NoCall == [call |-> "none", member |-> NoMember]

JoinAnswer(g, member, list) == [generation |-> g, member |-> member, members |-> list]
SyncAnswer(error, assigned) == [error |-> error, assigned |-> assigned]

JoinAnswers == [generation : Generations \cup {NoGeneration}, member : MemberIds,
                members : SUBSET MemberIds]
SyncAnswers == [error : {0, ILLEGAL_GENERATION, UNKNOWN_MEMBER_ID, REBALANCE_IN_PROGRESS},
                assigned : SUBSET Partitions]

Init ==
    /\ phase = "preparing"
    /\ members = {}
    /\ joined = {}
    /\ generation = (CHOOSE g \in Generations : TRUE)
    /\ leader = NoMember
    /\ assignment = [m \in MemberIds |-> {}]
    /\ waiting = [c \in Clients |-> NoCall]
    /\ answer = [c \in Clients |-> None]

Blocked(c, call) == waiting[c].call = call /\ answer[c] = None

-----------------------------------------------------------------------------
(* A round begins or goes on, with ms for members and js of them joined.   *)
(* Calls that wait for the leader's assignment end with an error.          *)
Prepare(ms, js) ==
    /\ phase' = "preparing"
    /\ members' = ms
    /\ joined' = js
    /\ UNCHANGED <<generation, assignment>>

Interrupted ==
    [c \in Clients |-> IF Blocked(c, "sync") THEN SyncAnswer(REBALANCE_IN_PROGRESS, {})
                       ELSE answer[c]]

(* A JoinGroup request for id; newId is what an empty one becomes.  A      *)
(* member that comes back within its generation gets the generation again, *)
(* but when the leader of a stable group joins, a new round begins.        *)
JoinArrives(c, id, newId) ==
    LET member == IF id = NoMember THEN newId ELSE id
        known  == id \in members /\ phase \in {"completing", "stable"}
                    /\ ~(phase = "stable" /\ id = leader)
    IN  /\ waiting' = [waiting EXCEPT ![c] = [call |-> "join", member |-> member]]
        /\ IF id \notin members \cup {NoMember}
           THEN /\ answer' = [answer EXCEPT ![c] = JoinAnswer(NoGeneration, id, {})]
                /\ UNCHANGED group
           ELSE IF known
           THEN /\ answer' = [answer EXCEPT ![c] =
                        JoinAnswer(generation, id, IF id = leader THEN members ELSE {})]
                /\ UNCHANGED group
           ELSE /\ Prepare(members \cup {member},
                           IF phase = "preparing" THEN joined \cup {member} ELSE {member})
                /\ answer' = Interrupted
                /\ UNCHANGED leader

(* Every member has joined, and there is one.  fresh is the number of the  *)
(* new generation.                                                         *)
CompleteJoin(fresh) ==
    /\ phase = "preparing"
    /\ joined = members
    /\ phase' = "completing"
    /\ joined' = {}
    /\ generation' = fresh
    /\ \E l \in IF leader \in members THEN {leader} ELSE members :
        /\ leader' = l
        /\ answer' = [c \in Clients |->
                IF Blocked(c, "join")
                THEN JoinAnswer(generation', waiting[c].member,
                                IF waiting[c].member = l THEN members ELSE {})
                ELSE answer[c]]
    /\ UNCHANGED <<members, assignment, waiting>>

SyncError(id, g) ==
    CASE id \notin members   -> UNKNOWN_MEMBER_ID
      [] id \in members /\ g # generation -> ILLEGAL_GENERATION
      [] id \in members /\ g = generation /\ phase = "preparing" -> REBALANCE_IN_PROGRESS
      [] OTHER -> 0

(* A SyncGroup request; given is the assignment in it.  A member that the  *)
(* leader's request leaves out gets no bytes.                              *)
SyncArrives(c, id, g, given) ==
    LET error == SyncError(id, g)
        all   == [m \in MemberIds |->
                    IF m \notin members THEN {} ELSE IF m \in DOMAIN given THEN given[m] ELSE Empty]
    IN  /\ waiting' = [waiting EXCEPT ![c] = [call |-> "sync", member |-> id]]
        /\ IF error # 0
           THEN /\ answer' = [answer EXCEPT ![c] = SyncAnswer(error, {})]
                /\ UNCHANGED group
           ELSE IF phase = "stable"
           THEN /\ answer' = [answer EXCEPT ![c] = SyncAnswer(0, assignment[id])]
                /\ UNCHANGED group
           ELSE IF id # leader
           THEN UNCHANGED <<answer, group>>
           ELSE /\ assignment' = all
                /\ phase' = "stable"
                /\ answer' = [k \in Clients |->
                        IF k = c THEN SyncAnswer(0, all[id])
                        ELSE IF Blocked(k, "sync") THEN SyncAnswer(0, all[waiting[k].member])
                        ELSE answer[k]]
                /\ UNCHANGED <<members, joined, generation, leader>>

(* The call of c is over, answered or not. *)
Hangup(c) ==
    /\ waiting' = [waiting EXCEPT ![c] = NoCall]
    /\ answer' = [answer EXCEPT ![c] = None]

(* The session of a member ends, which it does not while a call of the     *)
(* member is blocked; or the round has waited for it long enough.          *)
MayExpire(m) ==
    /\ m \in members \ joined
    /\ \A c \in Clients : ~(waiting[c].member = m /\ Blocked(c, "sync"))

(* Fault: an expelled leader stays the leader. *)
ExpireKeepsLeader(m) ==
    /\ MayExpire(m)
    /\ IF phase = "preparing"
       THEN Prepare(members \ {m}, joined) /\ UNCHANGED answer
       ELSE Prepare(members \ {m}, {}) /\ answer' = Interrupted
    /\ UNCHANGED <<waiting, leader>>

Expire(m) ==
    /\ MayExpire(m)
    /\ leader' = (IF leader = m THEN NoMember ELSE leader)
    /\ IF phase = "preparing"
       THEN Prepare(members \ {m}, joined) /\ UNCHANGED answer
       ELSE Prepare(members \ {m}, {}) /\ answer' = Interrupted
    /\ UNCHANGED waiting

HeartbeatError(id, g) ==
    CASE id \notin members -> UNKNOWN_MEMBER_ID
      [] id \in members /\ phase = "completing" -> REBALANCE_IN_PROGRESS
      [] id \in members /\ phase # "completing" /\ g # generation -> ILLEGAL_GENERATION
      [] id \in members /\ phase = "preparing" /\ g = generation -> REBALANCE_IN_PROGRESS
      [] OTHER -> 0

(* An OffsetCommit request is refused by member and generation, not by the *)
(* partitions it is about.                                                 *)
CommitError(id, g) ==
    CASE phase = "completing" -> REBALANCE_IN_PROGRESS
      [] phase # "completing" /\ id \notin members -> UNKNOWN_MEMBER_ID
      [] phase # "completing" /\ id \in members /\ g # generation -> ILLEGAL_GENERATION
      [] OTHER -> 0
=============================================================================
