------------------------- MODULE ConsumerGroupProofs -------------------------
(***************************************************************************)
(* The two clients, the coordinator and the log together, for every value  *)
(* of the constants.  A step of one client preserves what is true of it by *)
(* the lemmas of GroupClientProofs about a client's own steps, and what is *)
(* true of the other by those about the steps of somebody else.            *)
(***************************************************************************)
EXTENDS ConsumerGroup, TLAPS, FiniteSetTheorems

(* What holds of the clients, the coordinator and the log at any time; and *)
(* no two clients are, or will be told that they are, the same member.     *)
Apart == A!Ids \cap B!Ids \subseteq {NoMember}

IInv == A!ClientOK /\ B!ClientOK /\ A!GroupOK /\ A!LogOK /\ Apart

-----------------------------------------------------------------------------
(* The two instances speak of the same coordinator and log. *)

LEMMA SameFinite ==
    ASSUME NEW S
    PROVE  /\ A!IsFiniteSet(S) <=> IsFiniteSet(S)
           /\ B!IsFiniteSet(S) <=> IsFiniteSet(S)
BY DEF IsFiniteSet, A!IsFiniteSet, B!IsFiniteSet

LEMMA ConstantsHold == A!Constants /\ B!Constants
BY GroupAssumption, IdsAssumption, SameFinite
   DEF A!Constants, B!Constants, Clients, Group!JoinAnswers, Group!SyncAnswers,
       A!Group!JoinAnswers, A!Group!SyncAnswers, B!Group!JoinAnswers, B!Group!SyncAnswers,
       Group!ILLEGAL_GENERATION, Group!UNKNOWN_MEMBER_ID, Group!REBALANCE_IN_PROGRESS,
       A!Group!ILLEGAL_GENERATION, A!Group!UNKNOWN_MEMBER_ID, A!Group!REBALANCE_IN_PROGRESS,
       B!Group!ILLEGAL_GENERATION, B!Group!UNKNOWN_MEMBER_ID, B!Group!REBALANCE_IN_PROGRESS

LEMMA SameGroup ==
    /\ A!GroupOK <=> B!GroupOK
    /\ A!LogOK <=> B!LogOK
BY SameFinite
   DEF A!GroupOK, B!GroupOK, A!LogOK, B!LogOK, A!Offsets, B!Offsets, A!UnknownOffset,
       B!UnknownOffset

LEMMA SameGroupNext ==
    /\ A!GroupOK' <=> B!GroupOK'
    /\ A!LogOK' <=> B!LogOK'
BY SameGroup, PTL

LEMMA SameSeen ==
    ASSUME NEW c, NEW new
    PROVE  /\ A!Nothing(c) <=> B!Nothing(c)
           /\ A!Round(c, new) <=> B!Round(c, new)
           /\ A!Assigns(c) <=> B!Assigns(c)
BY DEF A!Nothing, B!Nothing, A!Round, B!Round, A!Assigns, B!Assigns, A!groupState, B!groupState,
       A!Group!Blocked, B!Group!Blocked, A!Group!SyncAnswer, B!Group!SyncAnswer,
       A!OtherError, B!OtherError

LEMMA OthersUnchanged ==
    /\ UNCHANGED aVars <=> UNCHANGED A!vars
    /\ UNCHANGED bVars <=> UNCHANGED B!vars
BY DEF aVars, bVars, A!vars, A!control, A!loop, A!cluster, A!owned, A!session,
       B!vars, B!control, B!loop, B!cluster, B!owned, B!session


(* A free id is no client's, and no member's. *)
LEMMA FreeIdsFresh ==
    /\ FreeIds \in SUBSET MemberIds
    /\ FreeIds \cap (A!Ids \cup B!Ids \cup members) = {}
BY DEF FreeIds, A!Ids, B!Ids

LEMMA OthersIds ==
    /\ UNCHANGED <<aVars, waiting["a"]>> => UNCHANGED A!Ids
    /\ UNCHANGED <<bVars, waiting["b"]>> => UNCHANGED B!Ids
BY DEF aVars, bVars, A!Ids, B!Ids

-----------------------------------------------------------------------------
(* What a client sees of the other's step, and of the coordinator's. *)

LEMMA AStepSeen ==
    ASSUME IInv, AStep
    PROVE  B!Nothing("b") \/ B!Round("b", FreeIds) \/ B!Assigns("b")
<1>1. A!Nothing("b") \/ A!Round("b", FreeIds) \/ A!Assigns("b")
  BY ConstantsHold, FreeIdsFresh, A!Seen, IdsAssumption, OffsetAssumption DEF Clients, IInv, AStep
<1>2. QED
  BY <1>1, SameSeen

LEMMA BStepSeen ==
    ASSUME IInv, BStep
    PROVE  A!Nothing("a") \/ A!Round("a", FreeIds) \/ A!Assigns("a")
<1>1. B!Nothing("a") \/ B!Round("a", FreeIds) \/ B!Assigns("a")
  BY ConstantsHold, FreeIdsFresh, B!Seen, SameGroup, IdsAssumption, OffsetAssumption
     DEF Clients, IInv, BStep
<1>2. QED
  BY <1>1, SameSeen

LEMMA RoundCompletesSeen ==
    ASSUME RoundCompletes
    PROVE  A!Generation("a") /\ B!Generation("b")
<1>1. PICK fresh \in Generations : Group!CompleteJoin(fresh)
  BY DEF RoundCompletes, FreeGenerations
<1>2. QED
  BY <1>1 DEF Group!CompleteJoin, Clients, A!Generation, B!Generation, Group!Blocked,
     A!Group!Blocked, B!Group!Blocked, Group!JoinAnswer, A!Group!JoinAnswer, B!Group!JoinAnswer

LEMMA SessionEndsSeen ==
    ASSUME NEW m, SessionEnds(m)
    PROVE  A!Round("a", {}) /\ B!Round("b", {})
BY DEF SessionEnds, Group!Expire, Group!Prepare, Group!Interrupted, Group!Blocked,
       Group!SyncAnswer, Group!REBALANCE_IN_PROGRESS, Clients, A!Round, B!Round,
       A!Group!Blocked, B!Group!Blocked, A!Group!SyncAnswer, B!Group!SyncAnswer,
       A!OtherError, B!OtherError

-----------------------------------------------------------------------------
(* Each step preserves the invariant. *)

LEMMA AStepKeeps == ASSUME IInv, AStep PROVE IInv'
<1>1. A!ClientOK /\ B!ClientOK /\ A!GroupOK /\ A!LogOK /\ B!GroupOK /\ B!LogOK /\ Apart
  BY SameGroup DEF IInv
<1>2. A!ClientNext(FreeIds) /\ UNCHANGED bVars /\ UNCHANGED B!vars
  BY OthersUnchanged DEF AStep
<1>3. A!ClientOK'
  BY <1>1, <1>2, ConstantsHold, FreeIdsFresh, A!NetworkKept, A!MemberStep, IdsAssumption,
     OffsetAssumption DEF A!ClientOK
<1>4. A!GroupOK' /\ A!LogOK'
  BY <1>1, <1>2, ConstantsHold, FreeIdsFresh, A!GroupStep, A!LogKept, IdsAssumption,
     OffsetAssumption
<1>5. B!GroupOK'
  BY <1>4, SameGroupNext
<1>6. B!Nothing("b") \/ B!Round("b", FreeIds) \/ B!Assigns("b")
  BY AStepSeen
<1>7. B!MemberOK'
  <2>1. CASE B!Nothing("b")
    BY <1>1, <1>2, <2>1, B!NothingElse, IdsAssumption, OffsetAssumption DEF B!ClientOK
  <2>2. CASE B!Round("b", FreeIds)
    BY <1>1, <1>2, <2>2, ConstantsHold, FreeIdsFresh, B!RoundElse, IdsAssumption, OffsetAssumption
       DEF B!ClientOK, B!Ids
  <2>3. CASE B!Assigns("b")
    BY <1>1, <1>2, <1>5, <2>3, ConstantsHold, B!AssignsElse, IdsAssumption, OffsetAssumption
       DEF B!ClientOK
  <2>4. QED
    BY <1>6, <2>1, <2>2, <2>3
<1>8. B!Inv'
  BY <1>1, <1>2, B!InvStep, IdsAssumption, OffsetAssumption DEF B!ClientOK
<1>9. Apart'
  <2>1. A!Ids' \subseteq A!Ids \cup FreeIds \cup {NoMember}
    BY <1>1, <1>2, ConstantsHold, FreeIdsFresh, A!IdsStep, IdsAssumption, OffsetAssumption
  <2>2. UNCHANGED waiting["b"]
    BY <1>6 DEF B!Nothing, B!Round, B!Assigns
  <2>3. QED
    BY <1>1, <1>2, <2>1, <2>2, OthersIds, FreeIdsFresh DEF Apart
<1>10. QED
  BY <1>3, <1>4, <1>7, <1>8, <1>9 DEF IInv, B!ClientOK

LEMMA BStepKeeps == ASSUME IInv, BStep PROVE IInv'
<1>1. B!ClientOK /\ A!ClientOK /\ A!GroupOK /\ A!LogOK /\ B!GroupOK /\ B!LogOK /\ Apart
  BY SameGroup DEF IInv
<1>2. B!ClientNext(FreeIds) /\ UNCHANGED aVars /\ UNCHANGED A!vars
  BY OthersUnchanged DEF BStep
<1>3. B!ClientOK'
  BY <1>1, <1>2, ConstantsHold, FreeIdsFresh, B!NetworkKept, B!MemberStep, IdsAssumption,
     OffsetAssumption DEF B!ClientOK
<1>4. B!GroupOK' /\ B!LogOK'
  BY <1>1, <1>2, ConstantsHold, FreeIdsFresh, B!GroupStep, B!LogKept, IdsAssumption,
     OffsetAssumption
<1>5. A!GroupOK' /\ A!LogOK'
  BY <1>4, SameGroupNext
<1>6. A!Nothing("a") \/ A!Round("a", FreeIds) \/ A!Assigns("a")
  BY BStepSeen
<1>7. A!MemberOK'
  <2>1. CASE A!Nothing("a")
    BY <1>1, <1>2, <2>1, A!NothingElse, IdsAssumption, OffsetAssumption DEF A!ClientOK
  <2>2. CASE A!Round("a", FreeIds)
    BY <1>1, <1>2, <2>2, ConstantsHold, FreeIdsFresh, A!RoundElse, IdsAssumption, OffsetAssumption
       DEF A!ClientOK, A!Ids
  <2>3. CASE A!Assigns("a")
    BY <1>1, <1>2, <1>5, <2>3, ConstantsHold, A!AssignsElse, IdsAssumption, OffsetAssumption
       DEF A!ClientOK
  <2>4. QED
    BY <1>6, <2>1, <2>2, <2>3
<1>8. A!Inv'
  BY <1>1, <1>2, A!InvStep, IdsAssumption, OffsetAssumption DEF A!ClientOK
<1>9. Apart'
  <2>1. B!Ids' \subseteq B!Ids \cup FreeIds \cup {NoMember}
    BY <1>1, <1>2, ConstantsHold, FreeIdsFresh, B!IdsStep, IdsAssumption, OffsetAssumption
  <2>2. UNCHANGED waiting["a"]
    BY <1>6 DEF A!Nothing, A!Round, A!Assigns
  <2>3. QED
    BY <1>1, <1>2, <2>1, <2>2, OthersIds, FreeIdsFresh DEF Apart
<1>10. QED
  BY <1>3, <1>5, <1>7, <1>8, <1>9 DEF IInv, A!ClientOK

LEMMA RoundCompletesKeeps == ASSUME IInv, RoundCompletes PROVE IInv'
<1> DEFINE fresh == CHOOSE g \in FreeGenerations : TRUE
<1>1. A!ClientOK /\ B!ClientOK /\ A!GroupOK /\ A!LogOK /\ B!GroupOK /\ Apart
  BY SameGroup DEF IInv
<1>2. fresh \in FreeGenerations /\ Group!CompleteJoin(fresh)
  BY DEF RoundCompletes
<1>3. /\ UNCHANGED <<aVars, bVars, committed, log, printed, resetTo, disturbed, faults>>
      /\ UNCHANGED A!vars /\ UNCHANGED B!vars
  BY OthersUnchanged DEF RoundCompletes
<1> HIDE DEF fresh
<1>4. A!Group!CompleteJoin(fresh)
  BY <1>2 DEF Group!CompleteJoin, A!Group!CompleteJoin, Group!Blocked, A!Group!Blocked,
     Group!JoinAnswer, A!Group!JoinAnswer
<1>5. A!GroupOK' /\ B!GroupOK'
  <2>1. fresh \in Generations
    BY <1>2 DEF FreeGenerations
  <2>2. A!GroupOK'
    BY <1>1, <1>4, <2>1, A!CompleteJoinOK, IdsAssumption, OffsetAssumption
  <2>3. QED
    BY <2>2, SameGroupNext
<1>6. A!Generation("a") /\ B!Generation("b")
  BY RoundCompletesSeen
<1>7. /\ generation' \notin {a_generation_id_, b_generation_id_}
      /\ \A c \in Clients :
            waiting[c].call = "join" /\ answer[c] # None => generation' # answer[c].generation
  BY <1>2 DEF Group!CompleteJoin, FreeGenerations, Told
<1>8. A!MemberOK'
  BY <1>1, <1>3, <1>5, <1>6, <1>7, ConstantsHold, A!GenerationElse, IdsAssumption,
     OffsetAssumption DEF A!ClientOK, Clients
<1>9. B!MemberOK'
  BY <1>1, <1>3, <1>5, <1>6, <1>7, ConstantsHold, B!GenerationElse, IdsAssumption,
     OffsetAssumption DEF B!ClientOK, Clients
<1>10. A!Inv' /\ B!Inv'
  BY <1>1, <1>3, A!InvStep, B!InvStep, IdsAssumption, OffsetAssumption DEF A!ClientOK, B!ClientOK
<1>11. A!LogOK'
  BY <1>1, <1>3 DEF A!LogOK
<1>12. Apart'
  BY <1>1, <1>3, <1>6, OthersIds DEF Apart, A!Generation, B!Generation
<1>13. QED
  BY <1>5, <1>8, <1>9, <1>10, <1>11, <1>12 DEF IInv, A!ClientOK, B!ClientOK

LEMMA SessionEndsKeeps == ASSUME IInv, NEW m, SessionEnds(m) PROVE IInv'
<1>1. A!ClientOK /\ B!ClientOK /\ A!GroupOK /\ A!LogOK /\ B!GroupOK /\ Apart
  BY SameGroup DEF IInv
<1>2. /\ UNCHANGED <<aVars, bVars, committed, log, printed, resetTo, disturbed>>
      /\ UNCHANGED A!vars /\ UNCHANGED B!vars
  BY OthersUnchanged DEF SessionEnds
<1>3. Group!Expire(m)
  BY DEF SessionEnds
<1>4. A!Group!Expire(m)
  BY <1>3 DEF Group!Expire, A!Group!Expire, Group!MayExpire, A!Group!MayExpire, Group!Blocked,
     A!Group!Blocked, Group!Prepare, A!Group!Prepare, Group!Interrupted, A!Group!Interrupted,
     Group!SyncAnswer, A!Group!SyncAnswer, Group!REBALANCE_IN_PROGRESS,
     A!Group!REBALANCE_IN_PROGRESS
<1>5. A!GroupOK'
  BY <1>1, <1>4, A!ExpireOK, IdsAssumption, OffsetAssumption
<1>6. A!Round("a", {}) /\ B!Round("b", {})
  BY SessionEndsSeen
<1>7. A!MemberOK'
  BY <1>1, <1>2, <1>6, ConstantsHold, A!RoundElse, IdsAssumption, OffsetAssumption DEF A!ClientOK
<1>8. B!MemberOK'
  BY <1>1, <1>2, <1>6, ConstantsHold, B!RoundElse, IdsAssumption, OffsetAssumption DEF B!ClientOK
<1>9. A!Inv' /\ B!Inv'
  BY <1>1, <1>2, A!InvStep, B!InvStep, IdsAssumption, OffsetAssumption DEF A!ClientOK, B!ClientOK
<1>10. A!LogOK'
  BY <1>1, <1>2 DEF A!LogOK
<1>11. Apart'
  BY <1>1, <1>2, <1>6, OthersIds DEF Apart, A!Round, B!Round
<1>12. QED
  BY <1>5, <1>7, <1>8, <1>9, <1>10, <1>11 DEF IInv, A!ClientOK, B!ClientOK

(* Nothing changes but the log, or not even that. *)
LEMMA ProducedKeeps ==
    ASSUME IInv, UNCHANGED <<aVars, bVars, phase, members, joined, generation, leader, assignment,
                             waiting, answer, committed, printed, resetTo>>,
           log' \in [Partitions -> A!Offsets]
    PROVE  IInv'
<1>1. A!ClientOK /\ B!ClientOK /\ A!GroupOK /\ A!LogOK /\ Apart
  BY DEF IInv
<1>2. UNCHANGED A!vars /\ UNCHANGED B!vars
  BY OthersUnchanged
<1>3. A!Inv' /\ B!Inv'
  BY <1>1, <1>2, A!InvStep, B!InvStep, IdsAssumption, OffsetAssumption DEF A!ClientOK, B!ClientOK
<1>4. A!Nothing("a") /\ B!Nothing("b")
  BY DEF A!Nothing, B!Nothing, A!groupState, B!groupState
<1>5. A!MemberOK' /\ B!MemberOK'
  BY <1>1, <1>2, <1>4, A!NothingElse, B!NothingElse, IdsAssumption, OffsetAssumption
     DEF A!ClientOK, B!ClientOK
<1>6. A!GroupOK'
  BY <1>1 DEF A!GroupOK
<1>7. A!LogOK'
  BY <1>1 DEF A!LogOK
<1>8. Apart'
  BY <1>1, OthersIds DEF Apart
<1>9. QED
  BY <1>3, <1>5, <1>6, <1>7, <1>8 DEF IInv, A!ClientOK, B!ClientOK

LEMMA IInvStep == IInv /\ [Next]_vars => IInv'
<1> SUFFICES ASSUME IInv, [Next]_vars PROVE IInv'
  OBVIOUS
<1>1. log \in [Partitions -> A!Offsets]
  BY DEF IInv, A!LogOK
<1>2. CASE AStep
  BY <1>2, AStepKeeps
<1>3. CASE BStep
  BY <1>3, BStepKeeps
<1>4. CASE RoundCompletes
  BY <1>4, RoundCompletesKeeps
<1>5. ASSUME NEW m \in MemberIds, SessionEnds(m) PROVE IInv'
  BY <1>5, SessionEndsKeeps
<1>6. ASSUME NEW p \in Partitions, Produce(p) PROVE IInv'
  <2>1. log' \in [Partitions -> A!Offsets]
    BY <1>1, <1>6, OffsetAssumption DEF Produce, A!Offsets
  <2>2. QED
    BY <1>6, <2>1, ProducedKeeps DEF Produce
<1>7. CASE UNCHANGED vars
  BY <1>1, <1>7, ProducedKeeps DEF vars, shared
<1>8. QED
  BY <1>2, <1>3, <1>4, <1>5, <1>6, <1>7 DEF Next, Ended

LEMMA IInvInit == Init => IInv
<1> SUFFICES ASSUME Init PROVE IInv
  OBVIOUS
<1>1. A!Group!Init /\ B!Group!Init
  BY DEF Init, Group!Init, A!Group!Init, B!Group!Init, Group!NoCall, A!Group!NoCall,
     B!Group!NoCall
<1>2. A!ClientOK /\ B!ClientOK
  BY <1>1, ConstantsHold, A!MemberInit, B!MemberInit, IdsAssumption, OffsetAssumption DEF Init
<1>3. A!GroupOK
  <2>1. A!IsFiniteSet({})
    BY FS_EmptySet, SameFinite
  <2>2. QED
    BY <2>1, GroupAssumption DEF Init, Group!Init, Group!NoCall, A!GroupOK
<1>4. A!LogOK
  BY OffsetAssumption DEF Init, A!LogOK, A!Offsets
<1>5. Apart
  BY DEF Init, A!ClientInit, B!ClientInit, A!Init, B!Init, Group!Init, Group!NoCall, Clients,
     Apart, A!Ids, B!Ids
<1>6. QED
  BY <1>2, <1>3, <1>4, <1>5 DEF IInv

LEMMA IInvHolds == Spec => []IInv
BY IInvInit, IInvStep, PTL DEF Spec

-----------------------------------------------------------------------------
(* Safety *)

(* Every variable of the clients, the coordinator and the log has its      *)
(* type, whatever the two clients and the coordinator do.                  *)
THEOREM TypeCorrect == Spec => []TypeOK
<1>1. IInv => TypeOK
  <2> SUFFICES ASSUME IInv PROVE TypeOK
    OBVIOUS
  <2>1. A!TypeOK /\ B!TypeOK /\ A!GroupOK /\ A!LogOK
    BY DEF IInv, A!ClientOK, B!ClientOK, A!Inv, B!Inv
  <2>2. \A c \in Clients : waiting[c].call = "none" => answer[c] = None
    BY DEF IInv, A!ClientOK, B!ClientOK, A!MemberOK, B!MemberOK, A!Calls, B!Calls, Clients
  <2>3. \A c \in Clients : answer[c] # None => waiting[c] # Group!NoCall
    BY <2>2 DEF Group!NoCall
  <2>4. QED
    BY <2>1, <2>3 DEF TypeOK, A!GroupOK, A!LogOK
<1>2. QED
  BY <1>1, IInvHolds, PTL

LEMMA Disjoint == IInv => OwnersDisjoint
<1> SUFFICES ASSUME IInv, A!Active, B!Active
             PROVE  a_my_partitions_id_ \cap b_my_partitions_id_ = {}
  BY DEF OwnersDisjoint
<1>1. /\ a_my_partitions_id_ = assignment[a_member_id_]
      /\ b_my_partitions_id_ = assignment[b_member_id_]
  BY DEF IInv, A!ClientOK, B!ClientOK, A!MemberOK, B!MemberOK, A!Holding, B!Holding,
     A!Current, B!Current, A!Active, B!Active
<1>2. a_member_id_ \in MemberIds /\ b_member_id_ \in MemberIds
  BY DEF A!Active, B!Active, IInv, A!GroupOK
<1>3. a_member_id_ # b_member_id_
  BY <1>2, IdsAssumption DEF IInv, Apart, A!Ids, B!Ids
<1>4. QED
  BY <1>1, <1>2, <1>3 DEF IInv, A!GroupOK

(* No partition is fetched by two clients that the coordinator takes for   *)
(* members of one generation.                                              *)
THEOREM NobodySharesAPartition == Spec => []OwnersDisjoint
BY Disjoint, IInvHolds, PTL

(* The leader's assignment has an entry for every member of the            *)
(* generation: nobody is sent an assignment of no bytes.                   *)
THEOREM EverybodyIsAssigned == Spec => []NobodyLeftOut
<1>1. IInv => NobodyLeftOut
  BY GroupAssumption DEF IInv, A!GroupOK, NobodyLeftOut
<1>2. QED
  BY <1>1, IInvHolds, PTL

-----------------------------------------------------------------------------
(* The log: what somebody fetches from, commits or has committed is        *)
(* covered by what was printed or skipped.                                 *)

LogInv == A!Covers /\ B!Covers /\ A!LogCovered

LEMMA SameLog ==
    /\ A!LogCovered <=> B!LogCovered
    /\ A!Grows <=> B!Grows
BY DEF A!LogCovered, B!LogCovered, A!Covered, B!Covered, A!Offsets, B!Offsets, A!Grows, B!Grows

LEMMA SameLogNext == A!LogCovered' <=> B!LogCovered'
BY SameLog, PTL

LEMMA LogInvStep == IInv /\ IInv' /\ LogInv /\ [Next]_vars => LogInv'
<1> SUFFICES ASSUME IInv, IInv', LogInv, [Next]_vars PROVE LogInv'
  OBVIOUS
<1>1. /\ A!ClientOK /\ B!ClientOK /\ A!LogOK /\ B!LogOK /\ A!LogOK' /\ B!LogOK'
      /\ A!Covers /\ B!Covers /\ A!LogCovered /\ B!LogCovered
  BY SameGroup, SameGroupNext, SameLog DEF IInv, LogInv
<1>2. CASE AStep
  <2>1. A!Covers' /\ A!LogCovered' /\ A!Grows
    BY <1>1, <1>2, A!CoversStep, IdsAssumption, OffsetAssumption DEF AStep
  <2>2. B!Covers'
    BY <1>1, <1>2, <2>1, SameLog, OthersUnchanged, B!CoversElse, IdsAssumption, OffsetAssumption
       DEF AStep
  <2>3. QED
    BY <2>1, <2>2 DEF LogInv
<1>3. CASE BStep
  <2>1. B!Covers' /\ B!LogCovered' /\ B!Grows
    BY <1>1, <1>3, B!CoversStep, IdsAssumption, OffsetAssumption DEF BStep
  <2>2. A!Covers'
    BY <1>1, <1>3, <2>1, SameLog, OthersUnchanged, A!CoversElse, IdsAssumption, OffsetAssumption
       DEF BStep
  <2>3. QED
    BY <2>1, <2>2, SameLogNext DEF LogInv
<1>4. ASSUME UNCHANGED <<aVars, bVars, committed, printed, resetTo>>, A!Grows PROVE LogInv'
  <2>1. A!Covers' /\ B!Covers'
    BY <1>1, <1>4, SameLog, OthersUnchanged, A!CoversElse, B!CoversElse, IdsAssumption,
       OffsetAssumption
  <2>2. A!LogCovered'
    BY <1>1, <1>4, A!LogCoveredKept, IdsAssumption, OffsetAssumption
  <2>3. QED
    BY <2>1, <2>2 DEF LogInv
<1>5. ASSUME UNCHANGED <<aVars, bVars, committed, printed, resetTo, log>> PROVE LogInv'
  BY <1>1, <1>4, <1>5, A!NothingGrows, IdsAssumption, OffsetAssumption
<1>6. CASE RoundCompletes \/ (\E m \in MemberIds : SessionEnds(m)) \/ UNCHANGED vars
  BY <1>5, <1>6 DEF RoundCompletes, SessionEnds, vars, shared
<1>7. ASSUME NEW p \in Partitions, Produce(p) PROVE LogInv'
  <2>1. \A q \in Partitions : log[q] \in Int /\ resetTo[q] \in Int
    BY <1>1, OffsetAssumption DEF A!LogOK, A!Offsets, A!UnknownOffset
  <2>2. log' = [log EXCEPT ![p] = @ + 1] /\ UNCHANGED <<printed, resetTo>>
    BY <1>7 DEF Produce
  <2>3. A!Grows
    BY <1>1, <2>1, <2>2 DEF A!Grows, A!LogOK
  <2>4. QED
    BY <1>4, <1>7, <2>3 DEF Produce
<1>8. QED
  BY <1>2, <1>3, <1>6, <1>7 DEF Next, Ended

(* A message the group has committed past was printed, or skipped by a     *)
(* reset to the newest offset: whoever commits, in whichever generation.   *)
THEOREM NoMessageIsLost == Spec => []NothingLost
<1>1. Init => LogInv
  <2> SUFFICES ASSUME Init PROVE LogInv
    OBVIOUS
  <2>1. A!Covers /\ B!Covers
    BY DEF Init, A!ClientInit, B!ClientInit, A!Init, B!Init, A!Covers, B!Covers, A!NoCommit,
       B!NoCommit
  <2>2. A!LogCovered
    BY OffsetAssumption DEF Init, A!LogCovered, A!Covered, A!Offsets, A!UnknownOffset
  <2>3. QED
    BY <2>1, <2>2 DEF LogInv
<1>2. IInv /\ LogInv => NothingLost
  <2> SUFFICES ASSUME IInv, LogInv, NEW p \in Partitions, NEW o \in 0 .. committed[p] - 1
               PROVE  <<p, o>> \in printed \/ o < resetTo[p]
    BY DEF NothingLost
  <2>1. committed[p] \in Int /\ committed[p] <= MaxOffset
    BY OffsetAssumption DEF IInv, A!LogOK, A!Offsets, A!UnknownOffset
  <2>2. o \in A!Offsets /\ o < committed[p]
    BY <2>1, OffsetAssumption DEF A!Offsets
  <2>3. QED
    BY <2>2 DEF LogInv, A!LogCovered, A!Covered
<1>3. QED
  BY <1>1, <1>2, IInvHolds, LogInvStep, PTL DEF Spec

-----------------------------------------------------------------------------
(* Action properties *)

(* A client that asks with an id the coordinator has expelled goes on      *)
(* asking with it and is never let in: no step of its own, of the other    *)
(* client or of the coordinator changes that.                              *)
THEOREM ExpelledStays == Spec => ExpelledForGood
<1>1. IInv /\ [Next]_vars => (A!Expelled => A!Expelled') /\ (B!Expelled => B!Expelled')
  <2> SUFFICES ASSUME IInv, [Next]_vars
               PROVE  (A!Expelled => A!Expelled') /\ (B!Expelled => B!Expelled')
    OBVIOUS
  <2>1. A!ClientOK /\ B!ClientOK /\ A!GroupOK /\ A!LogOK /\ B!GroupOK /\ B!LogOK
    BY SameGroup DEF IInv
  <2>2. ASSUME UNCHANGED aVars, A!Expelled,
               NEW new, FreeIds = new \/ {} = new,
               A!Nothing("a") \/ A!Round("a", new) \/ A!Generation("a") \/ A!Assigns("a")
        PROVE  A!Expelled'
    <3>1. a_member_id_ \notin new /\ UNCHANGED A!vars
      BY <2>2, FreeIdsFresh, OthersUnchanged DEF A!Ids
    <3>2. QED
      BY <2>1, <2>2, <3>1, A!ExpelledElse, IdsAssumption, OffsetAssumption DEF A!ClientOK
  <2>3. ASSUME UNCHANGED bVars, B!Expelled,
               NEW new, FreeIds = new \/ {} = new,
               B!Nothing("b") \/ B!Round("b", new) \/ B!Generation("b") \/ B!Assigns("b")
        PROVE  B!Expelled'
    <3>1. b_member_id_ \notin new /\ UNCHANGED B!vars
      BY <2>3, FreeIdsFresh, OthersUnchanged DEF B!Ids
    <3>2. QED
      BY <2>1, <2>3, <3>1, B!ExpelledElse, IdsAssumption, OffsetAssumption DEF B!ClientOK
  <2>4. CASE AStep
    <3>1. A!Expelled => A!Expelled'
      BY <2>1, <2>4, ConstantsHold, A!ExpelledStep, IdsAssumption, OffsetAssumption DEF AStep
    <3>2. QED
      BY <2>3, <2>4, <3>1, AStepSeen DEF AStep
  <2>5. CASE BStep
    <3>1. B!Expelled => B!Expelled'
      BY <2>1, <2>5, ConstantsHold, B!ExpelledStep, IdsAssumption, OffsetAssumption DEF BStep
    <3>2. QED
      BY <2>2, <2>5, <3>1, BStepSeen DEF BStep
  <2>6. CASE RoundCompletes
    BY <2>2, <2>3, <2>6, RoundCompletesSeen DEF RoundCompletes
  <2>7. ASSUME NEW m \in MemberIds, SessionEnds(m)
        PROVE  (A!Expelled => A!Expelled') /\ (B!Expelled => B!Expelled')
    BY <2>2, <2>3, <2>7, SessionEndsSeen DEF SessionEnds
  <2>8. CASE (\E p \in Partitions : Produce(p)) \/ UNCHANGED vars
    <3>1. UNCHANGED <<aVars, bVars>> /\ A!Nothing("a") /\ B!Nothing("b")
      BY <2>8 DEF Produce, vars, shared, A!Nothing, B!Nothing, A!groupState, B!groupState
    <3>2. QED
      BY <2>2, <2>3, <3>1
  <2>9. QED
    BY <2>4, <2>5, <2>6, <2>7, <2>8 DEF Next, Ended
<1>2. QED
  BY <1>1, IInvHolds, PTL DEF Spec, ExpelledForGood

(* What the other client stores is not this one's, as long as both are     *)
(* current.                                                                *)
ResetInv == A!ResetsSpare /\ B!ResetsSpare

LEMMA ResetInvStep == IInv /\ ResetInv /\ [Next]_vars => ResetInv'
<1> SUFFICES ASSUME IInv, ResetInv, [Next]_vars PROVE ResetInv'
  OBVIOUS
<1>1. /\ A!ClientOK /\ B!ClientOK /\ A!LogOK /\ B!LogOK /\ A!ResetsSpare /\ B!ResetsSpare
      /\ OwnersDisjoint
  BY SameGroup, Disjoint DEF IInv, ResetInv
<1>2. CASE AStep
  <2>1. A!ResetsSpare' /\ A!StoresOwn
    BY <1>1, <1>2, ConstantsHold, A!ResetsSpareStep, A!StoresOwnStep, IdsAssumption,
       OffsetAssumption DEF AStep
  <2>2. UNCHANGED B!vars /\ b_member_id_ \notin FreeIds
    BY <1>2, OthersUnchanged, FreeIdsFresh DEF AStep, B!Ids
  <2>3. B!Current' => B!Current
    BY <1>2, <2>2, AStepSeen, B!CurrentElse, IdsAssumption, OffsetAssumption
  <2>4. B!Active => \A p \in b_my_partitions_id_ : B!OffsetKept(p)
    BY <1>1, <2>1 DEF A!StoresOwn, A!OffsetKept, B!OffsetKept, OwnersDisjoint, B!ClientOK, B!Inv, B!TypeOK
  <2>5. B!ResetsSpare'
    BY <1>1, <2>1, <2>2, <2>3, <2>4, B!ResetsSpareElse, IdsAssumption, OffsetAssumption
  <2>6. QED
    BY <2>1, <2>5 DEF ResetInv
<1>3. CASE BStep
  <2>1. B!ResetsSpare' /\ B!StoresOwn
    BY <1>1, <1>3, ConstantsHold, B!ResetsSpareStep, B!StoresOwnStep, IdsAssumption,
       OffsetAssumption DEF BStep
  <2>2. UNCHANGED A!vars /\ a_member_id_ \notin FreeIds
    BY <1>3, OthersUnchanged, FreeIdsFresh DEF BStep, A!Ids
  <2>3. A!Current' => A!Current
    BY <1>3, <2>2, BStepSeen, A!CurrentElse, IdsAssumption, OffsetAssumption
  <2>4. A!Active => \A p \in a_my_partitions_id_ : A!OffsetKept(p)
    BY <1>1, <2>1 DEF B!StoresOwn, A!OffsetKept, B!OffsetKept, OwnersDisjoint, A!ClientOK, A!Inv, A!TypeOK
  <2>5. A!ResetsSpare'
    BY <1>1, <2>1, <2>2, <2>3, <2>4, A!ResetsSpareElse, IdsAssumption, OffsetAssumption
  <2>6. QED
    BY <2>1, <2>5 DEF ResetInv
<1>4. ASSUME UNCHANGED <<aVars, bVars, committed, disturbed>>,
             A!Current' => A!Current, B!Current' => B!Current
      PROVE  ResetInv'
  BY <1>1, <1>4, OthersUnchanged, A!ResetsSpareElse, B!ResetsSpareElse, IdsAssumption,
     OffsetAssumption DEF ResetInv, A!OffsetKept, B!OffsetKept
<1>5. CASE RoundCompletes
  <2>1. /\ UNCHANGED <<aVars, bVars, committed, disturbed>>
        /\ generation' \notin {a_generation_id_, b_generation_id_}
    BY <1>5 DEF RoundCompletes, Group!CompleteJoin, FreeGenerations
  <2>2. (A!Current' => A!Current) /\ (B!Current' => B!Current)
    BY <1>5, <2>1, OthersUnchanged, RoundCompletesSeen, A!CurrentElse, B!CurrentElse,
       IdsAssumption, OffsetAssumption
  <2>3. QED
    BY <1>4, <2>1, <2>2
<1>6. ASSUME NEW m \in MemberIds, SessionEnds(m) PROVE ResetInv'
  <2>1. UNCHANGED <<aVars, bVars, committed, disturbed>>
    BY <1>6 DEF SessionEnds
  <2>2. (A!Current' => A!Current) /\ (B!Current' => B!Current)
    BY <1>6, <2>1, OthersUnchanged, SessionEndsSeen, A!CurrentElse, B!CurrentElse, IdsAssumption,
       OffsetAssumption
  <2>3. QED
    BY <1>4, <2>1, <2>2
<1>7. CASE (\E p \in Partitions : Produce(p)) \/ UNCHANGED vars
  <2>1. UNCHANGED <<aVars, bVars, committed, disturbed, members, generation>>
    BY <1>7 DEF Produce, vars, shared
  <2>2. (A!Current' => A!Current) /\ (B!Current' => B!Current)
    BY <2>1 DEF A!Current, B!Current, aVars, bVars
  <2>3. QED
    BY <1>4, <2>1, <2>2
<1>8. QED
  BY <1>2, <1>3, <1>5, <1>6, <1>7 DEF Next, Ended

(* The reset of a client that owns the partition replaces no offset that   *)
(* an owner has committed, but at most one that the reset of a client that *)
(* does not own it has put there: otherwise its commit is refused.         *)
THEOREM ResetsOfOwnersSpare == Spec => OwnResetsSpareCommitted
<1> DEFINE Spared(p) == p \in disturbed \/ committed[p] \in {A!UnknownOffset, committed'[p]}
<1>1. Init => ResetInv
  BY DEF Init, A!ClientInit, B!ClientInit, A!Init, B!Init, ResetInv, A!ResetsSpare,
     B!ResetsSpare, A!At, B!At, A!In, B!In
<1>2. ASSUME IInv, ResetInv, [Next]_vars, NEW p \in Partitions, A!At("commit_reset"),
             Resets(p, a_committing_, a_my_partitions_id_), aVars' # aVars
      PROVE  Spared(p)
  <2>1. A!ClientNext(FreeIds) /\ ~UNCHANGED A!vars
    BY <1>2, OthersUnchanged DEF Next, AStep, BStep, RoundCompletes, SessionEnds, Produce, Ended,
       vars
  <2>2. QED
    BY <1>2, <2>1, A!ResetAllowed, IdsAssumption, OffsetAssumption DEF IInv, ResetInv, Resets
<1>3. ASSUME IInv, ResetInv, [Next]_vars, NEW p \in Partitions, B!At("commit_reset"),
             Resets(p, b_committing_, b_my_partitions_id_), bVars' # bVars
      PROVE  Spared(p)
  <2>1. B!ClientNext(FreeIds) /\ ~UNCHANGED B!vars
    BY <1>3, OthersUnchanged DEF Next, AStep, BStep, RoundCompletes, SessionEnds, Produce, Ended,
       vars
  <2>2. A!UnknownOffset = B!UnknownOffset
    BY DEF A!UnknownOffset, B!UnknownOffset
  <2>3. QED
    BY <1>3, <2>1, <2>2, B!ResetAllowed, IdsAssumption, OffsetAssumption DEF IInv, ResetInv, Resets
<1>4. IInv /\ ResetInv /\ [Next]_vars =>
        \A p \in Partitions :
         (\/ A!At("commit_reset") /\ Resets(p, a_committing_, a_my_partitions_id_) /\ aVars' # aVars
          \/ B!At("commit_reset") /\ Resets(p, b_committing_, b_my_partitions_id_) /\ bVars' # bVars)
         => Spared(p)
  BY <1>2, <1>3
<1>5. QED
  BY <1>1, <1>4, IInvHolds, ResetInvStep, PTL DEF Spec, OwnResetsSpareCommitted
=============================================================================
