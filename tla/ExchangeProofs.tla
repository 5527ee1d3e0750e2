---------------------------- MODULE ExchangeProofs ----------------------------
(***************************************************************************)
(* Exchange, for every set of brokers, requests and answers, however the   *)
(* answers are cut: the type invariant, and that exchanges leave nothing   *)
(* behind.  Requests, for names, partitions and members of any number and  *)
(* length: which fit, and that their sizes are what is written.            *)
(*                                                                         *)
(* Drained is not inductive: it says nothing of an exchange that goes on.  *)
(* What it rests on is that only the broker of the exchange has anything   *)
(* to answer or on its way (Quiet), that it answers once (OneAnswer), and  *)
(* that the bytes read are counted from the beginning of the answer        *)
(* (Counted).                                                              *)
(***************************************************************************)
EXTENDS WireExchange, WireProofs, TLAPS, SequenceTheorems

USE DEF Wires

Waiting(b) == phase_ \in {"header", "body"} /\ b = broker_

Quiet ==
    phase_ # "ended" =>
        \A b \in Brokers : ~Waiting(b) => asked[b] = NoRequest /\ inbound[b] = Nothing

OneAnswer ==
    \A b \in Brokers :
        /\ asked[b] # NoRequest => inbound[b] = Nothing
        /\ inbound[b] # Nothing =>
            inbound[b].answer \in Response /\ inbound[b].size = inbound[b].answer.size

Counted ==
    /\ phase_ = "header" => inbound[broker_].taken = 0
    /\ phase_ = "body" =>
        /\ inbound[broker_].size = 4 + total_len
        /\ inbound[broker_].taken = 4 + sum_read
        /\ asked[broker_] = NoRequest

IInv == TypeOK /\ Quiet /\ OneAnswer /\ Counted

-----------------------------------------------------------------------------
(* Every answer has the size it announces, and the four bytes of it. *)
LEMMA ResponseSizes ==
    ASSUME NEW answer \in Response
    PROVE  /\ answer.announced \in Nat \ {0}
           /\ answer.size = 4 + answer.announced
           /\ answer.comes \in {"response", "error", "overread", "terminate"}
           /\ Cuts(answer.size) \subseteq Nat
  BY AnswersAssumption, CutsAssumption DEF Response

(* A broker that is erased leaves nothing behind. *)
LEMMA ErasePreserves ==
    ASSUME IInv, NEW b \in Brokers, Erase(b), phase_ # "ended",
           broker_' = b, \A c \in Brokers \ {b} : ~Waiting(c)
    PROVE  IInv'
<1>0. TypeOK /\ Quiet /\ OneAnswer /\ Counted BY DEF IInv
<1>1. end_ = "none" BY <1>0 DEF TypeOK
<1>2. TypeOK' BY <1>0, <1>1 DEF TypeOK, Erase, Return, Nothing
<1>3. Quiet' BY <1>0 DEF Quiet, Waiting, TypeOK, Erase, Return
<1>4. OneAnswer' BY <1>0 DEF OneAnswer, TypeOK, Erase, Return
<1>5. Counted' BY DEF Counted, Erase, Return
<1> QED BY <1>2, <1>3, <1>4, <1>5 DEF IInv

-----------------------------------------------------------------------------
LEMMA InitIInv == Init => IInv
<1> SUFFICES ASSUME Init PROVE IInv OBVIOUS
<1>1. TypeOK BY DEF Init, TypeOK, Nothing
<1>2. Quiet /\ OneAnswer /\ Counted BY DEF Init, Quiet, OneAnswer, Counted
<1> QED BY <1>1, <1>2 DEF IInv

LEMMA SendOverflowsPreserves ==
    ASSUME IInv, NEW b \in alive_brokers_, NEW request \in RequestsSent, SendOverflows(b, request)
    PROVE  IInv'
<1>0. TypeOK /\ Quiet /\ OneAnswer /\ Counted BY DEF IInv
<1>1. TypeOK' BY <1>0 DEF TypeOK, SendOverflows, Starts, End, network
<1>2. Quiet' /\ Counted' BY DEF Quiet, Counted, SendOverflows, End
<1>3. OneAnswer' BY <1>0 DEF OneAnswer, SendOverflows, network
<1> QED BY <1>1, <1>2, <1>3 DEF IInv

LEMMA SendKillsPreserves ==
    ASSUME IInv, NEW b \in alive_brokers_, NEW request \in RequestsSent, SendKills(b, request)
    PROVE  IInv'
<1>0. TypeOK /\ Quiet /\ OneAnswer /\ Counted BY DEF IInv
<1>1. TypeOK' BY <1>0 DEF TypeOK, SendKills, Starts, End, network
<1>2. Quiet' /\ Counted' BY DEF Quiet, Counted, SendKills, End
<1>3. OneAnswer' BY <1>0 DEF OneAnswer, SendKills, network
<1> QED BY <1>1, <1>2, <1>3 DEF IInv

LEMMA SendFailsPreserves ==
    ASSUME IInv, NEW b \in alive_brokers_, NEW request \in RequestsSent, SendFails(b, request)
    PROVE  IInv'
<1>0. TypeOK BY DEF IInv
<1>1. b \in Brokers /\ phase_ = "idle" /\ broker_' = b /\ Erase(b)
  BY <1>0 DEF TypeOK, SendFails, Starts
<1>2. \A c \in Brokers \ {b} : ~Waiting(c) BY <1>1 DEF Waiting
<1> QED BY <1>1, <1>2, ErasePreserves

LEMMA SendWritesPreserves ==
    ASSUME IInv, NEW b \in alive_brokers_, NEW request \in RequestsSent, SendWrites(b, request)
    PROVE  IInv'
<1>0. TypeOK /\ Quiet /\ OneAnswer /\ Counted BY DEF IInv
<1>1. phase_ = "idle" /\ b \in Brokers BY <1>0 DEF SendWrites, Starts, TypeOK
<1>2. \A c \in Brokers : asked[c] = NoRequest /\ inbound[c] = Nothing
  BY <1>0, <1>1 DEF Quiet, Waiting
<1>3. TypeOK' BY <1>0, <1>1 DEF TypeOK, SendWrites, Starts
<1>4. Quiet' BY <1>0, <1>1, <1>2 DEF Quiet, Waiting, TypeOK, SendWrites, Starts
<1>5. OneAnswer' BY <1>2 DEF OneAnswer, SendWrites
<1>6. Counted' BY <1>1, <1>2 DEF Counted, Nothing, SendWrites, Starts
<1> QED BY <1>3, <1>4, <1>5, <1>6 DEF IInv

LEMMA AnswerRequestPreserves ==
    ASSUME IInv, NEW b \in Brokers, AnswerRequest(b)
    PROVE  IInv'
<1>0. TypeOK /\ Quiet /\ OneAnswer /\ Counted BY DEF IInv
<1> USE DEF AnswerRequest
<1>1. asked[b] \in RequestsSent BY <1>0 DEF TypeOK
<1>2. phase_ = "header" \/ phase_ = "ended"
  BY <1>0 DEF Quiet, Waiting, Counted, TypeOK
<1>3. phase_ = "header" => b = broker_ BY <1>0 DEF Quiet, Waiting
<1>4. CASE Understands(asked[b])
  <2>1. PICK answer \in Answers(asked[b]) : inbound' = [inbound EXCEPT ![b] = InFlight(answer)]
    BY <1>4
  <2>2. answer \in Response BY <1>1 DEF Response
  <2>3. answer.size \in Nat BY <2>2, ResponseSizes
  <2>4. TypeOK' BY <1>0, <1>4, <2>1, <2>2, <2>3 DEF TypeOK, InFlight
  <2>5. Quiet' BY <1>0, <1>2, <1>3, <2>1 DEF Quiet, Waiting, TypeOK
  <2>6. OneAnswer' BY <1>0, <2>1, <2>2 DEF OneAnswer, TypeOK, InFlight
  <2>7. Counted' BY <1>0, <1>2, <1>3, <2>1 DEF Counted, TypeOK, InFlight
  <2> QED BY <2>4, <2>5, <2>6, <2>7 DEF IInv
<1>5. CASE ~Understands(asked[b])
  <2>1. TypeOK' BY <1>0, <1>5 DEF TypeOK
  <2>2. Quiet' BY <1>0, <1>5 DEF Quiet, Waiting, TypeOK
  <2>3. OneAnswer' BY <1>0, <1>5 DEF OneAnswer, TypeOK
  <2>4. Counted' BY <1>0, <1>2, <1>5 DEF Counted
  <2> QED BY <2>1, <2>2, <2>3, <2>4 DEF IInv
<1> QED BY <1>4, <1>5

LEMMA DeliverPreserves ==
    ASSUME IInv, NEW b \in Brokers, Deliver(b)
    PROVE  IInv'
<1>0. TypeOK /\ Quiet /\ OneAnswer /\ Counted BY DEF IInv
<1>1. PICK cut \in Cuts(inbound[b].size) :
        /\ cut > inbound[b].arrived
        /\ cut <= inbound[b].size
        /\ inbound' = [inbound EXCEPT ![b].arrived = cut]
  BY DEF Deliver
<1>2. inbound[b] # Nothing BY DEF Deliver
<1>3. inbound[b].answer \in Response /\ inbound[b].size = inbound[b].answer.size
  BY <1>0, <1>2 DEF OneAnswer
<1>4. cut \in Nat BY <1>1, <1>3, ResponseSizes
<1>5. TypeOK' BY <1>0, <1>1, <1>4 DEF TypeOK, Deliver
<1>6. Quiet' BY <1>0, <1>1, <1>2 DEF Quiet, Waiting, TypeOK, Deliver
<1>7. OneAnswer' BY <1>0, <1>1, <1>2, <1>3 DEF OneAnswer, TypeOK, Deliver
<1>8. Counted' BY <1>0, <1>1 DEF Counted, TypeOK, Deliver
<1> QED BY <1>5, <1>6, <1>7, <1>8 DEF IInv

LEMMA LeavePreserves ==
    ASSUME IInv, NEW b \in Brokers, NEW how \in {"closed", "reset"}, Leave(b, how)
    PROVE  IInv'
<1>0. TypeOK /\ Quiet /\ OneAnswer /\ Counted BY DEF IInv
<1>1. TypeOK' BY <1>0 DEF TypeOK, Leave
<1>2. Quiet' BY <1>0 DEF Quiet, Waiting, TypeOK, Leave
<1>3. OneAnswer' BY <1>0 DEF OneAnswer, TypeOK, Leave
<1>4. Counted' BY <1>0 DEF Counted, TypeOK, Leave
<1> QED BY <1>1, <1>2, <1>3, <1>4 DEF IInv

LEMMA ConnectPreserves ==
    ASSUME IInv, NEW b \in Brokers, Connect(b)
    PROVE  IInv'
<1>0. TypeOK /\ Quiet /\ OneAnswer /\ Counted BY DEF IInv
<1>1. TypeOK' BY <1>0 DEF TypeOK, Connect
<1>2. Quiet' /\ OneAnswer' /\ Counted' BY <1>0 DEF Quiet, Waiting, OneAnswer, Counted, Connect
<1> QED BY <1>1, <1>2 DEF IInv

LEMMA ReadHeaderPreserves == ASSUME IInv, ReadHeader PROVE IInv'
<1>0. TypeOK /\ Quiet /\ OneAnswer /\ Counted BY DEF IInv
<1>1. phase_ = "header" /\ broker_ \in Brokers BY <1>0 DEF ReadHeader, TypeOK
<1>2. CASE Available(broker_) >= 4
  <2>1. /\ inbound' = [inbound EXCEPT ![broker_].taken = @ + 4]
        /\ total_len' = inbound[broker_].answer.announced
        /\ sum_read' = 0
        /\ phase_' = "body"
        /\ UNCHANGED <<request_, broker_, alive_brokers_, end_, peer, asked>>
    BY <1>2 DEF ReadHeader, Took
  <2>2. inbound[broker_].taken = 0 /\ inbound[broker_].arrived >= 4
    BY <1>0, <1>1, <1>2 DEF Counted, Available, TypeOK
  <2>3. inbound[broker_] # Nothing BY <2>2 DEF Nothing
  <2>4. /\ inbound[broker_].answer \in Response
        /\ inbound[broker_].size = inbound[broker_].answer.size
    BY <1>0, <1>1, <2>3 DEF OneAnswer
  <2>5. total_len' \in Nat /\ inbound[broker_].size = 4 + total_len'
    BY <2>1, <2>4, ResponseSizes
  <2>6. TypeOK' BY <1>0, <1>1, <2>1, <2>2, <2>5 DEF TypeOK
  <2>7. Quiet' BY <1>0, <1>1, <2>1 DEF Quiet, Waiting, TypeOK
  <2>8. OneAnswer' BY <1>0, <1>1, <2>1, <2>3, <2>4 DEF OneAnswer, TypeOK
  <2>9. Counted' BY <1>0, <1>1, <2>1, <2>2, <2>3, <2>5 DEF Counted, OneAnswer, TypeOK
  <2> QED BY <2>6, <2>7, <2>8, <2>9 DEF IInv
<1>3. CASE ~(Available(broker_) >= 4)
  <2>1. Erase(broker_) /\ broker_' = broker_ BY <1>3 DEF ReadHeader
  <2> QED BY <1>1, <2>1, ErasePreserves DEF Waiting
<1> QED BY <1>2, <1>3

LEMMA ReadBodyPreserves == ASSUME IInv, ReadBody PROVE IInv'
<1>0. TypeOK /\ Quiet /\ OneAnswer /\ Counted BY DEF IInv
<1>1. phase_ = "body" /\ broker_ \in Brokers BY <1>0 DEF ReadBody, TypeOK
<1> DEFINE nread == IF Available(broker_) < total_len THEN Available(broker_) ELSE total_len
<1>2. /\ inbound' = [inbound EXCEPT ![broker_].taken = @ + nread]
      /\ sum_read' = sum_read + nread
      /\ UNCHANGED <<phase_, request_, broker_, alive_brokers_, total_len, end_, peer, asked>>
  BY DEF ReadBody, Took
<1>3. /\ inbound[broker_].arrived \in Nat /\ inbound[broker_].taken \in Nat
      /\ total_len \in Nat /\ sum_read \in Nat
      /\ inbound[broker_].taken <= inbound[broker_].arrived
      /\ inbound[broker_].arrived <= inbound[broker_].size
  BY <1>0, <1>1 DEF TypeOK
<1>4. /\ inbound[broker_].size = 4 + total_len
      /\ inbound[broker_].taken = 4 + sum_read
  BY <1>0, <1>1 DEF Counted
<1>5. /\ nread \in Nat
      /\ inbound[broker_].taken + nread <= inbound[broker_].arrived
      /\ sum_read + nread <= total_len
  BY <1>3, <1>4 DEF Available
<1> HIDE DEF nread
<1>6. inbound[broker_] # Nothing
  <2> SUFFICES ASSUME inbound[broker_] = Nothing PROVE FALSE OBVIOUS
  <2> QED BY <1>3, <1>4 DEF Nothing
<1>7. TypeOK' BY <1>0, <1>1, <1>2, <1>3, <1>5 DEF TypeOK
<1>8. Quiet' BY <1>0, <1>1, <1>2 DEF Quiet, Waiting, TypeOK
<1>9. OneAnswer' BY <1>0, <1>1, <1>2, <1>6 DEF OneAnswer, TypeOK
<1>10. Counted' BY <1>0, <1>1, <1>2, <1>3, <1>4, <1>5 DEF Counted, TypeOK
<1> QED BY <1>7, <1>8, <1>9, <1>10 DEF IInv

LEMMA BodyIsCutPreserves == ASSUME IInv, BodyIsCut PROVE IInv'
<1>1. phase_ = "body" /\ broker_ \in Brokers /\ Erase(broker_) /\ broker_' = broker_
  BY DEF BodyIsCut, IInv, TypeOK
<1> QED BY <1>1, ErasePreserves DEF Waiting

LEMMA BodyFailsPreserves == ASSUME IInv, BodyFails PROVE IInv'
<1>0. TypeOK /\ Quiet /\ OneAnswer /\ Counted BY DEF IInv
<1>1. phase_ = "body" /\ broker_ \in Brokers BY <1>0 DEF BodyFails, TypeOK
<1>2. TypeOK' BY <1>0, <1>1 DEF TypeOK, BodyFails, Return, Nothing
<1>3. Quiet' BY <1>0, <1>1 DEF Quiet, Waiting, Counted, TypeOK, BodyFails, Return
<1>4. OneAnswer' BY <1>0, <1>1 DEF OneAnswer, TypeOK, BodyFails
<1>5. Counted' BY DEF Counted, BodyFails, Return
<1> QED BY <1>2, <1>3, <1>4, <1>5 DEF IInv

LEMMA ParseResponsePreserves == ASSUME IInv, ParseResponse PROVE IInv'
<1>0. TypeOK /\ Quiet /\ OneAnswer /\ Counted BY DEF IInv
<1>1. phase_ = "body" /\ sum_read = total_len /\ broker_ \in Brokers
  BY <1>0 DEF ParseResponse, TypeOK
<1>2. inbound[broker_].taken = inbound[broker_].size /\ asked[broker_] = NoRequest
  BY <1>0, <1>1 DEF Counted
<1>3. /\ inbound' = [inbound EXCEPT ![broker_] = Nothing]
      /\ UNCHANGED <<broker_, peer, asked>>
  BY <1>2 DEF ParseResponse
<1>4. inbound[broker_] # Nothing
  <2> SUFFICES ASSUME inbound[broker_] = Nothing PROVE FALSE OBVIOUS
  <2> QED BY <1>0, <1>1 DEF Counted, Nothing, TypeOK
<1>5. inbound[broker_].answer \in Response BY <1>0, <1>1, <1>4 DEF OneAnswer
<1> DEFINE comes == ComesTo(inbound[broker_].answer)
<1>6. comes \in {"response", "error", "overread", "terminate"}
  BY <1>5, ResponseSizes DEF ComesTo
<1>7. \/ Return /\ UNCHANGED alive_brokers_
      \/ /\ comes \in {"overread", "terminate"}
         /\ End(comes)
         /\ UNCHANGED request_
  BY <1>6 DEF ParseResponse
<1> HIDE DEF comes
<1>8. TypeOK'
  <2>1. CASE Return /\ UNCHANGED alive_brokers_
    BY <1>0, <1>1, <1>3, <2>1 DEF TypeOK, Return, Nothing
  <2>2. CASE comes \in {"overread", "terminate"} /\ End(comes) /\ UNCHANGED request_
    BY <1>0, <1>1, <1>3, <2>2 DEF TypeOK, End, Nothing
  <2> QED BY <1>7, <2>1, <2>2
<1>9. phase_' \in {"idle", "ended"} BY <1>7 DEF Return, End
<1>10. Quiet' BY <1>0, <1>1, <1>2, <1>3 DEF Quiet, Waiting, TypeOK
<1>11. OneAnswer' BY <1>0, <1>1, <1>3 DEF OneAnswer, TypeOK
<1>12. Counted' BY <1>9 DEF Counted
<1> QED BY <1>8, <1>10, <1>11, <1>12 DEF IInv

-----------------------------------------------------------------------------
LEMMA Inductive == IInv /\ [Next]_vars => IInv'
<1> SUFFICES ASSUME IInv, [Next]_vars PROVE IInv' OBVIOUS
<1>1. ASSUME NEW b \in alive_brokers_, NEW request \in RequestsSent, SendOverflows(b, request)
      PROVE  IInv'
  BY <1>1, SendOverflowsPreserves
<1>2. ASSUME NEW b \in alive_brokers_, NEW request \in RequestsSent, SendWrites(b, request)
      PROVE  IInv'
  BY <1>2, SendWritesPreserves
<1>3. ASSUME NEW b \in alive_brokers_, NEW request \in RequestsSent, SendFails(b, request)
      PROVE  IInv'
  BY <1>3, SendFailsPreserves
<1>4. ASSUME NEW b \in alive_brokers_, NEW request \in RequestsSent, SendKills(b, request)
      PROVE  IInv'
  BY <1>4, SendKillsPreserves
<1>5. ASSUME NEW b \in Brokers, AnswerRequest(b) PROVE IInv' BY <1>5, AnswerRequestPreserves
<1>6. ASSUME NEW b \in Brokers, Deliver(b) PROVE IInv' BY <1>6, DeliverPreserves
<1>7. ASSUME NEW b \in Brokers, Leave(b, "closed") \/ Leave(b, "reset") PROVE IInv'
  BY <1>7, LeavePreserves
<1>8. ASSUME NEW b \in Brokers, Connect(b) PROVE IInv' BY <1>8, ConnectPreserves
<1>9. CASE ReadHeader BY <1>9, ReadHeaderPreserves
<1>10. CASE ReadBody BY <1>10, ReadBodyPreserves
<1>11. CASE BodyIsCut BY <1>11, BodyIsCutPreserves
<1>12. CASE BodyFails BY <1>12, BodyFailsPreserves
<1>13. CASE ParseResponse BY <1>13, ParseResponsePreserves
<1>14. CASE UNCHANGED vars
  BY <1>14 DEF vars, IInv, TypeOK, Quiet, Waiting, OneAnswer, Counted, Nothing
<1> QED
  BY <1>1, <1>2, <1>3, <1>4, <1>5, <1>6, <1>7, <1>8, <1>9, <1>10, <1>11, <1>12, <1>13, <1>14
     DEF Next, Ended

LEMMA SpecIInv == Spec => []IInv
<1> QED BY InitIInv, Inductive, PTL DEF Spec

(* The variables have their types: in particular, no more is read of an    *)
(* answer than has arrived, and no more than it announces.                 *)
THEOREM TypeCorrect == Spec => []TypeOK
<1>1. IInv => TypeOK BY DEF IInv
<1> QED BY <1>1, SpecIInv, PTL

(* Between two exchanges nothing is left on a connection that is up,       *)
(* whatever the brokers answer and however the answers are cut.            *)
THEOREM ExchangesDrain == Spec => []Drained
<1>1. IInv => Drained BY DEF IInv, TypeOK, Quiet, Waiting, Drained
<1> QED BY <1>1, SpecIInv, PTL

-----------------------------------------------------------------------------
(***************************************************************************)
(* The requests that are exchanged: which of them fit into the buffer of   *)
(* Send, and that their sizes count what is written.  A wire is taken      *)
(* apart into the fields of the classes, and the bytes of the fields are   *)
(* added up; the arrays of any length need sums (WireProofs).              *)
(***************************************************************************)
(* The names are those of the process; a member id is "consumer-1-" and a  *)
(* UUID.                                                                   *)
ShortNames == Group + Topic <= 80

(* Send writes within its buffer as long as the names are short and the    *)
(* request is about at most 120 partitions.  (A leader's SyncGroupRequest  *)
(* has no such bound: it grows with the members.)                          *)
THEOREM RequestsFit ==
    ASSUME ShortNames, NEW member \in 0 .. 60, NEW generation,
           NEW S, NEW partitions \in Seq(S), Len(partitions) <= 120
    PROVE  /\ MetadataSize + 4 <= 2048
           /\ GroupCoordinatorSize + 4 <= 2048
           /\ JoinGroupSize(JoinGroupRequest(member)) + 4 <= 2048
           /\ HeartbeatSize(HeartbeatRequest(generation, member)) + 4 <= 2048
           /\ OffsetFetchSize(partitions) + 4 <= 2048
           /\ OffsetSize(partitions) + 4 <= 2048
           /\ OffsetCommitSize(member, partitions) + 4 <= 2048
           /\ FetchSize(partitions) + 4 <= 2048
<1> USE NamesAssumption DEF ShortNames, HeadSize, client_id_
<1>1. Len(partitions) \in Nat OBVIOUS
<1>2. MetadataSize + 4 <= 2048 /\ GroupCoordinatorSize + 4 <= 2048
  BY DEF MetadataSize, GroupCoordinatorSize
<1>3. JoinGroupSize(JoinGroupRequest(member)) + 4 <= 2048
  BY DEF JoinGroupSize, JoinGroupRequest, GroupProtocolSize, ProtocolMetadataSize
<1>4. HeartbeatSize(HeartbeatRequest(generation, member)) + 4 <= 2048
  BY DEF HeartbeatSize, HeartbeatRequest
<1>5. OffsetFetchSize(partitions) + 4 <= 2048 BY <1>1 DEF OffsetFetchSize
<1>6. OffsetSize(partitions) + 4 <= 2048
  BY <1>1 DEF OffsetSize, TopicPartitionSize, PartitionTimeSize
<1>7. OffsetCommitSize(member, partitions) + 4 <= 2048
  BY <1>1 DEF OffsetCommitSize, TopicPartitionOMSize, PartitionOMSize
<1>8. FetchSize(partitions) + 4 <= 2048
  BY <1>1 DEF FetchSize, TopicPartitionFMSize, PartitionFMSize
<1> QED BY <1>2, <1>3, <1>4, <1>5, <1>6, <1>7, <1>8

-----------------------------------------------------------------------------
(* The nested classes. *)
LEMMA HeadTakes ==
    \A type \in DOMAIN ApiKey, size \in Int : Takes(PackageHead(type, size), 4 + HeadSize)
<1> SUFFICES ASSUME NEW type \in DOMAIN ApiKey, NEW size \in Int
             PROVE  Takes(PackageHead(type, size), 4 + HeadSize)
  OBVIOUS
<1>1. ApiKey[type] \in Int /\ ApiVersion[type] \in Int
  BY DEF ApiKey, ApiVersion
<1>2. /\ Takes(Int32(size), 4) /\ Takes(Int16(ApiKey[type]), 2)
      /\ Takes(Int16(ApiVersion[type]), 2) /\ Takes(Int32(ApiKey[type]), 4)
  BY <1>1, IntsTake
<1>3. Takes(String(10), 12)
  BY StringTakes
<1>4. Takes(PackageHead(type, size), (((4 + 2) + 2) + 4) + 12)
  BY <1>2, <1>3, BothTake DEF PackageHead, client_id_
<1> QED BY <1>4 DEF HeadSize, client_id_

(* The one topic there is, as an array. *)
LEMMA TopicsTake == Takes(Array(<<[topic |-> Topic]>>, PackageTopic), 4 + 2 + Topic)
<1>1. Takes(String(Topic), 2 + Topic)
  BY StringTakes, NamesAssumption
<1>2. Takes(Int32(1) \o FlattenSeq(<<String(Topic)>>), 4 + (2 + Topic))
  BY <1>1, OneTakes
<1> DEFINE topics == <<[topic |-> Topic]>>
<1>3. Len(topics) = 1 /\ [i \in DOMAIN topics |-> PackageTopic(topics[i])] = <<String(Topic)>>
  BY DEF PackageTopic
<1>4. Array(topics, PackageTopic) = Int32(1) \o FlattenSeq(<<String(Topic)>>)
  BY <1>3 DEF Array
<1>5. 4 + (2 + Topic) = 4 + 2 + Topic
  BY NamesAssumption
<1>6. Takes(Array(topics, PackageTopic), 4 + 2 + Topic)
  BY <1>2, <1>4, <1>5, Zenon
<1> QED BY <1>6

LEMMA SubscriptionTakes == Takes(PackageProtocolMetadata(ProtocolMetadata), ProtocolMetadataSize)
<1>1. Takes(Int16(0), 2) /\ Takes(Int32(0), 4) /\ Takes(Field(0, 0), 0)
  BY IntsTake, FieldTakes
<1>2. Takes(PackageProtocolMetadata(ProtocolMetadata), ((2 + (4 + 2 + Topic)) + 4) + 0)
  BY <1>1, TopicsTake, BothTake DEF PackageProtocolMetadata, ProtocolMetadata
<1>3. ((2 + (4 + 2 + Topic)) + 4) + 0 = ProtocolMetadataSize
  BY NamesAssumption DEF ProtocolMetadataSize
<1> QED BY <1>2, <1>3

LEMMA ProtocolTakes == Takes(PackageGroupProtocol(GroupProtocol), GroupProtocolSize)
<1>1. Takes(String(5), 7) /\ Takes(Int32(ProtocolMetadataSize), 4)
  BY IntsTake, StringTakes, NamesAssumption DEF ProtocolMetadataSize
<1>2. Takes(PackageGroupProtocol(GroupProtocol), (7 + 4) + ProtocolMetadataSize)
  BY <1>1, SubscriptionTakes, BothTake DEF PackageGroupProtocol, GroupProtocol
<1> QED BY <1>2, NamesAssumption DEF GroupProtocolSize, ProtocolMetadataSize

LEMMA PartitionsTake ==
    ASSUME NEW partitions \in Seq(Int)
    PROVE  /\ Takes(PackagePartitionAssignment(PartitionAssignmentOf(partitions)),
                    2 + Topic + 4 + 4 * Len(partitions))
           /\ PartitionAssignmentSize(PartitionAssignmentOf(partitions))
                = 2 + Topic + 4 + 4 * Len(partitions)
<1> DEFINE elements == PartitionAssignmentOf(partitions).partitions_
           wires == [i \in DOMAIN elements |-> PackagePartition(elements[i])]
           n == Len(partitions)
<1>1. n \in Nat /\ DOMAIN partitions = 1 .. n /\ \A i \in 1 .. n : partitions[i] \in Int
  BY LenProperties, ElementOfSeq
<1>2. elements = [i \in 1 .. n |-> [id |-> partitions[i]]]
  BY <1>1 DEF PartitionAssignmentOf
<1>3. Len(elements) = n /\ DOMAIN elements = 1 .. n
  BY <1>1, <1>2
<1>4. \A i \in 1 .. n : wires[i] = Int32(partitions[i]) /\ Takes(wires[i], 4)
  BY <1>1, <1>2, IntsTake DEF PackagePartition
<1>5. wires \in Seq(Wires) /\ Len(wires) = n
  BY <1>1, <1>3, <1>4 DEF Takes
<1>6. Array(elements, PackagePartition) = Int32(n) \o FlattenSeq(wires)
  BY <1>3 DEF Array
<1> HIDE DEF wires
<1>7. Takes(Int32(n) \o FlattenSeq(wires), 4 + n * 4)
  BY <1>1, <1>4, <1>5, EqualsTake
<1>8. Takes(String(Topic), 2 + Topic)
  BY StringTakes, NamesAssumption
<1>9. Takes(PackagePartitionAssignment(PartitionAssignmentOf(partitions)), (2 + Topic) + (4 + n * 4))
  BY <1>6, <1>7, <1>8, BothTake DEF PackagePartitionAssignment, PartitionAssignmentOf
<1>10. (2 + Topic) + (4 + n * 4) = 2 + Topic + 4 + 4 * n
  BY <1>1, NamesAssumption
<1>11. PartitionAssignmentSize(PartitionAssignmentOf(partitions)) = 2 + Topic + 4 + 4 * n
  BY <1>3 DEF PartitionAssignmentSize, PartitionAssignmentOf
<1> QED BY <1>9, <1>10, <1>11

(* The records of a topic: a field for each partition, of so many bytes. *)
LEMMA RecordsTake ==
    ASSUME NEW n \in Nat, NEW bytes \in Nat, NEW wires, wires \in Seq(Wires), Len(wires) = n,
           \A i \in 1 .. n : Takes(wires[i], bytes)
    PROVE  Takes(String(Topic) \o (Int32(n) \o FlattenSeq(wires)), 2 + Topic + 4 + n * bytes)
<1>1. Takes(Int32(n) \o FlattenSeq(wires), 4 + n * bytes)
  BY EqualsTake
<1>2. Takes(String(Topic), 2 + Topic)
  BY StringTakes, NamesAssumption
<1>3. Takes(String(Topic) \o (Int32(n) \o FlattenSeq(wires)), (2 + Topic) + (4 + n * bytes))
  BY <1>1, <1>2, BothTake
<1>4. n * bytes \in Nat
  OBVIOUS
<1>5. (2 + Topic) + (4 + n * bytes) = 2 + Topic + 4 + n * bytes
  BY <1>4, NamesAssumption
<1> QED BY <1>3, <1>5

LEMMA TimesTake ==
    ASSUME NEW partitions \in Seq(Int)
    PROVE  Takes(PackageTopicPartition(TopicPartition(partitions)), TopicPartitionSize(partitions))
<1> DEFINE elements == TopicPartition(partitions).partition_time_array_
           wires == [i \in DOMAIN elements |-> PackagePartitionTime(elements[i])]
           n == Len(partitions)
<1>1. n \in Nat /\ DOMAIN partitions = 1 .. n /\ \A i \in 1 .. n : partitions[i] \in Int
  BY LenProperties, ElementOfSeq
<1>2. elements = [i \in 1 .. n |-> PartitionTime(partitions[i])]
  BY <1>1 DEF TopicPartition
<1>3. Len(elements) = n /\ DOMAIN elements = 1 .. n
  BY <1>1, <1>2
<1>4. ASSUME NEW i \in 1 .. n PROVE Takes(wires[i], PartitionTimeSize)
  <2>1. wires[i] = (Int32(partitions[i]) \o Int64(-1)) \o Int32(1)
    BY <1>2 DEF PackagePartitionTime, PartitionTime
  <2>2. Takes(Int32(partitions[i]), 4) /\ Takes(Int64(-1), 8) /\ Takes(Int32(1), 4)
    BY <1>1, IntsTake
  <2>3. Takes(wires[i], (4 + 8) + 4)
    BY <2>1, <2>2, BothTake
  <2> QED BY <2>3 DEF PartitionTimeSize
<1>5. wires \in Seq(Wires) /\ Len(wires) = n
  BY <1>1, <1>3, <1>4 DEF Takes
<1>6. PackageTopicPartition(TopicPartition(partitions))
        = String(Topic) \o (Int32(n) \o FlattenSeq(wires))
  BY <1>3 DEF Array, PackageTopicPartition, TopicPartition
<1> HIDE DEF wires
<1>7. Takes(String(Topic) \o (Int32(n) \o FlattenSeq(wires)), 2 + Topic + 4 + n * PartitionTimeSize)
  <2>1. PartitionTimeSize \in Nat
    BY DEF PartitionTimeSize
  <2> QED BY <1>1, <1>4, <1>5, <2>1, RecordsTake
<1> QED BY <1>6, <1>7 DEF TopicPartitionSize

(* Partitions with their offsets, of a commit or a fetch. *)

LEMMA OffsetsAre ==
    ASSUME NEW offsets \in Seq(Offsets)
    PROVE  /\ Len(offsets) \in Nat /\ DOMAIN offsets = 1 .. Len(offsets)
           /\ \A i \in 1 .. Len(offsets) :
                 offsets[i].partition \in Int /\ offsets[i].offset \in Int
<1>1. Len(offsets) \in Nat /\ DOMAIN offsets = 1 .. Len(offsets)
      /\ \A i \in 1 .. Len(offsets) : offsets[i] \in Offsets
  BY LenProperties, ElementOfSeq
<1>2. \A o \in Offsets : o.partition \in Int /\ o.offset \in Int
  BY DEF Offsets
<1> QED BY <1>1, <1>2

LEMMA CommitsTake ==
    ASSUME NEW offsets \in Seq(Offsets)
    PROVE  Takes(PackageTopicPartitionOM(TopicPartitionOM(offsets)), TopicPartitionOMSize(offsets))
<1> DEFINE elements == TopicPartitionOM(offsets).partitions_
           wires == [i \in DOMAIN elements |-> PackagePartitionOM(elements[i])]
           n == Len(offsets)
<1>1. n \in Nat /\ DOMAIN offsets = 1 .. n
      /\ \A i \in 1 .. n : offsets[i].partition \in Int /\ offsets[i].offset \in Int
  BY OffsetsAre
<1>2. elements = [i \in 1 .. n |-> PartitionOM(offsets[i])]
  BY <1>1 DEF TopicPartitionOM
<1>3. Len(elements) = n /\ DOMAIN elements = 1 .. n
  BY <1>1, <1>2
<1>4. ASSUME NEW i \in 1 .. n PROVE Takes(wires[i], PartitionOMSize)
  <2>1. wires[i] = (Int32(offsets[i].partition) \o Int64(offsets[i].offset)) \o String(0)
    BY <1>2 DEF PackagePartitionOM, PartitionOM
  <2>2. Takes(Int32(offsets[i].partition), 4) /\ Takes(Int64(offsets[i].offset), 8)
        /\ Takes(String(0), 2)
    <3>1. offsets[i].partition \in Int /\ offsets[i].offset \in Int /\ 0 \in Nat /\ 2 + 0 = 2
      BY <1>1
    <3> QED BY <3>1, IntsTake, StringTakes
  <2>3. Takes(wires[i], (4 + 8) + 2)
    BY <2>1, <2>2, BothTake
  <2> QED BY <2>3 DEF PartitionOMSize
<1>5. wires \in Seq(Wires) /\ Len(wires) = n
  BY <1>1, <1>3, <1>4 DEF Takes
<1>6. PackageTopicPartitionOM(TopicPartitionOM(offsets))
        = String(Topic) \o (Int32(n) \o FlattenSeq(wires))
  BY <1>3 DEF Array, PackageTopicPartitionOM, TopicPartitionOM
<1> HIDE DEF wires
<1>7. Takes(String(Topic) \o (Int32(n) \o FlattenSeq(wires)), 2 + Topic + 4 + n * PartitionOMSize)
  <2>1. PartitionOMSize \in Nat
    BY DEF PartitionOMSize
  <2> QED BY <1>1, <1>4, <1>5, <2>1, RecordsTake
<1> QED BY <1>6, <1>7 DEF TopicPartitionOMSize

LEMMA FetchesTake ==
    ASSUME NEW offsets \in Seq(Offsets)
    PROVE  Takes(PackageTopicPartitionFM(TopicPartitionFM(offsets)), TopicPartitionFMSize(offsets))
<1> DEFINE elements == TopicPartitionFM(offsets).partitions_
           wires == [i \in DOMAIN elements |-> PackagePartitionFM(elements[i])]
           n == Len(offsets)
<1>1. n \in Nat /\ DOMAIN offsets = 1 .. n
      /\ \A i \in 1 .. n : offsets[i].partition \in Int /\ offsets[i].offset \in Int
  BY OffsetsAre
<1>2. elements = [i \in 1 .. n |-> PartitionFM(offsets[i])]
  BY <1>1 DEF TopicPartitionFM
<1>3. Len(elements) = n /\ DOMAIN elements = 1 .. n
  BY <1>1, <1>2
<1>4. ASSUME NEW i \in 1 .. n PROVE Takes(wires[i], PartitionFMSize)
  <2> DEFINE p == PartitionFM(offsets[i])
  <2>1. wires[i] = (Int32(p.partition_) \o Int64(p.fetch_offset_)) \o Int32(p.max_bytes_)
    BY <1>2 DEF PackagePartitionFM
  <2>2. p.partition_ \in Int /\ p.fetch_offset_ \in Int /\ p.max_bytes_ \in Int
    BY <1>1, SMT DEF PartitionFM
  <2> HIDE DEF p
  <2>3. Takes(wires[i], (4 + 8) + 4)
    BY <2>1, <2>2, IntsTake, BothTake
  <2> QED BY <2>3 DEF PartitionFMSize
<1>5. wires \in Seq(Wires) /\ Len(wires) = n
  BY <1>1, <1>3, <1>4 DEF Takes
<1>6. PackageTopicPartitionFM(TopicPartitionFM(offsets))
        = String(Topic) \o (Int32(n) \o FlattenSeq(wires))
  BY <1>3 DEF Array, PackageTopicPartitionFM, TopicPartitionFM
<1> HIDE DEF wires
<1>7. Takes(String(Topic) \o (Int32(n) \o FlattenSeq(wires)), 2 + Topic + 4 + n * PartitionFMSize)
  <2>1. PartitionFMSize \in Nat
    BY DEF PartitionFMSize
  <2> QED BY <1>1, <1>4, <1>5, <2>1, RecordsTake
<1> QED BY <1>6, <1>7 DEF TopicPartitionFMSize

(* The assignment of a member, in the SyncGroupRequest of the leader. *)
LEMMA MemberTakes ==
    ASSUME NEW partitions \in Seq(Int)
    PROVE  LET m == MemberAssignment(partitions)
           IN  Takes(PackageMemberAssignment(m), MemberAssignmentSize(m))
<1> DEFINE m == MemberAssignment(partitions)
           a == PartitionAssignmentOf(partitions)
           size == 2 + Topic + 4 + 4 * Len(partitions)
<1>1. Takes(PackagePartitionAssignment(a), size) /\ PartitionAssignmentSize(a) = size
  BY PartitionsTake
<1>2. size \in Nat
  BY <1>1 DEF Takes
<1>3. m.version_ = 0 /\ m.user_data_ = 0 /\ m.partition_assignment_ = <<a>>
  BY DEF MemberAssignment
<1> HIDE DEF a, m, size
<1>4. Array(<<a>>, PackagePartitionAssignment)
        = Int32(1) \o FlattenSeq(<<PackagePartitionAssignment(a)>>)
  <2>1. DOMAIN <<a>> = 1 .. 1 /\ Len(<<a>>) = 1
    OBVIOUS
  <2>2. [i \in DOMAIN <<a>> |-> PackagePartitionAssignment(<<a>>[i])]
          = <<PackagePartitionAssignment(a)>>
    BY <2>1
  <2> QED BY <2>1, <2>2 DEF Array
<1>5. Takes(Array(<<a>>, PackagePartitionAssignment), 4 + size)
  BY <1>1, <1>4, OneTakes
<1>6. Takes(Int16(0), 2) /\ Takes(Int32(0), 4) /\ Takes(Field(0, 0), 0)
  BY IntsTake, FieldTakes
<1>7. Takes(PackageMemberAssignment(m), ((2 + (4 + size)) + 4) + 0)
  <2>1. PackageMemberAssignment(m)
          = ((Int16(0) \o Array(<<a>>, PackagePartitionAssignment)) \o Int32(0)) \o Field(0, 0)
    BY <1>3 DEF PackageMemberAssignment
  <2> QED BY <1>5, <1>6, <2>1, BothTake
<1>8. SumOf(<<a>>, PartitionAssignmentSize) = size
  <2> DEFINE sizes == [i \in DOMAIN <<a>> |-> PartitionAssignmentSize(<<a>>[i])]
  <2>1. Len(<<a>>) = 1 /\ \A i \in 1 .. 1 : sizes[i] = size
    BY <1>1
  <2>2. SumOf(<<a>>, PartitionAssignmentSize) = SumOfFirst(sizes, 1)
    BY <2>1 DEF SumOf
  <2> HIDE DEF sizes
  <2>3. SumOfFirst(sizes, 1) = 1 * size
    BY <1>2, <2>1, SumOfEqual
  <2> QED BY <1>2, <2>2, <2>3
<1>9. MemberAssignmentSize(m) = ((2 + (4 + size)) + 4) + 0
  BY <1>2, <1>3, <1>8 DEF MemberAssignmentSize
<1>10. Takes(PackageMemberAssignment(m), MemberAssignmentSize(m))
  BY <1>7, <1>9
<1> QED BY <1>10 DEF m

LEMMA AssignmentTakes ==
    ASSUME NEW member \in Nat, NEW partitions \in Seq(Int)
    PROVE  LET g == GroupAssignment(member, partitions)
           IN  Takes(PackageGroupAssignment(g), GroupAssignmentSize(g))
<1> DEFINE g == GroupAssignment(member, partitions)
           m == MemberAssignment(partitions)
           size == MemberAssignmentSize(m)
<1>1. Takes(PackageMemberAssignment(m), size)
  BY MemberTakes
<1>2. size \in Nat
  BY <1>1 DEF Takes
<1>3. g.member_id_ = member /\ g.member_assignment_ = m
  BY DEF GroupAssignment
<1> HIDE DEF g, m, size
<1>4. Takes(String(member), 2 + member) /\ Takes(Int32(size), 4)
  <2>1. Takes(String(member), 2 + member)
    BY StringTakes
  <2>2. Takes(Int32(size), 4)
    BY <1>2, IntsTake
  <2> QED BY <2>1, <2>2
<1>5. PackageGroupAssignment(g) = (String(member) \o Int32(size)) \o PackageMemberAssignment(m)
  BY <1>3 DEF PackageGroupAssignment, size
<1>6. Takes(PackageGroupAssignment(g), ((2 + member) + 4) + size)
  BY <1>1, <1>4, <1>5, BothTake
<1>7. GroupAssignmentSize(g) = ((2 + member) + 4) + size
  BY <1>2, <1>3 DEF GroupAssignmentSize, size
<1>8. Takes(PackageGroupAssignment(g), GroupAssignmentSize(g))
  BY <1>6, <1>7
<1> QED BY <1>8 DEF g

(* Members with their partitions. *)

LEMMA SyncTakes ==
    ASSUME NEW generation \in Int, NEW member \in Nat, NEW member_partitions \in Seq(Assigned)
    PROVE  LET r == SyncGroupRequest(generation, member, member_partitions)
           IN  \E bytes : Takes(PackageSyncGroup(r), bytes) /\ SyncGroupSize(r) = HeadSize + bytes
<1> DEFINE r == SyncGroupRequest(generation, member, member_partitions)
           elements == r.group_assignment_
           n == Len(member_partitions)
           wires == [i \in DOMAIN elements |-> PackageGroupAssignment(elements[i])]
           sizes == [i \in DOMAIN elements |-> GroupAssignmentSize(elements[i])]
<1>1. n \in Nat /\ DOMAIN member_partitions = 1 .. n
      /\ \A i \in 1 .. n : member_partitions[i] \in Assigned
  BY LenProperties, ElementOfSeq
<1>2. \A i \in 1 .. n : member_partitions[i].member \in Nat
                        /\ member_partitions[i].partitions \in Seq(Int)
  BY <1>1 DEF Assigned
<1>3. /\ r.group_id_ = Group /\ r.generation_id_ = generation /\ r.member_id_ = member
      /\ DOMAIN elements = 1 .. n /\ Len(elements) = n
      /\ \A i \in 1 .. n : elements[i] = GroupAssignment(member_partitions[i].member,
                                                         member_partitions[i].partitions)
  BY <1>1 DEF SyncGroupRequest
<1>4. \A i \in 1 .. n : Takes(wires[i], sizes[i])
  <2> SUFFICES ASSUME NEW i \in 1 .. n PROVE Takes(wires[i], sizes[i])
    OBVIOUS
  <2> DEFINE g == GroupAssignment(member_partitions[i].member, member_partitions[i].partitions)
  <2>1. Takes(PackageGroupAssignment(g), GroupAssignmentSize(g))
    BY <1>2, AssignmentTakes
  <2>2. elements[i] = g /\ i \in DOMAIN elements
    BY <1>3
  <2> HIDE DEF g
  <2>3. wires[i] = PackageGroupAssignment(g) /\ sizes[i] = GroupAssignmentSize(g)
    BY <2>2
  <2> QED BY <2>1, <2>3
<1>5. wires \in Seq(Wires) /\ Len(wires) = n
  BY <1>1, <1>3, <1>4 DEF Takes
<1>6. /\ Array(elements, PackageGroupAssignment) = Int32(n) \o FlattenSeq(wires)
      /\ SumOf(elements, GroupAssignmentSize) = SumOfFirst(sizes, n)
  BY <1>3 DEF Array, SumOf
<1> HIDE DEF wires, sizes, elements, n
<1>7. Takes(Int32(n) \o FlattenSeq(wires), 4 + SumOfFirst(sizes, n))
  BY <1>1, <1>4, <1>5, ElementsTake
<1>8. Takes(String(Group), 2 + Group) /\ Takes(Int32(generation), 4)
      /\ Takes(String(member), 2 + member)
  BY NamesAssumption, IntsTake, StringTakes
<1> DEFINE assignments == SumOfFirst(sizes, n)
<1>9. assignments \in Int
  <2>1. Takes(FlattenSeq(wires), assignments)
    <3>1. wires = <<>> <=> n = 0
      BY <1>1, <1>5, EmptySeq
    <3>2. \A i \in 1 .. n : wires[i] \in Wires /\ ByteCount(wires[i]) = sizes[i]
      BY <1>4 DEF Takes
    <3>3. FlattenSeq(wires) \in Wires /\ ByteCount(FlattenSeq(wires)) = assignments
      BY <1>1, <1>5, <3>1, <3>2, BytesOfAll
    <3> QED BY <3>3, BytesType DEF Takes
  <2> QED BY <2>1 DEF Takes
<1>10. Takes(PackageSyncGroup(r), (((2 + Group) + 4) + (2 + member)) + (4 + assignments))
  <2>1. PackageSyncGroup(r)
          = ((String(Group) \o Int32(generation)) \o String(member)) \o (Int32(n) \o FlattenSeq(wires))
    BY <1>3, <1>6 DEF PackageSyncGroup, elements
  <2> QED BY <1>7, <1>8, <2>1, BothTake
<1>11. SyncGroupSize(r) = HeadSize + 2 + Group + 4 + 2 + member + 4 + assignments
  BY <1>3, <1>6 DEF SyncGroupSize, elements
<1>12. SyncGroupSize(r) = HeadSize + ((((2 + Group) + 4) + (2 + member)) + (4 + assignments))
  <2> HIDE DEF assignments, r
  <2>1. HeadSize \in Int
    BY DEF HeadSize, client_id_
  <2> QED BY <1>9, <1>11, <2>1, NamesAssumption
<1> HIDE DEF assignments, r
<1>13. \E bytes : Takes(PackageSyncGroup(r), bytes) /\ SyncGroupSize(r) = HeadSize + bytes
  BY <1>10, <1>12
<1> QED BY <1>13 DEF r

-----------------------------------------------------------------------------
(* The requests: the body of each takes what CountSize counts behind the   *)
(* head.                                                                   *)
LEMMA RequestTakes ==
    ASSUME NEW request, request.type \in DOMAIN ApiKey, NEW bytes, Takes(PackageBody(request), bytes),
           CountSize(request) = HeadSize + bytes
    PROVE  ByteCount(Package(request)) = CountSize(request) + 4
<1>1. bytes \in Nat /\ HeadSize \in Nat
  BY DEF Takes, HeadSize, client_id_
<1>2. CountSize(request) \in Int
  BY <1>1
<1>3. Takes(PackageHead(request.type, CountSize(request)), 4 + HeadSize)
  BY <1>2, HeadTakes
<1>4. Takes(Package(request), (4 + HeadSize) + bytes)
  BY <1>3, BothTake DEF Package
<1>5. (4 + HeadSize) + bytes = CountSize(request) + 4
  BY <1>1
<1> QED BY <1>4, <1>5 DEF Takes

(* What the classes are constructed from. *)
Built(member, generation, partitions, offsets, member_partitions) ==
    {[type |-> "Metadata", body |-> MetadataRequest],
     [type |-> "GroupCoordinator", body |-> GroupCoordinatorRequest],
     [type |-> "JoinGroup", body |-> JoinGroupRequest(member)],
     [type |-> "SyncGroup", body |-> SyncGroupRequest(generation, member, member_partitions)],
     [type |-> "Heartbeat", body |-> HeartbeatRequest(generation, member)],
     [type |-> "OffsetFetch", body |-> OffsetFetchRequest(partitions)],
     [type |-> "Offset", body |-> OffsetRequest(partitions)],
     [type |-> "OffsetCommit", body |-> OffsetCommitRequest(generation, member, offsets)],
     [type |-> "Fetch", body |-> FetchRequest(offsets)]}

LEMMA JoinTakes ==
    ASSUME NEW member \in Nat
    PROVE  \E bytes : /\ Takes(PackageJoinGroup(JoinGroupRequest(member)), bytes)
                      /\ JoinGroupSize(JoinGroupRequest(member)) = HeadSize + bytes
<1> DEFINE r == JoinGroupRequest(member)
           g == GroupProtocol
<1>1. /\ r.group_id_ = Group /\ r.session_timeout_ \in Int /\ r.member_id_ = member
      /\ r.protocol_type_ = 8 /\ r.group_protocols_ = <<g>>
  BY SMT DEF JoinGroupRequest
<1> HIDE DEF r, g
<1>2. Takes(PackageGroupProtocol(g), GroupProtocolSize) /\ GroupProtocolSize \in Nat
  BY ProtocolTakes DEF g, Takes
<1>3. Array(<<g>>, PackageGroupProtocol) = Int32(1) \o FlattenSeq(<<PackageGroupProtocol(g)>>)
  <2>1. DOMAIN <<g>> = 1 .. 1 /\ Len(<<g>>) = 1
    OBVIOUS
  <2>2. [i \in DOMAIN <<g>> |-> PackageGroupProtocol(<<g>>[i])] = <<PackageGroupProtocol(g)>>
    BY <2>1
  <2> QED BY <2>1, <2>2 DEF Array
<1>4. Takes(Array(<<g>>, PackageGroupProtocol), 4 + GroupProtocolSize)
  BY <1>2, <1>3, OneTakes
<1>5. Takes(String(Group), 2 + Group) /\ Takes(String(member), 2 + member)
      /\ Takes(String(8), 10) /\ Takes(Int32(r.session_timeout_), 4)
  BY <1>1, NamesAssumption, StringTakes, IntsTake
<1> DEFINE bytes == ((((2 + Group) + 4) + (2 + member)) + 10) + (4 + GroupProtocolSize)
<1>6. Takes(PackageJoinGroup(r), bytes)
  <2>1. PackageJoinGroup(r) = (((String(Group) \o Int32(r.session_timeout_)) \o String(member))
                                  \o String(8)) \o Array(<<g>>, PackageGroupProtocol)
    BY <1>1 DEF PackageJoinGroup
  <2> QED BY <1>4, <1>5, <2>1, BothTake
<1>7. JoinGroupSize(r) = HeadSize + bytes
  <2>1. HeadSize \in Nat
    BY DEF HeadSize, client_id_
  <2> QED BY <1>1, <1>2, <2>1, NamesAssumption DEF JoinGroupSize
<1> HIDE DEF bytes
<1>8. \E b : Takes(PackageJoinGroup(r), b) /\ JoinGroupSize(r) = HeadSize + b
  BY <1>6, <1>7
<1> QED BY <1>8 DEF r

LEMMA HeartbeatTakes ==
    ASSUME NEW generation \in Int, NEW member \in Nat
    PROVE  \E bytes : /\ Takes(PackageHeartbeat(HeartbeatRequest(generation, member)), bytes)
                      /\ HeartbeatSize(HeartbeatRequest(generation, member)) = HeadSize + bytes
<1> DEFINE r == HeartbeatRequest(generation, member)
           bytes == ((2 + Group) + 4) + (2 + member)
<1>1. r.group_ = Group /\ r.generation_id_ = generation /\ r.member_id_ = member
  BY DEF HeartbeatRequest
<1> HIDE DEF r
<1>2. Takes(String(Group), 2 + Group) /\ Takes(String(member), 2 + member)
      /\ Takes(Int32(generation), 4)
  BY NamesAssumption, StringTakes, IntsTake
<1>3. Takes(PackageHeartbeat(r), bytes)
  BY <1>1, <1>2, BothTake DEF PackageHeartbeat
<1>4. HeartbeatSize(r) = HeadSize + bytes
  BY <1>1, NamesAssumption DEF HeartbeatSize, HeadSize, client_id_
<1> HIDE DEF bytes
<1>5. \E b : Takes(PackageHeartbeat(r), b) /\ HeartbeatSize(r) = HeadSize + b
  BY <1>3, <1>4
<1> QED BY <1>5 DEF r

LEMMA OffsetFetchTakes ==
    ASSUME NEW partitions \in Seq(Int)
    PROVE  \E bytes : /\ Takes(PackageOffsetFetch(OffsetFetchRequest(partitions)), bytes)
                      /\ OffsetFetchSize(partitions) = HeadSize + bytes
<1> DEFINE r == OffsetFetchRequest(partitions)
           t == PartitionAssignmentOf(partitions)
           size == 2 + Topic + 4 + 4 * Len(partitions)
           bytes == (2 + Group) + (4 + size)
<1>1. r.group_ = Group /\ r.topics = <<t>>
  BY DEF OffsetFetchRequest
<1>2. Takes(PackagePartitionAssignment(t), size) /\ size \in Nat
  BY PartitionsTake DEF Takes
<1>3. OffsetFetchSize(partitions) = HeadSize + bytes
  BY NamesAssumption, LenProperties DEF OffsetFetchSize, HeadSize, client_id_
<1> HIDE DEF r, t, size
<1>4. Takes(Array(<<t>>, PackagePartitionAssignment), 4 + size)
  <2>1. DOMAIN <<t>> = 1 .. 1 /\ Len(<<t>>) = 1
    OBVIOUS
  <2>2. [i \in DOMAIN <<t>> |-> PackagePartitionAssignment(<<t>>[i])] = <<PackagePartitionAssignment(t)>>
    BY <2>1
  <2>3. Array(<<t>>, PackagePartitionAssignment) = Int32(1) \o FlattenSeq(<<PackagePartitionAssignment(t)>>)
    BY <2>1, <2>2 DEF Array
  <2> QED BY <1>2, <2>3, OneTakes
<1>5. Takes(String(Group), 2 + Group)
  BY NamesAssumption, StringTakes
<1>6. Takes(PackageOffsetFetch(r), bytes)
  <2>1. PackageOffsetFetch(r) = String(Group) \o Array(<<t>>, PackagePartitionAssignment)
    BY <1>1 DEF PackageOffsetFetch
  <2> QED BY <1>4, <1>5, <2>1, BothTake
<1> HIDE DEF bytes
<1>7. \E b : Takes(PackageOffsetFetch(r), b) /\ OffsetFetchSize(partitions) = HeadSize + b
  BY <1>3, <1>6
<1> QED BY <1>7 DEF r

LEMMA OffsetTakes ==
    ASSUME NEW partitions \in Seq(Int)
    PROVE  \E bytes : /\ Takes(PackageOffset(OffsetRequest(partitions)), bytes)
                      /\ OffsetSize(partitions) = HeadSize + bytes
<1> DEFINE r == OffsetRequest(partitions)
           t == TopicPartition(partitions)
           size == TopicPartitionSize(partitions)
           bytes == 4 + (4 + size)
<1>1. r.replica_id_ = -1 /\ r.topic_partition_array_ = <<t>>
  BY DEF OffsetRequest
<1>2. Takes(PackageTopicPartition(t), size) /\ size \in Nat
  BY TimesTake DEF Takes
<1>3. OffsetSize(partitions) = HeadSize + bytes
  BY <1>2 DEF OffsetSize, HeadSize, client_id_
<1> HIDE DEF r, t, size
<1>4. Takes(Array(<<t>>, PackageTopicPartition), 4 + size)
  <2>1. DOMAIN <<t>> = 1 .. 1 /\ Len(<<t>>) = 1
    OBVIOUS
  <2>2. [i \in DOMAIN <<t>> |-> PackageTopicPartition(<<t>>[i])] = <<PackageTopicPartition(t)>>
    BY <2>1
  <2>3. Array(<<t>>, PackageTopicPartition) = Int32(1) \o FlattenSeq(<<PackageTopicPartition(t)>>)
    BY <2>1, <2>2 DEF Array
  <2> QED BY <1>2, <2>3, OneTakes
<1>5. Takes(Int32(-1), 4)
  BY IntsTake
<1>6. Takes(PackageOffset(r), bytes)
  <2>1. PackageOffset(r) = Int32(-1) \o Array(<<t>>, PackageTopicPartition)
    BY <1>1 DEF PackageOffset
  <2> QED BY <1>4, <1>5, <2>1, BothTake
<1> HIDE DEF bytes
<1>7. \E b : Takes(PackageOffset(r), b) /\ OffsetSize(partitions) = HeadSize + b
  BY <1>3, <1>6
<1> QED BY <1>7 DEF r

LEMMA OffsetCommitTakes ==
    ASSUME NEW generation \in Int, NEW member \in Nat, NEW offsets \in Seq(Offsets)
    PROVE  \E bytes :
              /\ Takes(PackageOffsetCommit(OffsetCommitRequest(generation, member, offsets)), bytes)
              /\ OffsetCommitSize(member, offsets) = HeadSize + bytes
<1> DEFINE r == OffsetCommitRequest(generation, member, offsets)
           t == TopicPartitionOM(offsets)
           size == TopicPartitionOMSize(offsets)
           bytes == ((((2 + Group) + 4) + (2 + member)) + 8) + (4 + size)
<1>1. /\ r.group_ = Group /\ r.group_generation_id_ = generation /\ r.consumer_id_ = member
      /\ r.retention_time_ = -1 /\ r.topic_partitions_ = <<t>>
  BY DEF OffsetCommitRequest
<1>2. Takes(PackageTopicPartitionOM(t), size) /\ size \in Nat
  BY CommitsTake DEF Takes
<1>3. OffsetCommitSize(member, offsets) = HeadSize + bytes
  BY <1>2, NamesAssumption DEF OffsetCommitSize, HeadSize, client_id_
<1> HIDE DEF r, t, size
<1>4. Takes(Array(<<t>>, PackageTopicPartitionOM), 4 + size)
  <2>1. DOMAIN <<t>> = 1 .. 1 /\ Len(<<t>>) = 1
    OBVIOUS
  <2>2. [i \in DOMAIN <<t>> |-> PackageTopicPartitionOM(<<t>>[i])] = <<PackageTopicPartitionOM(t)>>
    BY <2>1
  <2>3. Array(<<t>>, PackageTopicPartitionOM) = Int32(1) \o FlattenSeq(<<PackageTopicPartitionOM(t)>>)
    BY <2>1, <2>2 DEF Array
  <2> QED BY <1>2, <2>3, OneTakes
<1>5. Takes(String(Group), 2 + Group) /\ Takes(String(member), 2 + member)
      /\ Takes(Int32(generation), 4) /\ Takes(Int64(-1), 8)
  <2>1. Takes(String(Group), 2 + Group) /\ Takes(String(member), 2 + member)
    BY NamesAssumption, StringTakes
  <2>2. Takes(Int32(generation), 4) /\ Takes(Int64(-1), 8)
    BY IntsTake
  <2> QED BY <2>1, <2>2
<1>6. Takes(PackageOffsetCommit(r), bytes)
  <2>1. PackageOffsetCommit(r)
          = (((String(Group) \o Int32(generation)) \o String(member)) \o Int64(-1))
                \o Array(<<t>>, PackageTopicPartitionOM)
    BY <1>1 DEF PackageOffsetCommit
  <2> QED BY <1>4, <1>5, <2>1, BothTake
<1> HIDE DEF bytes
<1>7. \E b : Takes(PackageOffsetCommit(r), b) /\ OffsetCommitSize(member, offsets) = HeadSize + b
  BY <1>3, <1>6
<1> QED BY <1>7 DEF r

LEMMA FetchTakes ==
    ASSUME NEW offsets \in Seq(Offsets)
    PROVE  \E bytes : /\ Takes(PackageFetch(FetchRequest(offsets)), bytes)
                      /\ FetchSize(offsets) = HeadSize + bytes
<1> DEFINE r == FetchRequest(offsets)
           t == TopicPartitionFM(offsets)
           size == TopicPartitionFMSize(offsets)
           bytes == ((4 + 4) + 4) + (4 + size)
<1>1. /\ r.replica_id_ \in Int /\ r.max_wait_time_ \in Int /\ r.min_bytes_ \in Int
      /\ r.topic_partitions_ = <<t>>
  BY SMT DEF FetchRequest
<1>2. Takes(PackageTopicPartitionFM(t), size) /\ size \in Nat
  BY FetchesTake DEF Takes
<1>3. FetchSize(offsets) = HeadSize + bytes
  BY <1>2 DEF FetchSize, HeadSize, client_id_
<1> HIDE DEF r, t, size
<1>4. Takes(Array(<<t>>, PackageTopicPartitionFM), 4 + size)
  <2>1. DOMAIN <<t>> = 1 .. 1 /\ Len(<<t>>) = 1
    OBVIOUS
  <2>2. [i \in DOMAIN <<t>> |-> PackageTopicPartitionFM(<<t>>[i])] = <<PackageTopicPartitionFM(t)>>
    BY <2>1
  <2>3. Array(<<t>>, PackageTopicPartitionFM) = Int32(1) \o FlattenSeq(<<PackageTopicPartitionFM(t)>>)
    BY <2>1, <2>2 DEF Array
  <2> QED BY <1>2, <2>3, OneTakes
<1>5. /\ Takes(Int32(r.replica_id_), 4) /\ Takes(Int32(r.max_wait_time_), 4)
      /\ Takes(Int32(r.min_bytes_), 4)
  BY <1>1, IntsTake
<1>6. Takes(PackageFetch(r), bytes)
  <2>1. PackageFetch(r) = ((Int32(r.replica_id_) \o Int32(r.max_wait_time_)) \o Int32(r.min_bytes_))
                              \o Array(<<t>>, PackageTopicPartitionFM)
    BY <1>1 DEF PackageFetch
  <2> QED BY <1>4, <1>5, <2>1, BothTake
<1> HIDE DEF bytes
<1>7. \E b : Takes(PackageFetch(r), b) /\ FetchSize(offsets) = HeadSize + b
  BY <1>3, <1>6
<1> QED BY <1>7 DEF r

(* Which CountSize and which Package are called. *)
LEMMA CountSizes ==
    ASSUME NEW request
    PROVE  /\ request.type = "Metadata" => CountSize(request) = MetadataSize
           /\ request.type = "GroupCoordinator" => CountSize(request) = GroupCoordinatorSize
           /\ request.type = "JoinGroup" => CountSize(request) = JoinGroupSize(request.body)
           /\ request.type = "SyncGroup" => CountSize(request) = SyncGroupSize(request.body)
           /\ request.type = "Heartbeat" => CountSize(request) = HeartbeatSize(request.body)
           /\ request.type = "OffsetFetch" => CountSize(request) = OffsetFetchSize(request.body.topics[1].partitions_)
           /\ request.type = "Offset" => CountSize(request) = OffsetSize(request.body.topic_partition_array_[1].partition_time_array_)
           /\ request.type = "OffsetCommit" => CountSize(request) = 
                OffsetCommitSize(request.body.consumer_id_, request.body.topic_partitions_[1].partitions_)
           /\ request.type = "Fetch" => CountSize(request) = FetchSize(request.body.topic_partitions_[1].partitions_)
BY Zenon DEF CountSize

LEMMA Packages ==
    ASSUME NEW request
    PROVE  /\ request.type = "Metadata" => PackageBody(request) = PackageMetadata(request.body)
           /\ request.type = "GroupCoordinator" => PackageBody(request) = PackageGroupCoordinator(request.body)
           /\ request.type = "JoinGroup" => PackageBody(request) = PackageJoinGroup(request.body)
           /\ request.type = "SyncGroup" => PackageBody(request) = PackageSyncGroup(request.body)
           /\ request.type = "Heartbeat" => PackageBody(request) = PackageHeartbeat(request.body)
           /\ request.type = "OffsetFetch" => PackageBody(request) = PackageOffsetFetch(request.body)
           /\ request.type = "Offset" => PackageBody(request) = PackageOffset(request.body)
           /\ request.type = "OffsetCommit" => PackageBody(request) = PackageOffsetCommit(request.body)
           /\ request.type = "Fetch" => PackageBody(request) = PackageFetch(request.body)
BY Zenon DEF PackageBody

(* The classes whose size is counted of the partitions they are given: the *)
(* size does not change when they have been made records.                  *)
LEMMA SameLengths ==
    ASSUME NEW partitions \in Seq(Int), NEW offsets \in Seq(Offsets),
           NEW generation, NEW member
    PROVE  /\ CountSize([type |-> "OffsetFetch", body |-> OffsetFetchRequest(partitions)])
                = OffsetFetchSize(partitions)
           /\ CountSize([type |-> "Offset", body |-> OffsetRequest(partitions)])
                = OffsetSize(partitions)
           /\ CountSize([type |-> "OffsetCommit",
                         body |-> OffsetCommitRequest(generation, member, offsets)])
                = OffsetCommitSize(member, offsets)
           /\ CountSize([type |-> "Fetch", body |-> FetchRequest(offsets)]) = FetchSize(offsets)
<1>1. /\ Len(partitions) \in Nat /\ DOMAIN partitions = 1 .. Len(partitions)
      /\ Len(offsets) \in Nat /\ DOMAIN offsets = 1 .. Len(offsets)
  BY LenProperties
<1>2. CountSize([type |-> "OffsetFetch", body |-> OffsetFetchRequest(partitions)])
        = OffsetFetchSize(partitions)
  <2> DEFINE of == OffsetFetchRequest(partitions).topics[1].partitions_
  <2>1. Len(of) = Len(partitions)
    BY <1>1 DEF OffsetFetchRequest, PartitionAssignmentOf
  <2>2. CountSize([type |-> "OffsetFetch", body |-> OffsetFetchRequest(partitions)])
          = OffsetFetchSize(of)
    BY CountSizes
  <2> QED BY <2>1, <2>2 DEF OffsetFetchSize
<1>3. CountSize([type |-> "Offset", body |-> OffsetRequest(partitions)]) = OffsetSize(partitions)
  <2> DEFINE of == OffsetRequest(partitions).topic_partition_array_[1].partition_time_array_
  <2>1. Len(of) = Len(partitions)
    BY <1>1 DEF OffsetRequest, TopicPartition
  <2>2. CountSize([type |-> "Offset", body |-> OffsetRequest(partitions)]) = OffsetSize(of)
    BY CountSizes
  <2> QED BY <2>1, <2>2 DEF OffsetSize, TopicPartitionSize
<1>4. CountSize([type |-> "OffsetCommit", body |-> OffsetCommitRequest(generation, member, offsets)])
        = OffsetCommitSize(member, offsets)
  <2> DEFINE r == OffsetCommitRequest(generation, member, offsets)
             of == r.topic_partitions_[1].partitions_
  <2>1. Len(of) = Len(offsets) /\ r.consumer_id_ = member
    BY <1>1 DEF OffsetCommitRequest, TopicPartitionOM
  <2>2. CountSize([type |-> "OffsetCommit", body |-> r]) = OffsetCommitSize(r.consumer_id_, of)
    BY CountSizes
  <2> QED BY <2>1, <2>2 DEF OffsetCommitSize, TopicPartitionOMSize
<1>5. CountSize([type |-> "Fetch", body |-> FetchRequest(offsets)]) = FetchSize(offsets)
  <2> DEFINE of == FetchRequest(offsets).topic_partitions_[1].partitions_
  <2>1. Len(of) = Len(offsets)
    BY <1>1 DEF FetchRequest, TopicPartitionFM
  <2>2. CountSize([type |-> "Fetch", body |-> FetchRequest(offsets)]) = FetchSize(of)
    BY CountSizes
  <2> QED BY <2>1, <2>2 DEF FetchSize, TopicPartitionFMSize
<1> QED BY <1>2, <1>3, <1>4, <1>5

CountsBody(request) ==
    /\ request.type \in DOMAIN ApiKey
    /\ \E bytes : Takes(PackageBody(request), bytes) /\ CountSize(request) = HeadSize + bytes

LEMMA BodiesCounted ==
    ASSUME NEW member \in Nat, NEW generation \in Int, NEW partitions \in Seq(Int),
           NEW offsets \in Seq(Offsets), NEW member_partitions \in Seq(Assigned),
           NEW request \in Built(member, generation, partitions, offsets, member_partitions)
    PROVE  CountsBody(request)
<1> DEFINE Counts(type, body) == [type |-> type, body |-> body]
<1>1. CASE request = Counts("Metadata", MetadataRequest)
  <2>1. PackageBody(request) = Array(<<[topic |-> Topic]>>, PackageTopic)
    BY <1>1, Packages DEF PackageMetadata, MetadataRequest
  <2>2. CountSize(request) = HeadSize + (4 + 2 + Topic)
    BY <1>1, CountSizes, NamesAssumption DEF MetadataSize, HeadSize, client_id_
  <2>3. request.type \in DOMAIN ApiKey
    BY <1>1 DEF ApiKey
  <2> QED BY <2>1, <2>2, <2>3, TopicsTake DEF CountsBody
<1>2. CASE request = Counts("GroupCoordinator", GroupCoordinatorRequest)
  <2>1. PackageBody(request) = String(Group)
    BY <1>2, Packages DEF PackageGroupCoordinator, GroupCoordinatorRequest
  <2>2. CountSize(request) = HeadSize + (2 + Group)
    BY <1>2, CountSizes, NamesAssumption DEF GroupCoordinatorSize, HeadSize, client_id_
  <2>3. Takes(String(Group), 2 + Group)
    BY NamesAssumption, StringTakes
  <2>4. request.type \in DOMAIN ApiKey
    BY <1>2 DEF ApiKey
  <2> QED BY <2>1, <2>2, <2>3, <2>4 DEF CountsBody
<1>3. CASE request = Counts("JoinGroup", JoinGroupRequest(member))
  <2> DEFINE body == JoinGroupRequest(member)
  <2>1. PICK bytes : Takes(PackageJoinGroup(body), bytes) /\ JoinGroupSize(body) = HeadSize + bytes
    BY JoinTakes
  <2>2. PackageBody(request) = PackageJoinGroup(body) /\ CountSize(request) = JoinGroupSize(body)
    BY <1>3, Packages, CountSizes
  <2>3. request.type \in DOMAIN ApiKey
    BY <1>3 DEF ApiKey
  <2> QED BY <2>1, <2>2, <2>3 DEF CountsBody
<1>4. CASE request = Counts("SyncGroup", SyncGroupRequest(generation, member, member_partitions))
  <2> DEFINE body == SyncGroupRequest(generation, member, member_partitions)
  <2>1. PICK bytes : Takes(PackageSyncGroup(body), bytes) /\ SyncGroupSize(body) = HeadSize + bytes
    BY SyncTakes
  <2>2. PackageBody(request) = PackageSyncGroup(body) /\ CountSize(request) = SyncGroupSize(body)
    BY <1>4, Packages, CountSizes
  <2>3. request.type \in DOMAIN ApiKey
    BY <1>4 DEF ApiKey
  <2> QED BY <2>1, <2>2, <2>3 DEF CountsBody
<1>5. CASE request = Counts("Heartbeat", HeartbeatRequest(generation, member))
  <2> DEFINE body == HeartbeatRequest(generation, member)
  <2>1. PICK bytes : Takes(PackageHeartbeat(body), bytes) /\ HeartbeatSize(body) = HeadSize + bytes
    BY HeartbeatTakes
  <2>2. PackageBody(request) = PackageHeartbeat(body) /\ CountSize(request) = HeartbeatSize(body)
    BY <1>5, Packages, CountSizes
  <2>3. request.type \in DOMAIN ApiKey
    BY <1>5 DEF ApiKey
  <2> QED BY <2>1, <2>2, <2>3 DEF CountsBody
<1>6. CASE request = Counts("OffsetFetch", OffsetFetchRequest(partitions))
  <2> DEFINE body == OffsetFetchRequest(partitions)
  <2>1. PICK bytes : Takes(PackageOffsetFetch(body), bytes)
                     /\ OffsetFetchSize(partitions) = HeadSize + bytes
    BY OffsetFetchTakes
  <2>2. PackageBody(request) = PackageOffsetFetch(body)
    BY <1>6, Packages
  <2>3. CountSize(request) = OffsetFetchSize(partitions) /\ request.type \in DOMAIN ApiKey
    BY <1>6, SameLengths DEF ApiKey
  <2> QED BY <2>1, <2>2, <2>3 DEF CountsBody
<1>7. CASE request = Counts("Offset", OffsetRequest(partitions))
  <2> DEFINE body == OffsetRequest(partitions)
  <2>1. PICK bytes : Takes(PackageOffset(body), bytes) /\ OffsetSize(partitions) = HeadSize + bytes
    BY OffsetTakes
  <2>2. PackageBody(request) = PackageOffset(body)
    BY <1>7, Packages
  <2>3. CountSize(request) = OffsetSize(partitions) /\ request.type \in DOMAIN ApiKey
    BY <1>7, SameLengths DEF ApiKey
  <2> QED BY <2>1, <2>2, <2>3 DEF CountsBody
<1>8. CASE request = Counts("OffsetCommit", OffsetCommitRequest(generation, member, offsets))
  <2> DEFINE body == OffsetCommitRequest(generation, member, offsets)
  <2>1. PICK bytes : Takes(PackageOffsetCommit(body), bytes)
                     /\ OffsetCommitSize(member, offsets) = HeadSize + bytes
    BY OffsetCommitTakes
  <2>2. PackageBody(request) = PackageOffsetCommit(body)
    BY <1>8, Packages
  <2>3. CountSize(request) = OffsetCommitSize(member, offsets) /\ request.type \in DOMAIN ApiKey
    BY <1>8, SameLengths DEF ApiKey
  <2> QED BY <2>1, <2>2, <2>3 DEF CountsBody
<1>9. CASE request = Counts("Fetch", FetchRequest(offsets))
  <2> DEFINE body == FetchRequest(offsets)
  <2>1. PICK bytes : Takes(PackageFetch(body), bytes) /\ FetchSize(offsets) = HeadSize + bytes
    BY FetchTakes
  <2>2. PackageBody(request) = PackageFetch(body)
    BY <1>9, Packages
  <2>3. CountSize(request) = FetchSize(offsets) /\ request.type \in DOMAIN ApiKey
    BY <1>9, SameLengths DEF ApiKey
  <2> QED BY <2>1, <2>2, <2>3 DEF CountsBody
<1> QED BY <1>1, <1>2, <1>3, <1>4, <1>5, <1>6, <1>7, <1>8, <1>9 DEF Built

LEMMA SizesAre ==
    ASSUME NEW request, CountsBody(request)
    PROVE  CountSize(request) \in Nat /\ ByteCount(Package(request)) = CountSize(request) + 4
<1>1. PICK bytes : Takes(PackageBody(request), bytes) /\ CountSize(request) = HeadSize + bytes
  BY DEF CountsBody
<1>2. CountSize(request) \in Nat
  BY <1>1 DEF Takes, HeadSize, client_id_
<1> QED BY <1>1, <1>2, RequestTakes DEF CountsBody

(* CountSize counts what Package writes, of every request of every class:  *)
(* the size a broker reads in front of a request is that of the request.   *)
THEOREM SizesCounted ==
    ASSUME NEW member \in Nat, NEW generation \in Int, NEW partitions \in Seq(Int),
           NEW offsets \in Seq(Offsets), NEW member_partitions \in Seq(Assigned),
           NEW request \in Built(member, generation, partitions, offsets, member_partitions)
    PROVE  ByteCount(Package(request)) = CountSize(request) + 4
BY BodiesCounted, SizesAre

-----------------------------------------------------------------------------
(***************************************************************************)
(* What a broker reads of a request: each format of Protocol gets back the *)
(* object whose class has packaged it.                                     *)
(***************************************************************************)
LEMMA OneElementReads ==
    ASSUME NEW reader, NEW wire, NEW value, Reads(reader, wire, value)
    PROVE  Reads(Elements(reader), Int32(1) \o FlattenSeq(<<wire>>), <<value>>)
<1> DEFINE wires == <<wire>>
           values == <<value>>
<1>1. wire \in Wires
  BY DEF Reads
<1>2. wires \in Seq(Wires) /\ Len(wires) = 1 /\ values \in Seq({value}) /\ Len(values) = 1
      /\ \A i \in 1 .. 1 : wires[i] = wire /\ values[i] = value
  BY <1>1
<1> HIDE DEF wires, values
<1>3. \A i \in 1 .. 1 : Reads(reader, wires[i], values[i])
  BY <1>2
<1>4. Reads(Elements(reader), Int32(1) \o FlattenSeq(wires), values)
  BY <1>2, <1>3, ElementsRead
<1> QED BY <1>4 DEF wires, values

LEMMA TopicsRead ==
    Reads(Elements(Object(TopicName)), Array(<<[topic |-> Topic]>>, PackageTopic), <<[topic |-> Topic]>>)
<1> DEFINE topics == <<[topic |-> Topic]>>
<1>1. DOMAIN TopicName = 1 .. 1 /\ ReadersOf(TopicName)[1] = Characters(2)
  BY DEF TopicName, Text, Item, ReadersOf
<1>2. Reads(Characters(2), String(Topic), Topic)
  BY StringReads, NamesAssumption
<1>3. ReadsFirst(ReadersOf(TopicName), 1, String(Topic), <<Topic>>)
  BY <1>1, <1>2, FirstOne
<1>4. Named(TopicName, <<Topic>>) = [topic |-> Topic]
  BY DEF Named, TopicName, Text, Item
<1>5. Reads(Object(TopicName), String(Topic), [topic |-> Topic])
  BY <1>1, <1>3, <1>4, ObjectReads
<1>6. Len(topics) = 1 /\ [i \in DOMAIN topics |-> PackageTopic(topics[i])] = <<String(Topic)>>
  BY DEF PackageTopic
<1>7. Array(topics, PackageTopic) = Int32(1) \o FlattenSeq(<<String(Topic)>>)
  BY <1>6 DEF Array
<1> HIDE DEF topics
<1>8. Reads(Elements(Object(TopicName)), Array(topics, PackageTopic), <<[topic |-> Topic]>>)
  BY <1>5, <1>7, OneElementReads
<1> QED BY <1>8 DEF topics

LEMMA MetadataReads ==
    Reads(Object(MetadataV0), PackageMetadata(MetadataRequest), MetadataRequest)
<1> DEFINE topics == <<[topic |-> Topic]>>
           wire == Array(topics, PackageTopic)
<1>1. DOMAIN MetadataV0 = 1 .. 1 /\ ReadersOf(MetadataV0)[1] = Elements(Object(TopicName))
  BY DEF MetadataV0, Many, Item, ReadersOf
<1>2. Reads(Elements(Object(TopicName)), wire, topics)
  BY TopicsRead
<1> HIDE DEF topics, wire
<1>3. ReadsFirst(ReadersOf(MetadataV0), 1, wire, <<topics>>)
  BY <1>1, <1>2, FirstOne
<1>4. Named(MetadataV0, <<topics>>) = [topics_ |-> topics]
  BY DEF Named, MetadataV0, Many, Item
<1>5. Reads(Object(MetadataV0), wire, [topics_ |-> topics])
  BY <1>1, <1>3, <1>4, ObjectReads
<1>6. PackageMetadata(MetadataRequest) = wire /\ MetadataRequest = [topics_ |-> topics]
  BY DEF PackageMetadata, MetadataRequest, topics, wire
<1> QED BY <1>5, <1>6

LEMMA GroupCoordinatorReads ==
    Reads(Object(GroupCoordinatorV0), PackageGroupCoordinator(GroupCoordinatorRequest),
          GroupCoordinatorRequest)
<1>1. DOMAIN GroupCoordinatorV0 = 1 .. 1 /\ ReadersOf(GroupCoordinatorV0)[1] = Characters(2)
  BY DEF GroupCoordinatorV0, Text, Item, ReadersOf
<1>2. Reads(Characters(2), String(Group), Group)
  BY StringReads, NamesAssumption
<1>3. ReadsFirst(ReadersOf(GroupCoordinatorV0), 1, String(Group), <<Group>>)
  BY <1>1, <1>2, FirstOne
<1>4. Named(GroupCoordinatorV0, <<Group>>) = GroupCoordinatorRequest
  BY DEF Named, GroupCoordinatorV0, Text, Item, GroupCoordinatorRequest
<1>5. PackageGroupCoordinator(GroupCoordinatorRequest) = String(Group)
  BY DEF PackageGroupCoordinator, GroupCoordinatorRequest
<1> QED BY <1>1, <1>3, <1>4, <1>5, ObjectReads

LEMMA HeartbeatReads ==
    ASSUME NEW generation \in Int, NEW member \in Nat
    PROVE  LET r == HeartbeatRequest(generation, member)
           IN  Reads(Object(HeartbeatV0), PackageHeartbeat(r), r)
<1> DEFINE r == HeartbeatRequest(generation, member)
           readers == ReadersOf(HeartbeatV0)
<1>1. DOMAIN HeartbeatV0 = 1 .. 3 /\ readers[1] = Characters(2) /\ readers[2] = Number(4)
      /\ readers[3] = Characters(2)
  BY DEF HeartbeatV0, Text, Read32, Item, ReadersOf
<1>2. Reads(Characters(2), String(Group), Group) /\ Reads(Number(4), Int32(generation), generation)
      /\ Reads(Characters(2), String(member), member)
  BY StringReads, IntsRead, NamesAssumption
<1> HIDE DEF readers
<1>3. ReadsFirst(readers, 3, (String(Group) \o Int32(generation)) \o String(member),
                 <<Group, generation, member>>)
  BY <1>1, <1>2, FirstThree
<1>4. Named(HeartbeatV0, <<Group, generation, member>>) = r
  BY DEF Named, HeartbeatV0, Text, Read32, Item, HeartbeatRequest
<1>5. PackageHeartbeat(r) = (String(Group) \o Int32(generation)) \o String(member)
  BY DEF PackageHeartbeat, HeartbeatRequest
<1> HIDE DEF r
<1>6. Reads(Object(HeartbeatV0), PackageHeartbeat(r), r)
  BY <1>1, <1>3, <1>4, <1>5, ObjectReads DEF readers
<1> QED BY <1>6 DEF r

(* The array of the user data, which is empty, behind the array of one. *)
LEMMA NoBytesRead == Reads(Characters(4), Int32(0) \o Field(0, 0), 0)
<1>1. 4 \in Nat \ {0} /\ 0 \in Nat
  OBVIOUS
<1> QED BY <1>1, CharactersRead DEF Int32

LEMMA SubscriptionReads ==
    Reads(Object(Subscription), PackageProtocolMetadata(ProtocolMetadata), ProtocolMetadata)
<1> DEFINE readers == ReadersOf(Subscription)
           topics == <<[topic |-> Topic]>>
           wire == Array(topics, PackageTopic)
           none == Int32(0) \o Field(0, 0)
<1>1. DOMAIN Subscription = 1 .. 3 /\ readers[1] = Number(2)
      /\ readers[2] = Elements(Object(TopicName)) /\ readers[3] = Characters(4)
  BY DEF Subscription, Read16, Many, Bytes, Item, ReadersOf
<1>2. Reads(Number(2), Int16(0), 0) /\ Reads(Elements(Object(TopicName)), wire, topics)
      /\ Reads(Characters(4), none, 0)
  BY IntsRead, TopicsRead, NoBytesRead
<1>3. PackageProtocolMetadata(ProtocolMetadata) = (Int16(0) \o wire) \o none
  <2>1. PackageProtocolMetadata(ProtocolMetadata) = ((Int16(0) \o wire) \o Int32(0)) \o Field(0, 0)
    BY DEF PackageProtocolMetadata, ProtocolMetadata
  <2>2. Int16(0) \in Wires /\ wire \in Wires /\ Int32(0) \in Wires /\ Field(0, 0) \in Wires
    BY <1>2, BytesOfField DEF Reads, Int32
  <2> HIDE DEF wire
  <2>3. Int16(0) \o wire \in Wires
    BY <2>2, BytesOfBoth
  <2> QED BY <2>1, <2>2, <2>3, ConcatAssociative
<1> HIDE DEF readers, wire, none, topics
<1>4. ReadsFirst(readers, 3, (Int16(0) \o wire) \o none, <<0, topics, 0>>)
  BY <1>1, <1>2, FirstThree
<1>5. Named(Subscription, <<0, topics, 0>>) = ProtocolMetadata
  BY DEF Named, Subscription, Read16, Many, Bytes, Item, ProtocolMetadata, topics
<1> QED BY <1>1, <1>3, <1>4, <1>5, ObjectReads DEF readers

LEMMA OfferedReads ==
    Reads(Object(OfferedProtocol), PackageGroupProtocol(GroupProtocol), GroupProtocol)
<1> DEFINE readers == ReadersOf(OfferedProtocol)
           m == ProtocolMetadata
           wire == PackageProtocolMetadata(m)
           sized == Int32(ProtocolMetadataSize) \o wire
<1>1. DOMAIN OfferedProtocol = 1 .. 2 /\ readers[1] = Characters(2)
      /\ readers[2] = Counting(Object(Subscription))
  BY DEF OfferedProtocol, Text, Sized, Item, ReadersOf
<1>2. Reads(Characters(2), String(5), 5)
  BY StringReads
<1>3. Reads(Object(Subscription), wire, m) /\ Takes(wire, ProtocolMetadataSize)
  BY SubscriptionReads, SubscriptionTakes
<1> HIDE DEF readers, wire, m
<1>4. Reads(Counting(Object(Subscription)), sized, m)
  BY <1>3, CountingReads
<1>5. PackageGroupProtocol(GroupProtocol) = String(5) \o sized
  <2>1. PackageGroupProtocol(GroupProtocol) = (String(5) \o Int32(ProtocolMetadataSize)) \o wire
    BY DEF PackageGroupProtocol, GroupProtocol, wire, m
  <2>2. String(5) \in Wires /\ Int32(ProtocolMetadataSize) \in Wires /\ wire \in Wires
    BY <1>2, <1>3, IntsTake DEF Reads, Takes
  <2> QED BY <2>1, <2>2, ConcatAssociative
<1> HIDE DEF sized
<1>6. ReadsFirst(readers, 2, String(5) \o sized, <<5, m>>)
  BY <1>1, <1>2, <1>4, FirstTwo
<1>7. Named(OfferedProtocol, <<5, m>>) = GroupProtocol
  BY DEF Named, OfferedProtocol, Text, Sized, Item, GroupProtocol, m
<1> QED BY <1>1, <1>5, <1>6, <1>7, ObjectReads DEF readers

LEMMA JoinGroupReads ==
    ASSUME NEW member \in Nat
    PROVE  LET r == JoinGroupRequest(member)
           IN  Reads(Object(JoinGroupV0), PackageJoinGroup(r), r)
<1> DEFINE r == JoinGroupRequest(member)
           g == GroupProtocol
           readers == ReadersOf(JoinGroupV0)
           timeout == r.session_timeout_
           wire == Int32(1) \o FlattenSeq(<<PackageGroupProtocol(g)>>)
<1>1. DOMAIN JoinGroupV0 = 1 .. 5 /\ readers[1] = Characters(2) /\ readers[2] = Number(4)
      /\ readers[3] = Characters(2) /\ readers[4] = Characters(2)
      /\ readers[5] = Elements(Object(OfferedProtocol))
  BY DEF JoinGroupV0, Text, Read32, Many, Item, ReadersOf
<1>2. timeout \in Int /\ r = [group_id_ |-> Group, session_timeout_ |-> timeout,
        member_id_ |-> member, protocol_type_ |-> 8, group_protocols_ |-> <<g>>]
  BY SMT DEF JoinGroupRequest
<1> HIDE DEF readers, r, g, timeout
<1>3. Reads(Object(OfferedProtocol), PackageGroupProtocol(g), g)
  BY OfferedReads DEF g
<1>4. Reads(Elements(Object(OfferedProtocol)), wire, <<g>>)
  BY <1>3, OneElementReads
<1> HIDE DEF wire
<1>5. Reads(Characters(2), String(Group), Group) /\ Reads(Number(4), Int32(timeout), timeout)
      /\ Reads(Characters(2), String(member), member) /\ Reads(Characters(2), String(8), 8)
  BY <1>2, StringReads, IntsRead, NamesAssumption
<1>6. ReadsFirst(readers, 5,
                 (((String(Group) \o Int32(timeout)) \o String(member)) \o String(8)) \o wire,
                 <<Group, timeout, member, 8, <<g>>>>)
  BY <1>1, <1>4, <1>5, FirstFive
<1>7. Named(JoinGroupV0, <<Group, timeout, member, 8, <<g>>>>) = r
  BY <1>2 DEF Named, JoinGroupV0, Text, Read32, Many, Item
<1>8. PackageJoinGroup(r)
        = (((String(Group) \o Int32(timeout)) \o String(member)) \o String(8)) \o wire
  <2>1. Len(<<g>>) = 1 /\ [i \in DOMAIN <<g>> |-> PackageGroupProtocol(<<g>>[i])]
                            = <<PackageGroupProtocol(g)>>
    OBVIOUS
  <2>2. Array(<<g>>, PackageGroupProtocol) = wire
    BY <2>1 DEF Array, wire
  <2> QED BY <1>2, <2>2 DEF PackageJoinGroup
<1>9. Reads(Object(JoinGroupV0), PackageJoinGroup(r), r)
  BY <1>1, <1>6, <1>7, <1>8, ObjectReads DEF readers
<1> QED BY <1>9 DEF r

(* A topic and the records of its partitions, as any of the classes has    *)
(* them.                                                                   *)
LEMMA RecordsRead ==
    ASSUME NEW reader, NEW n \in Nat, NEW wires \in Seq(Wires), Len(wires) = n,
           NEW S, NEW values \in Seq(S), Len(values) = n,
           \A i \in 1 .. n : Reads(reader, wires[i], values[i]),
           NEW format, DOMAIN format = 1 .. 2, ReadersOf(format)[1] = Characters(2),
           ReadersOf(format)[2] = Elements(reader)
    PROVE  Reads(Object(format), String(Topic) \o (Int32(n) \o FlattenSeq(wires)),
                 Named(format, <<Topic, values>>))
<1>1. Reads(Elements(reader), Int32(n) \o FlattenSeq(wires), values)
  BY ElementsRead
<1>2. Reads(Characters(2), String(Topic), Topic)
  BY StringReads, NamesAssumption
<1>3. ReadsFirst(ReadersOf(format), 2, String(Topic) \o (Int32(n) \o FlattenSeq(wires)),
                 <<Topic, values>>)
  BY <1>1, <1>2, FirstTwo
<1> QED BY <1>3, ObjectReads

(* The objects of the formats, value by value. *)
LEMMA IdsNamed ==
    ASSUME NEW a, NEW b
    PROVE  Named(Ids, <<a, b>>)
             = [topic_ |-> a, partitions_ |-> b]
BY DEF Named, Ids, Text, Many, Item

LEMMA AssignmentNamed ==
    ASSUME NEW a, NEW b, NEW c
    PROVE  Named(Assignment, <<a, b, c>>)
             = [version_ |-> a, partition_assignment_ |-> b, user_data_ |-> c]
BY DEF Named, Assignment, Read16, Many, Bytes, Item

LEMMA AssignedMemberNamed ==
    ASSUME NEW a, NEW b
    PROVE  Named(AssignedMember, <<a, b>>)
             = [member_id_ |-> a, member_assignment_ |-> b]
BY DEF Named, AssignedMember, Text, Sized, Item

LEMMA SyncGroupNamed ==
    ASSUME NEW a, NEW b, NEW c, NEW d
    PROVE  Named(SyncGroupV0, <<a, b, c, d>>)
             = [group_id_ |-> a, generation_id_ |-> b, member_id_ |-> c, group_assignment_ |-> d]
BY DEF Named, SyncGroupV0, Text, Read32, Many, Item

LEMMA OffsetFetchNamed ==
    ASSUME NEW a, NEW b
    PROVE  Named(OffsetFetchV1, <<a, b>>)
             = [group_ |-> a, topics |-> b]
BY DEF Named, OffsetFetchV1, Text, Many, Item

LEMMA TimedPartitionNamed ==
    ASSUME NEW a, NEW b, NEW c
    PROVE  Named(TimedPartition, <<a, b, c>>)
             = [partition_ |-> a, time_ |-> b, max_number_of_offsets_ |-> c]
BY DEF Named, TimedPartition, Read32, Read64, Item

LEMMA TimedTopicNamed ==
    ASSUME NEW a, NEW b
    PROVE  Named(TimedTopic, <<a, b>>)
             = [topic_ |-> a, partition_time_array_ |-> b]
BY DEF Named, TimedTopic, Text, Many, Item

LEMMA OffsetNamed ==
    ASSUME NEW a, NEW b
    PROVE  Named(OffsetV0, <<a, b>>)
             = [replica_id_ |-> a, topic_partition_array_ |-> b]
BY DEF Named, OffsetV0, Read32, Many, Item

LEMMA CommittedPartitionNamed ==
    ASSUME NEW a, NEW b, NEW c
    PROVE  Named(CommittedPartition, <<a, b, c>>)
             = [partition_ |-> a, offset_ |-> b, metadata_ |-> c]
BY DEF Named, CommittedPartition, Read32, Read64, Text, Item

LEMMA CommittedTopicNamed ==
    ASSUME NEW a, NEW b
    PROVE  Named(CommittedTopic, <<a, b>>)
             = [topic_ |-> a, partitions_ |-> b]
BY DEF Named, CommittedTopic, Text, Many, Item

LEMMA OffsetCommitNamed ==
    ASSUME NEW a, NEW b, NEW c, NEW d, NEW e
    PROVE  Named(OffsetCommitV2, <<a, b, c, d, e>>)
             = [group_ |-> a, group_generation_id_ |-> b, consumer_id_ |-> c,
                retention_time_ |-> d, topic_partitions_ |-> e]
BY DEF Named, OffsetCommitV2, Text, Read32, Read64, Many, Item

LEMMA FetchedPartitionNamed ==
    ASSUME NEW a, NEW b, NEW c
    PROVE  Named(FetchedPartition, <<a, b, c>>)
             = [partition_ |-> a, fetch_offset_ |-> b, max_bytes_ |-> c]
BY DEF Named, FetchedPartition, Read32, Read64, Item

LEMMA FetchedTopicNamed ==
    ASSUME NEW a, NEW b
    PROVE  Named(FetchedTopic, <<a, b>>)
             = [topic_ |-> a, partitions_ |-> b]
BY DEF Named, FetchedTopic, Text, Many, Item

LEMMA FetchNamed ==
    ASSUME NEW a, NEW b, NEW c, NEW d
    PROVE  Named(FetchV1, <<a, b, c, d>>)
             = [replica_id_ |-> a, max_wait_time_ |-> b, min_bytes_ |-> c, topic_partitions_ |-> d]
BY DEF Named, FetchV1, Read32, Many, Item

LEMMA HeadNamed ==
    ASSUME NEW a, NEW b, NEW c, NEW d, NEW e
    PROVE  Named(RequestHead, <<a, b, c, d, e>>)
             = [size |-> a, key |-> b, version |-> c, correlation |-> d, client |-> e]
BY DEF Named, RequestHead, Read32, Read16, Text, Item

LEMMA PartitionsRead ==
    ASSUME NEW partitions \in Seq(Int)
    PROVE  LET a == PartitionAssignmentOf(partitions)
           IN  Reads(Object(Ids), PackagePartitionAssignment(a), a)
<1> DEFINE elements == PartitionAssignmentOf(partitions).partitions_
           wires == [i \in DOMAIN elements |-> PackagePartition(elements[i])]
           n == Len(partitions)
<1>1. n \in Nat /\ DOMAIN partitions = 1 .. n /\ \A i \in 1 .. n : partitions[i] \in Int
  BY LenProperties, ElementOfSeq
<1>2. /\ PartitionAssignmentOf(partitions) = [topic_ |-> Topic, partitions_ |-> elements]
      /\ elements = [i \in 1 .. n |-> [id |-> partitions[i]]]
  BY <1>1 DEF PartitionAssignmentOf
<1>3. Len(elements) = n /\ DOMAIN elements = 1 .. n /\ elements \in Seq([id : Int])
  BY <1>1, <1>2
<1>4. ASSUME NEW i \in 1 .. n PROVE Reads(Object(PartitionId), wires[i], elements[i])
  <2> DEFINE p == partitions[i]
  <2>1. wires[i] = Int32(p) /\ elements[i] = [id |-> p] /\ p \in Int
    BY <1>1, <1>2 DEF PackagePartition
  <2> HIDE DEF p
  <2>2. Reads(Number(4), Int32(p), p)
    BY <2>1, IntsRead
  <2>3. DOMAIN PartitionId = 1 .. 1 /\ ReadersOf(PartitionId)[1] = Number(4)
    BY DEF PartitionId, Read32, Item, ReadersOf
  <2>4. Named(PartitionId, <<p>>) = [id |-> p]
    BY DEF Named, PartitionId, Read32, Item
  <2>5. ReadsFirst(ReadersOf(PartitionId), 1, Int32(p), <<p>>)
    BY <2>2, <2>3, FirstOne
  <2>6. Reads(Object(PartitionId), Int32(p), [id |-> p])
    BY <2>3, <2>4, <2>5, ObjectReads
  <2> QED BY <2>1, <2>6
<1>5. wires \in Seq(Wires) /\ Len(wires) = n
  BY <1>1, <1>3, <1>4 DEF Reads
<1>6. PackagePartitionAssignment(PartitionAssignmentOf(partitions))
        = String(Topic) \o (Int32(n) \o FlattenSeq(wires))
  <2>1. Array(elements, PackagePartition) = Int32(n) \o FlattenSeq(wires)
    BY <1>3 DEF Array
  <2> QED BY <2>1 DEF PackagePartitionAssignment, PartitionAssignmentOf
<1>7. /\ DOMAIN Ids = 1 .. 2 /\ ReadersOf(Ids)[1] = Characters(2)
      /\ ReadersOf(Ids)[2] = Elements(Object(PartitionId))
  BY DEF Ids, Text, Many, Item, ReadersOf
<1> HIDE DEF elements, wires
<1>8. Named(Ids, <<Topic, elements>>) = PartitionAssignmentOf(partitions)
  <2>1. Named(Ids, <<Topic, elements>>) = [topic_ |-> Topic, partitions_ |-> elements]
    BY IdsNamed
  <2> QED BY <1>2, <2>1
<1>9. Reads(Object(Ids), String(Topic) \o (Int32(n) \o FlattenSeq(wires)),
            Named(Ids, <<Topic, elements>>))
  BY <1>1, <1>3, <1>4, <1>5, <1>7, RecordsRead
<1>10. Reads(Object(Ids), PackagePartitionAssignment(PartitionAssignmentOf(partitions)),
             PartitionAssignmentOf(partitions))
  BY <1>6, <1>8, <1>9
<1> QED BY <1>10

(* The array of one assignment, which the classes have where topics are an *)
(* array.                                                                  *)
LEMMA TopicOfPartitionsReads ==
    ASSUME NEW partitions \in Seq(Int)
    PROVE  LET topics == <<PartitionAssignmentOf(partitions)>>
           IN  Reads(Elements(Object(Ids)), Array(topics, PackagePartitionAssignment), topics)
<1> DEFINE a == PartitionAssignmentOf(partitions)
           topics == <<a>>
<1>1. Reads(Object(Ids), PackagePartitionAssignment(a), a)
  BY PartitionsRead
<1> HIDE DEF a
<1>2. Len(topics) = 1 /\ [i \in DOMAIN topics |-> PackagePartitionAssignment(topics[i])]
                           = <<PackagePartitionAssignment(a)>>
  OBVIOUS
<1>3. Array(topics, PackagePartitionAssignment)
        = Int32(1) \o FlattenSeq(<<PackagePartitionAssignment(a)>>)
  BY <1>2 DEF Array
<1>4. Reads(Elements(Object(Ids)), Array(topics, PackagePartitionAssignment), topics)
  BY <1>1, <1>3, OneElementReads
<1> QED BY <1>4 DEF a

LEMMA AssignmentReads ==
    ASSUME NEW partitions \in Seq(Int)
    PROVE  LET m == MemberAssignment(partitions)
           IN  Reads(Object(Assignment), PackageMemberAssignment(m), m)
<1> DEFINE m == MemberAssignment(partitions)
           readers == ReadersOf(Assignment)
           topics == <<PartitionAssignmentOf(partitions)>>
           wire == Array(topics, PackagePartitionAssignment)
           none == Int32(0) \o Field(0, 0)
<1>1. DOMAIN Assignment = 1 .. 3 /\ readers[1] = Number(2)
      /\ readers[2] = Elements(Object(Ids)) /\ readers[3] = Characters(4)
  BY DEF Assignment, Read16, Many, Bytes, Item, ReadersOf
<1>2. Reads(Number(2), Int16(0), 0) /\ Reads(Elements(Object(Ids)), wire, topics)
      /\ Reads(Characters(4), none, 0)
  BY IntsRead, TopicOfPartitionsReads, NoBytesRead
<1>3. m = [version_ |-> 0, partition_assignment_ |-> topics, user_data_ |-> 0]
  BY DEF MemberAssignment
<1> HIDE DEF topics, m
<1>4. PackageMemberAssignment(m) = (Int16(0) \o wire) \o none
  <2>1. PackageMemberAssignment(m) = ((Int16(0) \o wire) \o Int32(0)) \o Field(0, 0)
    BY <1>3 DEF PackageMemberAssignment
  <2>2. Int16(0) \in Wires /\ wire \in Wires /\ Int32(0) \in Wires /\ Field(0, 0) \in Wires
    BY <1>2, BytesOfField DEF Reads, Int32
  <2> HIDE DEF wire
  <2>3. Int16(0) \o wire \in Wires
    BY <2>2, BytesOfBoth
  <2>4. ((Int16(0) \o wire) \o Int32(0)) \o Field(0, 0) = (Int16(0) \o wire) \o none
    <3> DEFINE w1 == Int16(0) \o wire
               w2 == Int32(0)
               w3 == Field(0, 0)
    <3>1. w1 \in Wires /\ w2 \in Wires /\ w3 \in Wires
      BY <2>2, <2>3
    <3> HIDE DEF w1, w2, w3
    <3>2. (w1 \o w2) \o w3 = w1 \o (w2 \o w3)
      BY <3>1, ConcatAssociative
    <3> QED BY <3>2 DEF w1, w2, w3
  <2> QED BY <2>1, <2>4
<1> HIDE DEF readers, wire, none
<1>5. ReadsFirst(readers, 3, (Int16(0) \o wire) \o none, <<0, topics, 0>>)
  BY <1>1, <1>2, FirstThree
<1>6. Named(Assignment, <<0, topics, 0>>) = m
  <2>1. Named(Assignment, <<0, topics, 0>>)
          = [version_ |-> 0, partition_assignment_ |-> topics, user_data_ |-> 0]
    BY AssignmentNamed
  <2> QED BY <2>1, <1>3
<1>7. Reads(Object(Assignment), PackageMemberAssignment(m), m)
  BY <1>1, <1>4, <1>5, <1>6, ObjectReads DEF readers
<1> QED BY <1>7 DEF m

LEMMA AssignedMemberReads ==
    ASSUME NEW member \in Nat, NEW partitions \in Seq(Int)
    PROVE  LET g == GroupAssignment(member, partitions)
           IN  Reads(Object(AssignedMember), PackageGroupAssignment(g), g)
<1> DEFINE g == GroupAssignment(member, partitions)
           m == MemberAssignment(partitions)
           size == MemberAssignmentSize(m)
           readers == ReadersOf(AssignedMember)
           wire == PackageMemberAssignment(m)
           sized == Int32(size) \o wire
<1>1. DOMAIN AssignedMember = 1 .. 2 /\ readers[1] = Characters(2)
      /\ readers[2] = Counting(Object(Assignment))
  BY DEF AssignedMember, Text, Sized, Item, ReadersOf
<1>2. Reads(Characters(2), String(member), member)
  BY StringReads
<1>3. Reads(Object(Assignment), wire, m) /\ Takes(wire, size)
  BY AssignmentReads, MemberTakes
<1>4. g = [member_id_ |-> member, member_assignment_ |-> m]
  BY DEF GroupAssignment
<1> HIDE DEF g, m
<1>5. PackageGroupAssignment(g) = String(member) \o sized
  <2>1. PackageGroupAssignment(g) = (String(member) \o Int32(size)) \o wire
    BY <1>4 DEF PackageGroupAssignment
  <2>2. size \in Int
    BY <1>3 DEF Takes
  <2> HIDE DEF size, wire
  <2>3. String(member) \in Wires /\ Int32(size) \in Wires /\ wire \in Wires
    BY <1>2, <1>3, <2>2, IntsTake DEF Reads, Takes
  <2>4. (String(member) \o Int32(size)) \o wire = String(member) \o (Int32(size) \o wire)
    BY <2>3, ConcatAssociative
  <2> QED BY <2>1, <2>4
<1> HIDE DEF readers, wire, size
<1>6. Reads(Counting(Object(Assignment)), sized, m)
  BY <1>3, CountingReads
<1> HIDE DEF sized
<1>7. ReadsFirst(readers, 2, String(member) \o sized, <<member, m>>)
  BY <1>1, <1>2, <1>6, FirstTwo
<1>8. Named(AssignedMember, <<member, m>>) = g
  <2>1. Named(AssignedMember, <<member, m>>)
          = [member_id_ |-> member, member_assignment_ |-> m]
    BY AssignedMemberNamed
  <2> QED BY <2>1, <1>4
<1>9. Reads(Object(AssignedMember), PackageGroupAssignment(g), g)
  BY <1>1, <1>5, <1>7, <1>8, ObjectReads DEF readers
<1> QED BY <1>9 DEF g

LEMMA SyncGroupReads ==
    ASSUME NEW generation \in Int, NEW member \in Nat, NEW member_partitions \in Seq(Assigned)
    PROVE  LET r == SyncGroupRequest(generation, member, member_partitions)
           IN  Reads(Object(SyncGroupV0), PackageSyncGroup(r), r)
<1> DEFINE r == SyncGroupRequest(generation, member, member_partitions)
           elements == r.group_assignment_
           n == Len(member_partitions)
           wires == [i \in DOMAIN elements |-> PackageGroupAssignment(elements[i])]
           readers == ReadersOf(SyncGroupV0)
           reader == Object(AssignedMember)
<1>1. n \in Nat /\ DOMAIN member_partitions = 1 .. n
      /\ \A i \in 1 .. n : member_partitions[i] \in Assigned
  BY LenProperties, ElementOfSeq
<1>2. \A i \in 1 .. n : member_partitions[i].member \in Nat
                        /\ member_partitions[i].partitions \in Seq(Int)
  BY <1>1 DEF Assigned
<1>3. /\ r = [group_id_ |-> Group, generation_id_ |-> generation, member_id_ |-> member,
              group_assignment_ |-> elements]
      /\ DOMAIN elements = 1 .. n /\ Len(elements) = n
      /\ elements = [i \in 1 .. n |-> GroupAssignment(member_partitions[i].member,
                                                      member_partitions[i].partitions)]
  BY <1>1 DEF SyncGroupRequest
<1> DEFINE S == {elements[i] : i \in 1 .. n}
<1>4. elements \in Seq(S)
  BY <1>1, <1>3
<1>5. \A i \in 1 .. n : Reads(reader, wires[i], elements[i])
  <2> SUFFICES ASSUME NEW i \in 1 .. n PROVE Reads(reader, wires[i], elements[i])
    OBVIOUS
  <2> DEFINE g == GroupAssignment(member_partitions[i].member, member_partitions[i].partitions)
  <2>1. Reads(reader, PackageGroupAssignment(g), g)
    BY <1>2, AssignedMemberReads
  <2>2. elements[i] = g /\ i \in DOMAIN elements
    BY <1>3
  <2> HIDE DEF g
  <2>3. wires[i] = PackageGroupAssignment(g)
    BY <2>2
  <2> QED BY <2>1, <2>2, <2>3
<1>6. wires \in Seq(Wires) /\ Len(wires) = n
  BY <1>1, <1>3, <1>5 DEF Reads
<1>7. Array(elements, PackageGroupAssignment) = Int32(n) \o FlattenSeq(wires)
  BY <1>3 DEF Array
<1>8. DOMAIN SyncGroupV0 = 1 .. 4 /\ readers[1] = Characters(2) /\ readers[2] = Number(4)
      /\ readers[3] = Characters(2) /\ readers[4] = Elements(reader)
  BY DEF SyncGroupV0, Text, Read32, Many, Item, ReadersOf
<1>9. PackageSyncGroup(r)
        = ((String(Group) \o Int32(generation)) \o String(member)) \o (Int32(n) \o FlattenSeq(wires))
  <2> HIDE DEF wires, elements, n, r
  <2> QED BY <1>3, <1>7 DEF PackageSyncGroup
<1> HIDE DEF wires, elements, n, readers, S, r
<1>10. Reads(Elements(reader), Int32(n) \o FlattenSeq(wires), elements)
  BY <1>1, <1>3, <1>4, <1>5, <1>6, ElementsRead
<1>11. Reads(Characters(2), String(Group), Group) /\ Reads(Number(4), Int32(generation), generation)
      /\ Reads(Characters(2), String(member), member)
  BY StringReads, IntsRead, NamesAssumption
<1> HIDE DEF reader
<1>12. ReadsFirst(readers, 4,
          ((String(Group) \o Int32(generation)) \o String(member)) \o (Int32(n) \o FlattenSeq(wires)),
          <<Group, generation, member, elements>>)
  BY <1>8, <1>10, <1>11, FirstFour
<1>13. Named(SyncGroupV0, <<Group, generation, member, elements>>) = r
  <2>1. Named(SyncGroupV0, <<Group, generation, member, elements>>)
          = [group_id_ |-> Group, generation_id_ |-> generation, member_id_ |-> member,
             group_assignment_ |-> elements]
    BY SyncGroupNamed
  <2> QED BY <2>1, <1>3
<1>14. Reads(Object(SyncGroupV0), PackageSyncGroup(r), r)
  BY <1>8, <1>9, <1>12, <1>13, ObjectReads DEF readers
<1> QED BY <1>14 DEF r

LEMMA OffsetFetchReads ==
    ASSUME NEW partitions \in Seq(Int)
    PROVE  LET r == OffsetFetchRequest(partitions)
           IN  Reads(Object(OffsetFetchV1), PackageOffsetFetch(r), r)
<1> DEFINE r == OffsetFetchRequest(partitions)
           readers == ReadersOf(OffsetFetchV1)
           topics == <<PartitionAssignmentOf(partitions)>>
           wire == Array(topics, PackagePartitionAssignment)
<1>1. DOMAIN OffsetFetchV1 = 1 .. 2 /\ readers[1] = Characters(2)
      /\ readers[2] = Elements(Object(Ids))
  BY DEF OffsetFetchV1, Text, Many, Item, ReadersOf
<1>2. Reads(Characters(2), String(Group), Group) /\ Reads(Elements(Object(Ids)), wire, topics)
  BY StringReads, NamesAssumption, TopicOfPartitionsReads
<1>3. r = [group_ |-> Group, topics |-> topics]
  BY DEF OffsetFetchRequest
<1> HIDE DEF topics, r
<1>4. PackageOffsetFetch(r) = String(Group) \o wire
  BY <1>3 DEF PackageOffsetFetch
<1> HIDE DEF readers, wire
<1>5. ReadsFirst(readers, 2, String(Group) \o wire, <<Group, topics>>)
  BY <1>1, <1>2, FirstTwo
<1>6. Named(OffsetFetchV1, <<Group, topics>>) = r
  <2>1. Named(OffsetFetchV1, <<Group, topics>>)
          = [group_ |-> Group, topics |-> topics]
    BY OffsetFetchNamed
  <2> QED BY <2>1, <1>3
<1>7. Reads(Object(OffsetFetchV1), PackageOffsetFetch(r), r)
  BY <1>1, <1>4, <1>5, <1>6, ObjectReads DEF readers
<1> QED BY <1>7 DEF r

(* A record of three numbers and of two with an empty text. *)
LEMMA TimeReads ==
    ASSUME NEW partition \in Int
    PROVE  LET p == PartitionTime(partition)
           IN  Reads(Object(TimedPartition), PackagePartitionTime(p), p)
<1> DEFINE p == PartitionTime(partition)
           readers == ReadersOf(TimedPartition)
           wire == (Int32(partition) \o Int64(-1)) \o Int32(1)
<1>1. DOMAIN TimedPartition = 1 .. 3 /\ readers[1] = Number(4) /\ readers[2] = Number(8)
      /\ readers[3] = Number(4)
  BY DEF TimedPartition, Read32, Read64, Item, ReadersOf
<1>2. Reads(Number(4), Int32(partition), partition) /\ Reads(Number(8), Int64(-1), -1)
      /\ Reads(Number(4), Int32(1), 1)
  BY IntsRead
<1>3. p = [partition_ |-> partition, time_ |-> -1, max_number_of_offsets_ |-> 1]
      /\ PackagePartitionTime(p) = wire
  BY DEF PartitionTime, PackagePartitionTime
<1> HIDE DEF readers
<1>4. ReadsFirst(readers, 3, wire, <<partition, -1, 1>>)
  BY <1>1, <1>2, FirstThree
<1> HIDE DEF wire, p
<1>5. Named(TimedPartition, <<partition, -1, 1>>) = p
  BY <1>3, TimedPartitionNamed
<1>6. Reads(Object(TimedPartition), PackagePartitionTime(p), p)
  BY <1>1, <1>3, <1>4, <1>5, ObjectReads DEF readers
<1> QED BY <1>6 DEF p

LEMMA CommitReads ==
    ASSUME NEW offset, offset.partition \in Int, offset.offset \in Int
    PROVE  LET p == PartitionOM(offset)
           IN  Reads(Object(CommittedPartition), PackagePartitionOM(p), p)
<1> DEFINE p == PartitionOM(offset)
           readers == ReadersOf(CommittedPartition)
           a == offset.partition
           b == offset.offset
           wire == (Int32(a) \o Int64(b)) \o String(0)
<1>1. DOMAIN CommittedPartition = 1 .. 3 /\ readers[1] = Number(4) /\ readers[2] = Number(8)
      /\ readers[3] = Characters(2)
  BY DEF CommittedPartition, Read32, Read64, Text, Item, ReadersOf
<1>2. p = [partition_ |-> a, offset_ |-> b, metadata_ |-> 0] /\ PackagePartitionOM(p) = wire
  BY DEF PartitionOM, PackagePartitionOM
<1>3. a \in Int /\ b \in Int
  OBVIOUS
<1> HIDE DEF readers, p, a, b
<1>4. Reads(Number(4), Int32(a), a) /\ Reads(Number(8), Int64(b), b)
      /\ Reads(Characters(2), String(0), 0)
  BY <1>3, IntsRead, StringReads
<1>5. ReadsFirst(readers, 3, wire, <<a, b, 0>>)
  BY <1>1, <1>4, FirstThree
<1> HIDE DEF wire
<1>6. Named(CommittedPartition, <<a, b, 0>>) = p
  BY <1>2, CommittedPartitionNamed
<1>7. Reads(Object(CommittedPartition), PackagePartitionOM(p), p)
  BY <1>1, <1>2, <1>5, <1>6, ObjectReads DEF readers
<1> QED BY <1>7 DEF p

LEMMA FetchPartitionReads ==
    ASSUME NEW offset, offset.partition \in Int, offset.offset \in Int
    PROVE  LET p == PartitionFM(offset)
           IN  Reads(Object(FetchedPartition), PackagePartitionFM(p), p)
<1> DEFINE p == PartitionFM(offset)
           readers == ReadersOf(FetchedPartition)
           a == offset.partition
           b == offset.offset
           c == p.max_bytes_
           wire == (Int32(a) \o Int64(b)) \o Int32(c)
<1>1. DOMAIN FetchedPartition = 1 .. 3 /\ readers[1] = Number(4) /\ readers[2] = Number(8)
      /\ readers[3] = Number(4)
  BY DEF FetchedPartition, Read32, Read64, Item, ReadersOf
<1>2. p = [partition_ |-> a, fetch_offset_ |-> b, max_bytes_ |-> c] /\ c \in Int
  BY SMT DEF PartitionFM
<1>3. a \in Int /\ b \in Int
  OBVIOUS
<1> HIDE DEF readers, p, a, b, c
<1>4. PackagePartitionFM(p) = wire
  BY <1>2 DEF PackagePartitionFM
<1>5. Reads(Number(4), Int32(a), a) /\ Reads(Number(8), Int64(b), b) /\ Reads(Number(4), Int32(c), c)
  BY <1>2, <1>3, IntsRead
<1>6. ReadsFirst(readers, 3, wire, <<a, b, c>>)
  BY <1>1, <1>5, FirstThree
<1> HIDE DEF wire
<1>7. Named(FetchedPartition, <<a, b, c>>) = p
  BY <1>2, FetchedPartitionNamed
<1>8. Reads(Object(FetchedPartition), PackagePartitionFM(p), p)
  BY <1>1, <1>4, <1>6, <1>7, ObjectReads DEF readers
<1> QED BY <1>8 DEF p

LEMMA TimesRead ==
    ASSUME NEW partitions \in Seq(Int)
    PROVE  LET t == TopicPartition(partitions)
           IN  Reads(Object(TimedTopic), PackageTopicPartition(t), t)
<1> DEFINE elements == TopicPartition(partitions).partition_time_array_
           wires == [i \in DOMAIN elements |-> PackagePartitionTime(elements[i])]
           n == Len(partitions)
           S == {elements[i] : i \in 1 .. n}
           reader == Object(TimedPartition)
<1>1. n \in Nat /\ DOMAIN partitions = 1 .. n /\ \A i \in 1 .. n : partitions[i] \in Int
  BY LenProperties, ElementOfSeq
<1>2. elements = [i \in 1 .. n |-> PartitionTime(partitions[i])]
      /\ TopicPartition(partitions) = [topic_ |-> Topic, partition_time_array_ |-> elements]
  BY <1>1 DEF TopicPartition
<1>3. Len(elements) = n /\ DOMAIN elements = 1 .. n /\ elements \in Seq(S)
  BY <1>1, <1>2
<1>4. ASSUME NEW i \in 1 .. n PROVE Reads(reader, wires[i], elements[i])
  <2> DEFINE o == partitions[i]
             p == PartitionTime(o)
  <2>1. o \in Int
    BY <1>1
  <2>2. elements[i] = p /\ wires[i] = PackagePartitionTime(p)
    BY <1>2
  <2> HIDE DEF o
  <2>3. Reads(reader, PackagePartitionTime(p), p)
    BY <2>1, TimeReads
  <2> QED BY <2>2, <2>3
<1>5. wires \in Seq(Wires) /\ Len(wires) = n
  BY <1>1, <1>3, <1>4 DEF Reads
<1>6. PackageTopicPartition(TopicPartition(partitions)) = String(Topic) \o (Int32(n) \o FlattenSeq(wires))
  BY <1>3 DEF Array, PackageTopicPartition, TopicPartition
<1>7. /\ DOMAIN TimedTopic = 1 .. 2 /\ ReadersOf(TimedTopic)[1] = Characters(2)
      /\ ReadersOf(TimedTopic)[2] = Elements(reader)
  BY DEF TimedTopic, Text, Many, Item, ReadersOf
<1> HIDE DEF elements, wires, n, S, reader
<1>8. Named(TimedTopic, <<Topic, elements>>) = TopicPartition(partitions)
  BY <1>2, TimedTopicNamed
<1>9. Reads(Object(TimedTopic), String(Topic) \o (Int32(n) \o FlattenSeq(wires)),
            Named(TimedTopic, <<Topic, elements>>))
  BY <1>1, <1>3, <1>4, <1>5, <1>7, RecordsRead
<1>10. Reads(Object(TimedTopic), PackageTopicPartition(TopicPartition(partitions)), TopicPartition(partitions))
  BY <1>6, <1>8, <1>9
<1> QED BY <1>10

LEMMA TopicOfTimesReads ==
    ASSUME NEW partitions \in Seq(Int)
    PROVE  LET topics == <<TopicPartition(partitions)>>
           IN  Reads(Elements(Object(TimedTopic)), Array(topics, PackageTopicPartition), topics)
<1> DEFINE t == TopicPartition(partitions)
           topics == <<t>>
<1>1. Reads(Object(TimedTopic), PackageTopicPartition(t), t)
  BY TimesRead
<1> HIDE DEF t
<1>2. Len(topics) = 1 /\ [i \in DOMAIN topics |-> PackageTopicPartition(topics[i])] = <<PackageTopicPartition(t)>>
  OBVIOUS
<1>3. Array(topics, PackageTopicPartition) = Int32(1) \o FlattenSeq(<<PackageTopicPartition(t)>>)
  BY <1>2 DEF Array
<1>4. Reads(Elements(Object(TimedTopic)), Array(topics, PackageTopicPartition), topics)
  BY <1>1, <1>3, OneElementReads
<1> QED BY <1>4 DEF t

LEMMA CommitsRead ==
    ASSUME NEW offsets \in Seq(Offsets)
    PROVE  LET t == TopicPartitionOM(offsets)
           IN  Reads(Object(CommittedTopic), PackageTopicPartitionOM(t), t)
<1> DEFINE elements == TopicPartitionOM(offsets).partitions_
           wires == [i \in DOMAIN elements |-> PackagePartitionOM(elements[i])]
           n == Len(offsets)
           S == {elements[i] : i \in 1 .. n}
           reader == Object(CommittedPartition)
<1>1. n \in Nat /\ DOMAIN offsets = 1 .. n
      /\ \A i \in 1 .. n : offsets[i].partition \in Int /\ offsets[i].offset \in Int
  BY OffsetsAre
<1>2. elements = [i \in 1 .. n |-> PartitionOM(offsets[i])]
      /\ TopicPartitionOM(offsets) = [topic_ |-> Topic, partitions_ |-> elements]
  BY <1>1 DEF TopicPartitionOM
<1>3. Len(elements) = n /\ DOMAIN elements = 1 .. n /\ elements \in Seq(S)
  BY <1>1, <1>2
<1>4. ASSUME NEW i \in 1 .. n PROVE Reads(reader, wires[i], elements[i])
  <2> DEFINE o == offsets[i]
             p == PartitionOM(o)
  <2>1. o.partition \in Int /\ o.offset \in Int
    BY <1>1
  <2>2. elements[i] = p /\ wires[i] = PackagePartitionOM(p)
    BY <1>2
  <2> HIDE DEF o
  <2>3. Reads(reader, PackagePartitionOM(p), p)
    BY <2>1, CommitReads
  <2> QED BY <2>2, <2>3
<1>5. wires \in Seq(Wires) /\ Len(wires) = n
  BY <1>1, <1>3, <1>4 DEF Reads
<1>6. PackageTopicPartitionOM(TopicPartitionOM(offsets)) = String(Topic) \o (Int32(n) \o FlattenSeq(wires))
  BY <1>3 DEF Array, PackageTopicPartitionOM, TopicPartitionOM
<1>7. /\ DOMAIN CommittedTopic = 1 .. 2 /\ ReadersOf(CommittedTopic)[1] = Characters(2)
      /\ ReadersOf(CommittedTopic)[2] = Elements(reader)
  BY DEF CommittedTopic, Text, Many, Item, ReadersOf
<1> HIDE DEF elements, wires, n, S, reader
<1>8. Named(CommittedTopic, <<Topic, elements>>) = TopicPartitionOM(offsets)
  BY <1>2, CommittedTopicNamed
<1>9. Reads(Object(CommittedTopic), String(Topic) \o (Int32(n) \o FlattenSeq(wires)),
            Named(CommittedTopic, <<Topic, elements>>))
  BY <1>1, <1>3, <1>4, <1>5, <1>7, RecordsRead
<1>10. Reads(Object(CommittedTopic), PackageTopicPartitionOM(TopicPartitionOM(offsets)), TopicPartitionOM(offsets))
  BY <1>6, <1>8, <1>9
<1> QED BY <1>10

LEMMA TopicOfCommitsReads ==
    ASSUME NEW offsets \in Seq(Offsets)
    PROVE  LET topics == <<TopicPartitionOM(offsets)>>
           IN  Reads(Elements(Object(CommittedTopic)), Array(topics, PackageTopicPartitionOM), topics)
<1> DEFINE t == TopicPartitionOM(offsets)
           topics == <<t>>
<1>1. Reads(Object(CommittedTopic), PackageTopicPartitionOM(t), t)
  BY CommitsRead
<1> HIDE DEF t
<1>2. Len(topics) = 1 /\ [i \in DOMAIN topics |-> PackageTopicPartitionOM(topics[i])] = <<PackageTopicPartitionOM(t)>>
  OBVIOUS
<1>3. Array(topics, PackageTopicPartitionOM) = Int32(1) \o FlattenSeq(<<PackageTopicPartitionOM(t)>>)
  BY <1>2 DEF Array
<1>4. Reads(Elements(Object(CommittedTopic)), Array(topics, PackageTopicPartitionOM), topics)
  BY <1>1, <1>3, OneElementReads
<1> QED BY <1>4 DEF t

LEMMA FetchesRead ==
    ASSUME NEW offsets \in Seq(Offsets)
    PROVE  LET t == TopicPartitionFM(offsets)
           IN  Reads(Object(FetchedTopic), PackageTopicPartitionFM(t), t)
<1> DEFINE elements == TopicPartitionFM(offsets).partitions_
           wires == [i \in DOMAIN elements |-> PackagePartitionFM(elements[i])]
           n == Len(offsets)
           S == {elements[i] : i \in 1 .. n}
           reader == Object(FetchedPartition)
<1>1. n \in Nat /\ DOMAIN offsets = 1 .. n
      /\ \A i \in 1 .. n : offsets[i].partition \in Int /\ offsets[i].offset \in Int
  BY OffsetsAre
<1>2. elements = [i \in 1 .. n |-> PartitionFM(offsets[i])]
      /\ TopicPartitionFM(offsets) = [topic_ |-> Topic, partitions_ |-> elements]
  BY <1>1 DEF TopicPartitionFM
<1>3. Len(elements) = n /\ DOMAIN elements = 1 .. n /\ elements \in Seq(S)
  BY <1>1, <1>2
<1>4. ASSUME NEW i \in 1 .. n PROVE Reads(reader, wires[i], elements[i])
  <2> DEFINE o == offsets[i]
             p == PartitionFM(o)
  <2>1. o.partition \in Int /\ o.offset \in Int
    BY <1>1
  <2>2. elements[i] = p /\ wires[i] = PackagePartitionFM(p)
    BY <1>2
  <2> HIDE DEF o
  <2>3. Reads(reader, PackagePartitionFM(p), p)
    BY <2>1, FetchPartitionReads
  <2> QED BY <2>2, <2>3
<1>5. wires \in Seq(Wires) /\ Len(wires) = n
  BY <1>1, <1>3, <1>4 DEF Reads
<1>6. PackageTopicPartitionFM(TopicPartitionFM(offsets)) = String(Topic) \o (Int32(n) \o FlattenSeq(wires))
  BY <1>3 DEF Array, PackageTopicPartitionFM, TopicPartitionFM
<1>7. /\ DOMAIN FetchedTopic = 1 .. 2 /\ ReadersOf(FetchedTopic)[1] = Characters(2)
      /\ ReadersOf(FetchedTopic)[2] = Elements(reader)
  BY DEF FetchedTopic, Text, Many, Item, ReadersOf
<1> HIDE DEF elements, wires, n, S, reader
<1>8. Named(FetchedTopic, <<Topic, elements>>) = TopicPartitionFM(offsets)
  BY <1>2, FetchedTopicNamed
<1>9. Reads(Object(FetchedTopic), String(Topic) \o (Int32(n) \o FlattenSeq(wires)),
            Named(FetchedTopic, <<Topic, elements>>))
  BY <1>1, <1>3, <1>4, <1>5, <1>7, RecordsRead
<1>10. Reads(Object(FetchedTopic), PackageTopicPartitionFM(TopicPartitionFM(offsets)), TopicPartitionFM(offsets))
  BY <1>6, <1>8, <1>9
<1> QED BY <1>10

LEMMA TopicOfFetchesReads ==
    ASSUME NEW offsets \in Seq(Offsets)
    PROVE  LET topics == <<TopicPartitionFM(offsets)>>
           IN  Reads(Elements(Object(FetchedTopic)), Array(topics, PackageTopicPartitionFM), topics)
<1> DEFINE t == TopicPartitionFM(offsets)
           topics == <<t>>
<1>1. Reads(Object(FetchedTopic), PackageTopicPartitionFM(t), t)
  BY FetchesRead
<1> HIDE DEF t
<1>2. Len(topics) = 1 /\ [i \in DOMAIN topics |-> PackageTopicPartitionFM(topics[i])] = <<PackageTopicPartitionFM(t)>>
  OBVIOUS
<1>3. Array(topics, PackageTopicPartitionFM) = Int32(1) \o FlattenSeq(<<PackageTopicPartitionFM(t)>>)
  BY <1>2 DEF Array
<1>4. Reads(Elements(Object(FetchedTopic)), Array(topics, PackageTopicPartitionFM), topics)
  BY <1>1, <1>3, OneElementReads
<1> QED BY <1>4 DEF t

LEMMA OffsetReads ==
    ASSUME NEW partitions \in Seq(Int)
    PROVE  LET r == OffsetRequest(partitions)
           IN  Reads(Object(OffsetV0), PackageOffset(r), r)
<1> DEFINE r == OffsetRequest(partitions)
           readers == ReadersOf(OffsetV0)
           topics == <<TopicPartition(partitions)>>
           wire == Array(topics, PackageTopicPartition)
<1>1. DOMAIN OffsetV0 = 1 .. 2 /\ readers[1] = Number(4)
      /\ readers[2] = Elements(Object(TimedTopic))
  BY DEF OffsetV0, Read32, Many, Item, ReadersOf
<1>2. Reads(Number(4), Int32(-1), -1) /\ Reads(Elements(Object(TimedTopic)), wire, topics)
  BY IntsRead, TopicOfTimesReads
<1>3. r = [replica_id_ |-> -1, topic_partition_array_ |-> topics]
  BY DEF OffsetRequest
<1> HIDE DEF topics, r
<1>4. PackageOffset(r) = Int32(-1) \o wire
  BY <1>3 DEF PackageOffset
<1> HIDE DEF readers, wire
<1>5. ReadsFirst(readers, 2, Int32(-1) \o wire, <<-1, topics>>)
  BY <1>1, <1>2, FirstTwo
<1>6. Named(OffsetV0, <<-1, topics>>) = r
  BY <1>3, OffsetNamed
<1>7. Reads(Object(OffsetV0), PackageOffset(r), r)
  BY <1>1, <1>4, <1>5, <1>6, ObjectReads DEF readers
<1> QED BY <1>7 DEF r

LEMMA OffsetCommitReads ==
    ASSUME NEW generation \in Int, NEW member \in Nat, NEW offsets \in Seq(Offsets)
    PROVE  LET r == OffsetCommitRequest(generation, member, offsets)
           IN  Reads(Object(OffsetCommitV2), PackageOffsetCommit(r), r)
<1> DEFINE r == OffsetCommitRequest(generation, member, offsets)
           readers == ReadersOf(OffsetCommitV2)
           topics == <<TopicPartitionOM(offsets)>>
           array == Array(topics, PackageTopicPartitionOM)
           wire == (((String(Group) \o Int32(generation)) \o String(member)) \o Int64(-1)) \o array
<1>1. DOMAIN OffsetCommitV2 = 1 .. 5 /\ readers[1] = Characters(2) /\ readers[2] = Number(4)
      /\ readers[3] = Characters(2) /\ readers[4] = Number(8)
      /\ readers[5] = Elements(Object(CommittedTopic))
  BY DEF OffsetCommitV2, Text, Read32, Read64, Many, Item, ReadersOf
<1>2. Reads(Characters(2), String(Group), Group) /\ Reads(Number(4), Int32(generation), generation)
      /\ Reads(Characters(2), String(member), member) /\ Reads(Number(8), Int64(-1), -1)
      /\ Reads(Elements(Object(CommittedTopic)), array, topics)
  BY StringReads, IntsRead, NamesAssumption, TopicOfCommitsReads
<1>3. r = [group_ |-> Group, group_generation_id_ |-> generation, consumer_id_ |-> member,
           retention_time_ |-> -1, topic_partitions_ |-> topics]
  BY DEF OffsetCommitRequest
<1> HIDE DEF topics, r
<1>4. PackageOffsetCommit(r) = wire
  BY <1>3 DEF PackageOffsetCommit
<1> HIDE DEF readers, array
<1>5. ReadsFirst(readers, 5, wire, <<Group, generation, member, -1, topics>>)
  BY <1>1, <1>2, FirstFive
<1> HIDE DEF wire
<1>6. Named(OffsetCommitV2, <<Group, generation, member, -1, topics>>) = r
  BY <1>3, OffsetCommitNamed
<1>7. Reads(Object(OffsetCommitV2), PackageOffsetCommit(r), r)
  BY <1>1, <1>4, <1>5, <1>6, ObjectReads DEF readers
<1> QED BY <1>7 DEF r

LEMMA FetchReads ==
    ASSUME NEW offsets \in Seq(Offsets)
    PROVE  LET r == FetchRequest(offsets)
           IN  Reads(Object(FetchV1), PackageFetch(r), r)
<1> DEFINE r == FetchRequest(offsets)
           readers == ReadersOf(FetchV1)
           topics == <<TopicPartitionFM(offsets)>>
           array == Array(topics, PackageTopicPartitionFM)
           a == r.replica_id_
           b == r.max_wait_time_
           c == r.min_bytes_
           wire == ((Int32(a) \o Int32(b)) \o Int32(c)) \o array
<1>1. DOMAIN FetchV1 = 1 .. 4 /\ readers[1] = Number(4) /\ readers[2] = Number(4)
      /\ readers[3] = Number(4) /\ readers[4] = Elements(Object(FetchedTopic))
  BY DEF FetchV1, Read32, Many, Item, ReadersOf
<1>2. r = [replica_id_ |-> a, max_wait_time_ |-> b, min_bytes_ |-> c, topic_partitions_ |-> topics]
      /\ a \in Int /\ b \in Int /\ c \in Int
  BY SMT DEF FetchRequest
<1>3. Reads(Elements(Object(FetchedTopic)), array, topics)
  BY TopicOfFetchesReads
<1> HIDE DEF topics, r, a, b, c
<1>4. PackageFetch(r) = wire
  BY <1>2 DEF PackageFetch
<1> HIDE DEF readers, array
<1>5. Reads(Number(4), Int32(a), a) /\ Reads(Number(4), Int32(b), b) /\ Reads(Number(4), Int32(c), c)
  BY <1>2, IntsRead
<1>6. ReadsFirst(readers, 4, wire, <<a, b, c, topics>>)
  BY <1>1, <1>3, <1>5, FirstFour
<1> HIDE DEF wire
<1>7. Named(FetchV1, <<a, b, c, topics>>) = r
  BY <1>2, FetchNamed
<1>8. Reads(Object(FetchV1), PackageFetch(r), r)
  BY <1>1, <1>4, <1>6, <1>7, ObjectReads DEF readers
<1> QED BY <1>8 DEF r

-----------------------------------------------------------------------------
(* The head, in front of any body. *)
LEMMA HeadReads ==
    ASSUME NEW type \in DOMAIN ApiKey, NEW size \in Int
    PROVE  Reads(Object(RequestHead), PackageHead(type, size),
                 [size |-> size, key |-> ApiKey[type], version |-> ApiVersion[type],
                  correlation |-> ApiKey[type], client |-> 10])
<1> DEFINE readers == ReadersOf(RequestHead)
           key == ApiKey[type]
           version == ApiVersion[type]
           head == [size |-> size, key |-> key, version |-> version, correlation |-> key,
                    client |-> 10]
           wire == (((Int32(size) \o Int16(key)) \o Int16(version)) \o Int32(key)) \o String(10)
<1>1. key \in Int /\ version \in Int
  BY DEF ApiKey, ApiVersion
<1>2. PackageHead(type, size) = wire
  BY DEF PackageHead, client_id_
<1>3. DOMAIN RequestHead = 1 .. 5 /\ readers[1] = Number(4) /\ readers[2] = Number(2)
      /\ readers[3] = Number(2) /\ readers[4] = Number(4) /\ readers[5] = Characters(2)
  BY DEF RequestHead, Read32, Read16, Text, Item, ReadersOf
<1> HIDE DEF readers, key, version
<1>4. Reads(Number(4), Int32(size), size) /\ Reads(Number(2), Int16(key), key)
      /\ Reads(Number(2), Int16(version), version) /\ Reads(Number(4), Int32(key), key)
  BY <1>1, IntsRead
<1>5. Reads(Characters(2), String(10), 10)
  BY StringReads
<1>6. ReadsFirst(readers, 5, wire, <<size, key, version, key, 10>>)
  BY <1>3, <1>4, <1>5, FirstFive
<1> HIDE DEF wire
<1>7. Named(RequestHead, <<size, key, version, key, 10>>) = head
  BY HeadNamed
<1>8. Reads(Object(RequestHead), PackageHead(type, size), head)
  BY <1>2, <1>3, <1>6, <1>7, ObjectReads DEF readers
<1> QED BY <1>8 DEF key, version

(* A broker reads what the class has packaged, when it expects the format  *)
(* of the class.                                                           *)
LEMMA BodyReads ==
    ASSUME NEW request, CountsBody(request), NEW format,
           RequestFormat(ApiKey[request.type], ApiVersion[request.type]) = format,
           Reads(Object(format), PackageBody(request), request.body)
    PROVE  BrokerReads(request)
<1> DEFINE size == CountSize(request)
           type == request.type
           body == PackageBody(request)
           front == PackageHead(type, size)
           wire == Package(request)
           value == [size |-> size, key |-> ApiKey[type], version |-> ApiVersion[type],
                     correlation |-> ApiKey[type], client |-> 10]
           head == Object(RequestHead)[wire]
           read == Object(RequestFormat(head.value.key, head.value.version))[head.rest]
<1>0. type \in DOMAIN ApiKey /\ size \in Nat /\ ByteCount(wire) = size + 4
  BY SizesAre DEF CountsBody
<1>1. Reads(Object(RequestHead), front, value) /\ body \in Wires
  <2> HIDE DEF size, type
  <2> QED BY <1>0, HeadReads DEF Reads
<1>2. wire = front \o body
  BY DEF Package
<1>3. head = Got(value, body)
  <2> HIDE DEF front, value, wire, body
  <2>1. Object(RequestHead)[front \o body] = Got(value, body)
    BY <1>1 DEF Reads
  <2> QED BY <1>2, <2>1
<1>4. head.how = "read" /\ head.rest = body /\ head.value.size = size
      /\ head.value.key = ApiKey[type] /\ head.value.version = ApiVersion[type]
  BY <1>3 DEF Got
<1> HIDE DEF body, wire
<1>5. read = Object(format)[body]
  BY <1>4
<1>6. Object(format)[body] = Got(request.body, <<>>)
  <2>1. Object(format)[body \o <<>>] = Got(request.body, <<>>)
    BY BytesOfNone DEF Reads, body
  <2>2. body \o <<>> = body
    BY <1>1, ConcatEmptySeq
  <2> QED BY <2>1, <2>2
<1>7. read.how = "read" /\ read.rest = <<>> /\ read.value = request.body
  BY <1>5, <1>6 DEF Got
<1>8. size = ByteCount(wire) - 4
  BY <1>0
<1> QED BY <1>4, <1>7, <1>8 DEF BrokerReads, wire

LEMMA RequestFormats ==
    ASSUME NEW key, NEW version
    PROVE  /\ key = 1  /\ version = 1 => RequestFormat(key, version) = FetchV1
           /\ key = 2  /\ version = 0 => RequestFormat(key, version) = OffsetV0
           /\ key = 3  /\ version = 0 => RequestFormat(key, version) = MetadataV0
           /\ key = 8  /\ version = 2 => RequestFormat(key, version) = OffsetCommitV2
           /\ key = 9  /\ version = 1 => RequestFormat(key, version) = OffsetFetchV1
           /\ key = 10 /\ version = 0 => RequestFormat(key, version) = GroupCoordinatorV0
           /\ key = 11 /\ version = 0 => RequestFormat(key, version) = JoinGroupV0
           /\ key = 12 /\ version = 0 => RequestFormat(key, version) = HeartbeatV0
           /\ key = 14 /\ version = 0 => RequestFormat(key, version) = SyncGroupV0
<1>1. /\ key = 2 => key # 1
      /\ key = 3 => key # 1 /\ key # 2
      /\ key = 8 => key # 1 /\ key # 2 /\ key # 3
      /\ key = 9 => key # 1 /\ key # 2 /\ key # 3 /\ key # 8
      /\ key = 10 => key # 1 /\ key # 2 /\ key # 3 /\ key # 8 /\ key # 9
      /\ key = 11 => key # 1 /\ key # 2 /\ key # 3 /\ key # 8 /\ key # 9 /\ key # 10
      /\ key = 12 => key # 1 /\ key # 2 /\ key # 3 /\ key # 8 /\ key # 9 /\ key # 10 /\ key # 11
      /\ key = 14 => key # 1 /\ key # 2 /\ key # 3 /\ key # 8 /\ key # 9 /\ key # 10 /\ key # 11
                      /\ key # 12
  BY SMT
<1> QED BY <1>1, Zenon DEF RequestFormat

(* The format of each class, under the key and the version it announces. *)
FormatOf(type) == RequestFormat(ApiKey[type], ApiVersion[type])

LEMMA FormatsOfClasses ==
    /\ FormatOf("Metadata") = MetadataV0 /\ FormatOf("GroupCoordinator") = GroupCoordinatorV0
    /\ FormatOf("JoinGroup") = JoinGroupV0 /\ FormatOf("SyncGroup") = SyncGroupV0
    /\ FormatOf("Heartbeat") = HeartbeatV0 /\ FormatOf("OffsetFetch") = OffsetFetchV1
    /\ FormatOf("Offset") = OffsetV0 /\ FormatOf("OffsetCommit") = OffsetCommitV2
    /\ FormatOf("Fetch") = FetchV1
<1>1. /\ ApiKey["Metadata"] = 3 /\ ApiKey["GroupCoordinator"] = 10 /\ ApiKey["JoinGroup"] = 11
      /\ ApiKey["SyncGroup"] = 14 /\ ApiKey["Heartbeat"] = 12 /\ ApiKey["OffsetFetch"] = 9
      /\ ApiKey["Offset"] = 2 /\ ApiKey["OffsetCommit"] = 8 /\ ApiKey["Fetch"] = 1
  BY DEF ApiKey
<1>2. /\ ApiVersion["Metadata"] = 0 /\ ApiVersion["GroupCoordinator"] = 0
      /\ ApiVersion["JoinGroup"] = 0 /\ ApiVersion["SyncGroup"] = 0
      /\ ApiVersion["Heartbeat"] = 0 /\ ApiVersion["OffsetFetch"] = 1
      /\ ApiVersion["Offset"] = 0 /\ ApiVersion["OffsetCommit"] = 2 /\ ApiVersion["Fetch"] = 1
  BY DEF ApiVersion, ApiKey
<1> QED BY <1>1, <1>2, RequestFormats DEF FormatOf

LEMMA BodiesRead ==
    ASSUME NEW member \in Nat, NEW generation \in Int, NEW partitions \in Seq(Int),
           NEW offsets \in Seq(Offsets), NEW member_partitions \in Seq(Assigned),
           NEW request \in Built(member, generation, partitions, offsets, member_partitions)
    PROVE  Reads(Object(FormatOf(request.type)), PackageBody(request), request.body)
<1> DEFINE Goal == Reads(Object(FormatOf(request.type)), PackageBody(request), request.body)
<1>1. CASE request = [type |-> "Metadata", body |-> MetadataRequest]
  BY <1>1, Packages, FormatsOfClasses, MetadataReads
<1>2. CASE request = [type |-> "GroupCoordinator", body |-> GroupCoordinatorRequest]
  BY <1>2, Packages, FormatsOfClasses, GroupCoordinatorReads
<1>3. CASE request = [type |-> "JoinGroup", body |-> JoinGroupRequest(member)]
  BY <1>3, Packages, FormatsOfClasses, JoinGroupReads
<1>4. CASE request = [type |-> "SyncGroup",
                      body |-> SyncGroupRequest(generation, member, member_partitions)]
  BY <1>4, Packages, FormatsOfClasses, SyncGroupReads
<1>5. CASE request = [type |-> "Heartbeat", body |-> HeartbeatRequest(generation, member)]
  BY <1>5, Packages, FormatsOfClasses, HeartbeatReads
<1>6. CASE request = [type |-> "OffsetFetch", body |-> OffsetFetchRequest(partitions)]
  BY <1>6, Packages, FormatsOfClasses, OffsetFetchReads
<1>7. CASE request = [type |-> "Offset", body |-> OffsetRequest(partitions)]
  BY <1>7, Packages, FormatsOfClasses, OffsetReads
<1>8. CASE request = [type |-> "OffsetCommit",
                      body |-> OffsetCommitRequest(generation, member, offsets)]
  BY <1>8, Packages, FormatsOfClasses, OffsetCommitReads
<1>9. CASE request = [type |-> "Fetch", body |-> FetchRequest(offsets)]
  BY <1>9, Packages, FormatsOfClasses, FetchReads
<1> QED BY <1>1, <1>2, <1>3, <1>4, <1>5, <1>6, <1>7, <1>8, <1>9 DEF Built

(* A broker that is sent any request of any class reads the object the     *)
(* client has packaged, all of it, in a message of the size that was       *)
(* announced.                                                              *)
THEOREM BrokersReadWhatWasMeant ==
    ASSUME NEW member \in Nat, NEW generation \in Int, NEW partitions \in Seq(Int),
           NEW offsets \in Seq(Offsets), NEW member_partitions \in Seq(Assigned),
           NEW request \in Built(member, generation, partitions, offsets, member_partitions)
    PROVE  BrokerReads(request)
BY BodiesCounted, BodiesRead, BodyReads DEF FormatOf

-----------------------------------------------------------------------------
(* The requests of the exchange are among those. *)
LEMMA SentAre ==
    ASSUME NEW request \in WireRequests
    PROVE  \/ request \in {Of("Metadata", MetadataRequest),
                          Of("GroupCoordinator", GroupCoordinatorRequest)}
           \/ \E member \in {0} \cup MemberIds : request = Of("JoinGroup", JoinGroupRequest(member))
           \/ \E generation \in Generations, member \in MemberIds, assignment \in Assignments :
                request = Of("SyncGroup", SyncGroupRequest(generation, member, assignment))
           \/ \E generation \in Generations, member \in MemberIds :
                request = Of("Heartbeat", HeartbeatRequest(generation, member))
           \/ \E partitions \in PartitionLists :
                request = Of("OffsetFetch", OffsetFetchRequest(partitions))
           \/ \E partitions \in PartitionLists \ {<<>>} :
                request = Of("Offset", OffsetRequest(partitions))
           \/ \E generation \in Generations, member \in MemberIds, offsets \in OffsetLists \ {<<>>} :
                request = Of("OffsetCommit", OffsetCommitRequest(generation, member, offsets))
           \/ \E offsets \in OffsetLists : request = Of("Fetch", FetchRequest(offsets))
<1> DEFINE JoinsSent == {Of("JoinGroup", JoinGroupRequest(member)) : member \in {0} \cup MemberIds}
           SyncsSent == {Of("SyncGroup", SyncGroupRequest(generation, member, assignment)) :
                        generation \in Generations, member \in MemberIds, assignment \in Assignments}
           BeatsSent == {Of("Heartbeat", HeartbeatRequest(generation, member)) :
                        generation \in Generations, member \in MemberIds}
           OffsetFetchesSent == {Of("OffsetFetch", OffsetFetchRequest(partitions)) :
                                partitions \in PartitionLists}
           OffsetsSent == {Of("Offset", OffsetRequest(partitions)) :
                            partitions \in PartitionLists \ {<<>>}}
           CommitsSent == {Of("OffsetCommit", OffsetCommitRequest(generation, member, offsets)) :
                        generation \in Generations, member \in MemberIds,
                        offsets \in OffsetLists \ {<<>>}}
           FetchesSent == {Of("Fetch", FetchRequest(offsets)) : offsets \in OffsetLists}
<1>1. request \in {Of("Metadata", MetadataRequest), Of("GroupCoordinator", GroupCoordinatorRequest)}
        \cup JoinsSent \cup SyncsSent \cup BeatsSent \cup OffsetFetchesSent \cup OffsetsSent \cup CommitsSent \cup FetchesSent
  BY DEF WireRequests
<1>2. request \in JoinsSent =>
        \E member \in {0} \cup MemberIds : request = Of("JoinGroup", JoinGroupRequest(member))
  OBVIOUS
<1>3. request \in SyncsSent =>
        \E generation \in Generations, member \in MemberIds, assignment \in Assignments :
            request = Of("SyncGroup", SyncGroupRequest(generation, member, assignment))
  OBVIOUS
<1>4. request \in BeatsSent =>
        \E generation \in Generations, member \in MemberIds :
            request = Of("Heartbeat", HeartbeatRequest(generation, member))
  OBVIOUS
<1>5. request \in OffsetFetchesSent =>
        \E partitions \in PartitionLists : request = Of("OffsetFetch", OffsetFetchRequest(partitions))
  OBVIOUS
<1>6. request \in OffsetsSent =>
        \E partitions \in PartitionLists \ {<<>>} : request = Of("Offset", OffsetRequest(partitions))
  OBVIOUS
<1>7. request \in CommitsSent =>
        \E generation \in Generations, member \in MemberIds, offsets \in OffsetLists \ {<<>>} :
            request = Of("OffsetCommit", OffsetCommitRequest(generation, member, offsets))
  OBVIOUS
<1>8. request \in FetchesSent =>
        \E offsets \in OffsetLists : request = Of("Fetch", FetchRequest(offsets))
  OBVIOUS
<1> HIDE DEF JoinsSent, SyncsSent, BeatsSent, OffsetFetchesSent, OffsetsSent, CommitsSent, FetchesSent
<1>9. request \in {Of("Metadata", MetadataRequest), Of("GroupCoordinator", GroupCoordinatorRequest)}
      \/ request \in JoinsSent \/ request \in SyncsSent \/ request \in BeatsSent \/ request \in OffsetFetchesSent
      \/ request \in OffsetsSent \/ request \in CommitsSent \/ request \in FetchesSent
  BY <1>1
<1> QED BY <1>2, <1>3, <1>4, <1>5, <1>6, <1>7, <1>8, <1>9, Zenon

LEMMA SentAreBuilt ==
    ASSUME NEW request \in WireRequests
    PROVE  \E member \in Nat, generation \in Int, partitions \in Seq(Int),
              offsets \in Seq(Offsets), member_partitions \in Seq(Assigned) :
                request \in Built(member, generation, partitions, offsets, member_partitions)
<1> DEFINE Some == \E member \in Nat, generation \in Int, partitions \in Seq(Int),
                      offsets \in Seq(Offsets), member_partitions \in Seq(Assigned) :
                        request \in Built(member, generation, partitions, offsets, member_partitions)
<1> SUFFICES Some
  OBVIOUS
<1>1. 0 \in Nat /\ 0 \in Int /\ <<>> \in Seq(Int) /\ <<>> \in Seq(Offsets) /\ <<>> \in Seq(Assigned)
  OBVIOUS
<1>2. CASE request \in {Of("Metadata", MetadataRequest), Of("GroupCoordinator", GroupCoordinatorRequest)}
  <2>1. request \in Built(0, 0, <<>>, <<>>, <<>>)
    BY <1>2 DEF Built, Of
  <2> QED BY <1>1, <2>1
<1>3. ASSUME NEW member \in {0} \cup MemberIds, request = Of("JoinGroup", JoinGroupRequest(member))
      PROVE  Some
  <2>1. request \in Built(member, 0, <<>>, <<>>, <<>>) /\ member \in Nat
    BY <1>3, ListsAssumption DEF Built, Of
  <2> QED BY <1>1, <2>1
<1>4. ASSUME NEW generation \in Generations, NEW member \in MemberIds, NEW assignment \in Assignments,
             request = Of("SyncGroup", SyncGroupRequest(generation, member, assignment))
      PROVE  Some
  <2>1. request \in Built(member, generation, <<>>, <<>>, assignment) /\ member \in Nat
        /\ generation \in Int /\ assignment \in Seq(Assigned)
    BY <1>4, ListsAssumption DEF Built, Of
  <2> QED BY <1>1, <2>1
<1>5. ASSUME NEW generation \in Generations, NEW member \in MemberIds,
             request = Of("Heartbeat", HeartbeatRequest(generation, member))
      PROVE  Some
  <2>1. request \in Built(member, generation, <<>>, <<>>, <<>>) /\ member \in Nat
        /\ generation \in Int
    BY <1>5, ListsAssumption DEF Built, Of
  <2> QED BY <1>1, <2>1
<1>6. ASSUME NEW partitions \in PartitionLists,
             request = Of("OffsetFetch", OffsetFetchRequest(partitions))
             \/ request = Of("Offset", OffsetRequest(partitions))
      PROVE  Some
  <2>1. request \in Built(0, 0, partitions, <<>>, <<>>) /\ partitions \in Seq(Int)
    BY <1>6, ProtocolAssumption DEF Built, Of
  <2> QED BY <1>1, <2>1
<1>7. ASSUME NEW generation \in Generations, NEW member \in MemberIds, NEW offsets \in OffsetLists,
             request = Of("OffsetCommit", OffsetCommitRequest(generation, member, offsets))
      PROVE  Some
  <2>1. request \in Built(member, generation, <<>>, offsets, <<>>) /\ member \in Nat
        /\ generation \in Int /\ offsets \in Seq(Offsets)
    BY <1>7, ListsAssumption DEF Built, Of
  <2> QED BY <1>1, <2>1
<1>8. ASSUME NEW offsets \in OffsetLists, request = Of("Fetch", FetchRequest(offsets))
      PROVE  Some
  <2>1. request \in Built(0, 0, <<>>, offsets, <<>>) /\ offsets \in Seq(Offsets)
    BY <1>8, ListsAssumption DEF Built, Of
  <2> QED BY <1>1, <2>1
<1> HIDE DEF Some
<1>9. CASE \E member \in {0} \cup MemberIds : request = Of("JoinGroup", JoinGroupRequest(member))
  BY <1>3, <1>9
<1>10. CASE \E generation \in Generations, member \in MemberIds, assignment \in Assignments :
                request = Of("SyncGroup", SyncGroupRequest(generation, member, assignment))
  BY <1>4, <1>10
<1>11. CASE \E generation \in Generations, member \in MemberIds :
                request = Of("Heartbeat", HeartbeatRequest(generation, member))
  BY <1>5, <1>11
<1>12. CASE \E partitions \in PartitionLists : request = Of("OffsetFetch", OffsetFetchRequest(partitions))
  BY <1>6, <1>12
<1>13. CASE \E partitions \in PartitionLists \ {<<>>} : request = Of("Offset", OffsetRequest(partitions))
  BY <1>6, <1>13
<1>14. CASE \E generation \in Generations, member \in MemberIds, offsets \in OffsetLists \ {<<>>} :
                request = Of("OffsetCommit", OffsetCommitRequest(generation, member, offsets))
  BY <1>7, <1>14
<1>15. CASE \E offsets \in OffsetLists : request = Of("Fetch", FetchRequest(offsets))
  BY <1>8, <1>15
<1> QED BY <1>2, <1>9, <1>10, <1>11, <1>12, <1>13, <1>14, <1>15, SentAre, Zenon

LEMMA AllUnderstood == \A request \in WireRequests : WireUnderstands(request)
<1> SUFFICES ASSUME NEW request \in WireRequests PROVE WireUnderstands(request)
  OBVIOUS
<1>1. BrokerReads(request)
  BY SentAreBuilt, BrokersReadWhatWasMeant
<1> QED BY <1>1 DEF WireUnderstands, ReadBy

(* Whatever is asked of a broker, it understands. *)
THEOREM RequestsAreUnderstood == Spec => []RequestsUnderstood
<1>1. TypeOK => RequestsUnderstood
  <2> SUFFICES ASSUME TypeOK, NEW b \in Brokers, asked[b] # NoRequest PROVE Understands(asked[b])
    BY DEF RequestsUnderstood
  <2>1. asked[b] \in WireRequests
    BY WireAssumption DEF TypeOK
  <2>2. Understands(asked[b]) = WireUnderstands(asked[b])
    BY <2>1, WireAssumption
  <2> QED BY <2>1, <2>2, AllUnderstood
<1> QED BY <1>1, TypeCorrect, PTL

-----------------------------------------------------------------------------
(* How an exchange ends the process.  EndingsKnown says nothing of what    *)
(* the end came of: what it rests on is that a broker has still to answer  *)
(* only the request of the exchange (Asked), that what is on its way is    *)
(* an answer to it (Answered), and that the request the process ended on   *)
(* was too long, or has an answer, of the length that was read, that comes *)
(* to that end (EndedBy).                                                  *)
Asked == \A b \in Brokers : phase_ # "ended" /\ asked[b] # NoRequest => asked[b] = request_

Answered ==
    \A b \in Brokers :
        phase_ # "ended" /\ inbound[b] # Nothing => inbound[b].answer \in Answers(request_)

EndedBy ==
    /\ end_ = "overflow" => request_ \in RequestsSent /\ TooLong(request_)
    /\ end_ \in {"overread", "terminate"} =>
        /\ request_ \in RequestsSent
        /\ \E answer \in Answers(request_) :
                answer.comes = end_ /\ answer.announced = total_len

Endings == IInv /\ Asked /\ Answered /\ EndedBy

LEMMA InitEndings == Init => Endings
<1> SUFFICES ASSUME Init PROVE Endings
  OBVIOUS
<1>1. IInv
  BY InitIInv
<1> QED BY <1>1 DEF Init, Endings, Asked, Answered, EndedBy

LEMMA EraseEndings ==
    ASSUME Endings, NEW b \in Brokers, Erase(b), phase_ # "ended", b = broker_, broker_' = b
    PROVE  Asked' /\ Answered' /\ EndedBy'
<1>1. Quiet /\ TypeOK /\ EndedBy
  BY DEF Endings, IInv
<1>2. \A c \in Brokers : asked'[c] = NoRequest /\ inbound'[c] = Nothing
  BY <1>1 DEF Quiet, Waiting, TypeOK, Erase
<1>3. end_' = "none"
  BY <1>1 DEF Erase, Return, TypeOK
<1> QED BY <1>2, <1>3 DEF Asked, Answered, EndedBy

LEMMA ParseEndings == ASSUME Endings, ParseResponse PROVE Asked' /\ Answered' /\ EndedBy'
<1>0. TypeOK /\ Quiet /\ OneAnswer /\ Counted /\ Asked /\ Answered /\ EndedBy
  BY DEF Endings, IInv
<1>1. phase_ = "body" /\ sum_read = total_len /\ broker_ \in Brokers
  BY <1>0 DEF ParseResponse, TypeOK
<1>2. inbound[broker_].taken = inbound[broker_].size /\ asked[broker_] = NoRequest
  BY <1>0, <1>1 DEF Counted
<1>3. inbound' = [inbound EXCEPT ![broker_] = Nothing] /\ UNCHANGED asked
  BY <1>2 DEF ParseResponse
<1>4. inbound[broker_] # Nothing
  <2> SUFFICES ASSUME inbound[broker_] = Nothing PROVE FALSE
    OBVIOUS
  <2> QED BY <1>0, <1>1 DEF Counted, Nothing, TypeOK
<1>5. inbound[broker_].answer \in Answers(request_) /\ request_ \in RequestsSent
  BY <1>0, <1>1, <1>4 DEF Answered, TypeOK
<1>6. \A c \in Brokers : asked'[c] = NoRequest /\ inbound'[c] = Nothing
  BY <1>0, <1>1, <1>2, <1>3 DEF Quiet, Waiting, TypeOK
<1>7. Asked' /\ Answered'
  BY <1>6 DEF Asked, Answered
<1> DEFINE comes == ComesTo(inbound[broker_].answer)
<1>8. comes \in {"overread", "terminate"} => comes = inbound[broker_].answer.comes
  BY DEF ComesTo
<1>9. comes \in {"response", "error", "overread", "terminate"}
  <2>1. inbound[broker_].answer \in Response
    BY <1>5 DEF Response
  <2> QED BY <2>1, ResponseSizes DEF ComesTo
<1>10. EndedBy'
  <2>1. CASE comes \in {"response", "error"}
    <3>1. end_' = "none"
      BY <1>0, <1>1, <2>1 DEF ParseResponse, Return, TypeOK
    <3> QED BY <3>1 DEF EndedBy
  <2>2. CASE comes \in {"overread", "terminate"}
    <3>1. end_' = comes /\ request_' = request_
      BY <2>2 DEF ParseResponse, End
    <3> HIDE DEF comes
    <3>2. end_' \in {"overread", "terminate"} /\ end_' = inbound[broker_].answer.comes
      BY <1>8, <2>2, <3>1
    <3>3. inbound[broker_].answer.announced = total_len'
      <4>1. inbound[broker_].answer \in Response
            /\ inbound[broker_].size = inbound[broker_].answer.size
        BY <1>0, <1>1, <1>4 DEF OneAnswer
      <4>2. inbound[broker_].answer.size = 4 + inbound[broker_].answer.announced
            /\ inbound[broker_].answer.announced \in Nat
        BY <4>1, ResponseSizes
      <4>3. inbound[broker_].size = 4 + total_len /\ total_len \in Nat
        BY <1>0, <1>1 DEF Counted, TypeOK
      <4>4. total_len' = total_len
        BY <2>2 DEF ParseResponse, End, comes
      <4> QED BY <4>1, <4>2, <4>3, <4>4
    <3> QED BY <1>5, <3>1, <3>2, <3>3 DEF EndedBy
  <2> QED BY <1>9, <2>1, <2>2
<1> QED BY <1>7, <1>10

LEMMA EndingsInductive == Endings /\ [Next]_vars => Endings'
<1> SUFFICES ASSUME Endings, [Next]_vars PROVE Asked' /\ Answered' /\ EndedBy'
  BY Inductive DEF Endings
<1>0. TypeOK /\ Quiet /\ OneAnswer /\ Counted /\ Asked /\ Answered /\ EndedBy
  BY DEF Endings, IInv
<1>1. ASSUME NEW b \in alive_brokers_, NEW request \in RequestsSent,
             SendOverflows(b, request) \/ SendKills(b, request)
      PROVE  Asked' /\ Answered' /\ EndedBy'
  <2>1. phase_' = "ended" /\ request_' = request
        /\ (end_' = "killed" \/ (end_' = "overflow" /\ TooLong(request)))
    BY <1>1 DEF SendOverflows, SendKills, End
  <2>2. EndedBy'
    BY <2>1 DEF EndedBy, TooLong
  <2> QED BY <2>1, <2>2 DEF Asked, Answered
<1>2. ASSUME NEW b \in alive_brokers_, NEW request \in RequestsSent, SendWrites(b, request)
      PROVE  Asked' /\ Answered' /\ EndedBy'
  <2>1. phase_ = "idle" /\ b \in Brokers /\ end_' = "none"
    BY <1>0, <1>2 DEF SendWrites, Starts, TypeOK
  <2>2. \A c \in Brokers : asked[c] = NoRequest /\ inbound[c] = Nothing
    BY <1>0, <2>1 DEF Quiet, Waiting
  <2>3. Asked'
    BY <1>0, <1>2, <2>1, <2>2 DEF Asked, SendWrites, TypeOK
  <2>4. Answered'
    BY <1>2, <2>2 DEF Answered, SendWrites
  <2> QED BY <2>1, <2>3, <2>4 DEF EndedBy
<1>3. ASSUME NEW b \in alive_brokers_, NEW request \in RequestsSent, SendFails(b, request)
      PROVE  Asked' /\ Answered' /\ EndedBy'
  <2>1. phase_ = "idle" /\ b \in Brokers /\ end_' = "none"
    BY <1>0, <1>3 DEF SendFails, Starts, TypeOK, Erase, Return
  <2>2. \A c \in Brokers : asked'[c] = NoRequest /\ inbound'[c] = Nothing
    BY <1>0, <1>3, <2>1 DEF Quiet, Waiting, TypeOK, SendFails, Erase
  <2> QED BY <2>1, <2>2 DEF Asked, Answered, EndedBy
<1>4. ASSUME NEW b \in Brokers, AnswerRequest(b) PROVE Asked' /\ Answered' /\ EndedBy'
  <2>1. Asked'
    BY <1>0, <1>4 DEF Asked, AnswerRequest, TypeOK
  <2>2. EndedBy'
    BY <1>0, <1>4 DEF EndedBy, AnswerRequest
  <2>3. Answered'
    <3>1. CASE Understands(asked[b])
      <4>1. PICK answer \in Answers(asked[b]) : inbound' = [inbound EXCEPT ![b] = InFlight(answer)]
        BY <1>4, <3>1 DEF AnswerRequest
      <4>2. phase_ # "ended" => asked[b] = request_
        BY <1>0, <1>4 DEF Asked, AnswerRequest
      <4>3. InFlight(answer).answer = answer
        BY DEF InFlight
      <4>4. phase_' = phase_ /\ request_' = request_
        BY <1>4 DEF AnswerRequest
      <4>5. inbound \in [Brokers -> [answer : Response \cup {NoRequest},
                                     size : Nat, arrived : Nat, taken : Nat]]
        BY <1>0 DEF TypeOK
      <4> QED BY <1>0, <4>1, <4>2, <4>3, <4>4, <4>5 DEF Answered
    <3>2. CASE ~Understands(asked[b])
      BY <1>0, <1>4, <3>2 DEF Answered, AnswerRequest
    <3> QED BY <3>1, <3>2
  <2> QED BY <2>1, <2>2, <2>3
<1>5. ASSUME NEW b \in Brokers, Deliver(b) PROVE Asked' /\ Answered' /\ EndedBy'
  <2>1. PICK cut : inbound' = [inbound EXCEPT ![b].arrived = cut]
    BY <1>5 DEF Deliver
  <2>2. inbound[b] # Nothing /\ UNCHANGED <<phase_, request_, end_, asked, total_len>>
    BY <1>5 DEF Deliver
  <2>3. Answered'
    BY <1>0, <2>1, <2>2 DEF Answered, TypeOK
  <2> QED BY <1>0, <2>2, <2>3 DEF Asked, EndedBy
<1>6. ASSUME NEW b \in Brokers, Leave(b, "closed") \/ Leave(b, "reset")
      PROVE  Asked' /\ Answered' /\ EndedBy'
  <2>1. Asked'
    BY <1>0, <1>6 DEF Asked, Leave, TypeOK
  <2> QED BY <1>0, <1>6, <2>1 DEF Answered, EndedBy, Leave
<1>7. ASSUME NEW b \in Brokers, Connect(b) PROVE Asked' /\ Answered' /\ EndedBy'
  BY <1>0, <1>7 DEF Asked, Answered, EndedBy, Connect
<1>8. CASE ReadHeader
  <2>1. phase_ = "header" /\ broker_ \in Brokers
    BY <1>0, <1>8 DEF ReadHeader, TypeOK
  <2>2. CASE Available(broker_) >= 4
    <3>1. /\ inbound' = [inbound EXCEPT ![broker_].taken = @ + 4]
          /\ phase_' = "body"
          /\ UNCHANGED <<request_, end_, asked>>
      BY <1>8, <2>2 DEF ReadHeader, Took
    <3>2. inbound[broker_] # Nothing
      <4> SUFFICES ASSUME inbound[broker_] = Nothing PROVE FALSE
        OBVIOUS
      <4> QED BY <2>2 DEF Available, Nothing
    <3>3. Answered'
      BY <1>0, <2>1, <3>1, <3>2 DEF Answered, TypeOK
    <3>4. end_' = "none"
      BY <1>0, <2>1, <3>1 DEF TypeOK
    <3> QED BY <1>0, <2>1, <3>1, <3>3, <3>4 DEF Asked, EndedBy
  <2>3. CASE ~(Available(broker_) >= 4)
    <3>1. Erase(broker_) /\ broker_' = broker_
      BY <1>8, <2>3 DEF ReadHeader
    <3> QED BY <2>1, <3>1, EraseEndings
  <2> QED BY <2>2, <2>3
<1>9. CASE ReadBody
  <2>1. phase_ = "body" /\ broker_ \in Brokers
    BY <1>0, <1>9 DEF ReadBody, TypeOK
  <2>2. PICK n : inbound' = [inbound EXCEPT ![broker_].taken = @ + n]
    BY <1>9 DEF ReadBody, Took
  <2>3. UNCHANGED <<phase_, request_, end_, asked, total_len>>
    BY <1>9 DEF ReadBody
  <2>4. inbound[broker_] # Nothing
    <3> SUFFICES ASSUME inbound[broker_] = Nothing PROVE FALSE
      OBVIOUS
    <3> QED BY <1>9 DEF ReadBody, Available, Nothing
  <2>5. Answered'
    BY <1>0, <2>1, <2>2, <2>3, <2>4 DEF Answered, TypeOK
  <2> QED BY <1>0, <2>3, <2>5 DEF Asked, EndedBy
<1>10. CASE BodyIsCut
  <2>1. phase_ = "body" /\ broker_ \in Brokers /\ Erase(broker_) /\ broker_' = broker_
    BY <1>0, <1>10 DEF BodyIsCut, TypeOK
  <2> QED BY <2>1, EraseEndings
<1>11. CASE BodyFails
  <2>1. phase_ = "body" /\ broker_ \in Brokers /\ end_' = "none"
    BY <1>0, <1>11 DEF BodyFails, TypeOK, Return
  <2>2. \A c \in Brokers : asked'[c] = NoRequest /\ inbound'[c] = Nothing
    BY <1>0, <1>11, <2>1 DEF Quiet, Waiting, Counted, TypeOK, BodyFails
  <2> QED BY <2>1, <2>2 DEF Asked, Answered, EndedBy
<1>12. CASE ParseResponse
  BY <1>12, ParseEndings
<1>13. CASE UNCHANGED vars
  BY <1>0, <1>13 DEF vars, Asked, Answered, EndedBy
<1> QED
  BY <1>1, <1>2, <1>3, <1>4, <1>5, <1>6, <1>7, <1>8, <1>9, <1>10, <1>11, <1>12, <1>13
     DEF Next, Ended

LEMMA SpecEndings == Spec => []Endings
BY InitEndings, EndingsInductive, PTL DEF Spec

-----------------------------------------------------------------------------
(* The member ids in an exchange, and in what a leader hands out. *)
ShortMembers(assignment) == \A i \in DOMAIN assignment : assignment[i].member <= 60
ShortIds ==
    /\ MemberIds \subseteq 0 .. 60
    /\ \A assignment \in Assignments : ShortMembers(assignment)

LEMMA GroupAssignmentIs ==
    ASSUME NEW member \in Nat, NEW partitions \in Seq(Int)
    PROVE  LET g == GroupAssignment(member, partitions)
           IN  /\ PartitionCount(g) = Len(partitions)
               /\ GroupAssignmentSize(g) = member + Topic + 22 + 4 * Len(partitions)
<1> DEFINE g == GroupAssignment(member, partitions)
           m == MemberAssignment(partitions)
           a == PartitionAssignmentOf(partitions)
           n == Len(partitions)
<1>1. n \in Nat /\ Len(a.partitions_) = n /\ PartitionAssignmentSize(a) = 2 + Topic + 4 + 4 * n
  BY PartitionsTake, LenProperties DEF PartitionAssignmentOf
<1>2. g.member_id_ = member /\ g.member_assignment_ = m /\ m.partition_assignment_ = <<a>>
      /\ m.user_data_ = 0
  BY DEF GroupAssignment, MemberAssignment
<1> HIDE DEF g, m, a, n
<1>3. PartitionCount(g) = n
  BY <1>1, <1>2 DEF PartitionCount
<1> DEFINE sizes == [i \in DOMAIN <<a>> |-> PartitionAssignmentSize(<<a>>[i])]
           size == 2 + Topic + 4 + 4 * n
<1>4. SumOf(<<a>>, PartitionAssignmentSize) = SumOfFirst(sizes, 1)
  BY DEF SumOf
<1>5. \A i \in 1 .. 1 : sizes[i] = size
  BY <1>1
<1>6. size \in Nat
  BY <1>1, NamesAssumption
<1> HIDE DEF sizes, size
<1>7. SumOfFirst(sizes, 1) = 1 * size
  BY <1>5, <1>6, SumOfEqual
<1>8. MemberAssignmentSize(m) = 10 + size
  BY <1>2, <1>4, <1>6, <1>7 DEF MemberAssignmentSize
<1>9. GroupAssignmentSize(g) = member + Topic + 22 + 4 * n
  <2>1. GroupAssignmentSize(g) = 2 + member + 4 + (10 + size)
    BY <1>2, <1>8 DEF GroupAssignmentSize
  <2> QED BY <1>1, <2>1, NamesAssumption DEF size
<1> QED BY <1>3, <1>9 DEF g, n

SyncKept(generation, member, assignment) ==
    LET sync == Of("SyncGroup", SyncGroupRequest(generation, member, assignment))
    IN  /\ CountSize(sync) \in Nat /\ Entries(sync) \in Nat /\ HandedOut(sync) \in Nat
        /\ Entries(sync) <= 10 /\ HandedOut(sync) <= 80 => CountSize(sync) + 4 <= 2048

(* A leader that hands out at most 80 partitions to at most ten members    *)
(* keeps within the buffer. *)
LEMMA SyncFits ==
    ASSUME ShortNames, NEW generation, NEW member \in Nat, member <= 60,
           NEW member_partitions \in Seq(Assigned),
           ShortMembers(member_partitions)
    PROVE  SyncKept(generation, member, member_partitions)
<1> DEFINE request == Of("SyncGroup", SyncGroupRequest(generation, member, member_partitions))
           r == SyncGroupRequest(generation, member, member_partitions)
           elements == r.group_assignment_
           n == Len(member_partitions)
           sizes == [i \in DOMAIN elements |-> GroupAssignmentSize(elements[i])]
           counts == [i \in DOMAIN elements |-> PartitionCount(elements[i])]
<1>1. n \in Nat /\ DOMAIN member_partitions = 1 .. n
      /\ \A i \in 1 .. n : member_partitions[i] \in Assigned
  BY LenProperties, ElementOfSeq
<1>2. \A i \in 1 .. n : member_partitions[i].member \in 0 .. 60
                        /\ member_partitions[i].partitions \in Seq(Int)
  <2> SUFFICES ASSUME NEW i \in 1 .. n
               PROVE  member_partitions[i].member \in 0 .. 60
                      /\ member_partitions[i].partitions \in Seq(Int)
    OBVIOUS
  <2> DEFINE id == member_partitions[i].member
  <2>1. id \in Nat /\ member_partitions[i].partitions \in Seq(Int) /\ id <= 60
    BY <1>1 DEF Assigned, ShortMembers
  <2> HIDE DEF id
  <2>2. id \in 0 .. 60
    BY <2>1
  <2> QED BY <2>1, <2>2 DEF id
<1>3. /\ r.member_id_ = member
      /\ DOMAIN elements = 1 .. n /\ Len(elements) = n
      /\ \A i \in 1 .. n : elements[i] = GroupAssignment(member_partitions[i].member,
                                                         member_partitions[i].partitions)
  BY <1>1 DEF SyncGroupRequest
<1>4. request.type = "SyncGroup" /\ request.body = r
  BY DEF Of
<1> HIDE DEF request
<1>5. Entries(request) = n
  BY <1>3, <1>4, Zenon DEF Entries
<1>6. HandedOut(request) = SumOfFirst(counts, n)
  BY <1>3, <1>4 DEF HandedOut, SumOf
<1>7. CountSize(request) = SyncGroupSize(r)
  BY <1>4, CountSizes
<1> DEFINE sum == SumOfFirst(sizes, n)
           count == SumOfFirst(counts, n)
           c == 82 + Topic
<1>8. SumOf(elements, GroupAssignmentSize) = sum
  BY <1>3 DEF SumOf
<1>9. AtMost(sizes, counts, n, c)
  <2> SUFFICES ASSUME NEW i \in 1 .. n
               PROVE  sizes[i] \in Nat /\ counts[i] \in Nat /\ sizes[i] <= c + 4 * counts[i]
    BY DEF AtMost
  <2> DEFINE id == member_partitions[i].member
             of == member_partitions[i].partitions
             g == GroupAssignment(id, of)
  <2>1. id \in 0 .. 60 /\ of \in Seq(Int) /\ Len(of) \in Nat
    BY <1>2, LenProperties
  <2>2. elements[i] = g /\ i \in DOMAIN elements
    BY <1>3
  <2> HIDE DEF id, of
  <2>5. id \in Nat
    BY <2>1
  <2>3. PartitionCount(g) = Len(of) /\ GroupAssignmentSize(g) = id + Topic + 22 + 4 * Len(of)
    BY <2>1, <2>5, GroupAssignmentIs
  <2> HIDE DEF g
  <2>4. sizes[i] = id + Topic + 22 + 4 * Len(of) /\ counts[i] = Len(of)
    BY <2>2, <2>3
  <2> HIDE DEF sizes, counts
  <2> QED BY <2>1, <2>4, NamesAssumption
<1> HIDE DEF sizes, counts, elements, n
<1>11. sum \in Nat /\ count \in Nat /\ sum <= n * c + 4 * count
  <2>1. c \in Nat
    BY NamesAssumption
  <2> HIDE DEF c
  <2> QED BY <1>1, <1>9, <2>1, SumAtMost
<1>12. SyncGroupSize(r) = 20 + 2 + Group + 4 + 2 + member + 4 + sum
  BY <1>3, <1>8 DEF SyncGroupSize, HeadSize, client_id_, elements
<1> HIDE DEF sum, count, r
<1>13. ASSUME n <= 10, count <= 80 PROVE sum <= 10 * c + 4 * 80
  <2>1. n * c <= 10 * c
    BY <1>1, <1>13, NamesAssumption
  <2>2. n * c \in Nat /\ 10 * c \in Nat
    BY <1>1, NamesAssumption
  <2> HIDE DEF c
  <2> QED BY <1>11, <1>13, <2>1, <2>2
<1>14. CountSize(request) \in Nat
  <2>1. member \in Nat /\ Group \in Nat
    BY NamesAssumption
  <2> QED BY <1>7, <1>11, <1>12, <2>1
<1>15. ASSUME n <= 10, count <= 80 PROVE CountSize(request) + 4 <= 2048
  <2>1. sum <= 10 * c + 4 * 80
    BY <1>13, <1>15
  <2> QED BY <1>7, <1>11, <1>12, <2>1, NamesAssumption DEF ShortNames
<1>16. Entries(request) = n /\ HandedOut(request) = count
  BY <1>5, <1>6 DEF count
<1>17. /\ CountSize(request) \in Nat /\ Entries(request) \in Nat /\ HandedOut(request) \in Nat
       /\ Entries(request) <= 10 /\ HandedOut(request) <= 80 => CountSize(request) + 4 <= 2048
  BY <1>1, <1>11, <1>14, <1>15, <1>16
<1> QED BY <1>17 DEF SyncKept, request

LEMMA EntriesAre ==
    ASSUME NEW request
    PROVE  /\ request.type = "SyncGroup" => Entries(request) = Len(request.body.group_assignment_)
           /\ request.type = "OffsetFetch" => Entries(request) = Len(request.body.topics[1].partitions_)
           /\ request.type = "Offset" =>
                Entries(request) = Len(request.body.topic_partition_array_[1].partition_time_array_)
           /\ request.type = "OffsetCommit" =>
                Entries(request) = Len(request.body.topic_partitions_[1].partitions_)
           /\ request.type = "Fetch" =>
                Entries(request) = Len(request.body.topic_partitions_[1].partitions_)
BY Zenon DEF Entries

LEMMA EntriesOf ==
    ASSUME NEW partitions \in Seq(Int), NEW offsets \in Seq(Offsets), NEW generation, NEW member
    PROVE  /\ Entries(Of("OffsetFetch", OffsetFetchRequest(partitions))) = Len(partitions)
           /\ Entries(Of("Offset", OffsetRequest(partitions))) = Len(partitions)
           /\ Entries(Of("OffsetCommit", OffsetCommitRequest(generation, member, offsets)))
                = Len(offsets)
           /\ Entries(Of("Fetch", FetchRequest(offsets))) = Len(offsets)
<1>1. /\ Len(partitions) \in Nat /\ DOMAIN partitions = 1 .. Len(partitions)
      /\ Len(offsets) \in Nat /\ DOMAIN offsets = 1 .. Len(offsets)
  BY LenProperties
<1>2. Entries(Of("OffsetFetch", OffsetFetchRequest(partitions))) = Len(partitions)
  <2> DEFINE r == OffsetFetchRequest(partitions)
  <2>1. Len(r.topics[1].partitions_) = Len(partitions)
    BY <1>1 DEF OffsetFetchRequest, PartitionAssignmentOf
  <2> HIDE DEF r
  <2>2. Of("OffsetFetch", r).type = "OffsetFetch" /\ Of("OffsetFetch", r).body = r
    BY DEF Of
  <2>3. Entries(Of("OffsetFetch", r)) = Len(partitions)
    BY <2>1, <2>2, EntriesAre
  <2> QED BY <2>3 DEF r
<1>3. Entries(Of("Offset", OffsetRequest(partitions))) = Len(partitions)
  <2> DEFINE r == OffsetRequest(partitions)
  <2>1. Len(r.topic_partition_array_[1].partition_time_array_) = Len(partitions)
    BY <1>1 DEF OffsetRequest, TopicPartition
  <2> HIDE DEF r
  <2>2. Of("Offset", r).type = "Offset" /\ Of("Offset", r).body = r
    BY DEF Of
  <2>3. Entries(Of("Offset", r)) = Len(partitions)
    BY <2>1, <2>2, EntriesAre
  <2> QED BY <2>3 DEF r
<1>4. Entries(Of("OffsetCommit", OffsetCommitRequest(generation, member, offsets))) = Len(offsets)
  <2> DEFINE r == OffsetCommitRequest(generation, member, offsets)
  <2>1. Len(r.topic_partitions_[1].partitions_) = Len(offsets)
    BY <1>1 DEF OffsetCommitRequest, TopicPartitionOM
  <2> HIDE DEF r
  <2>2. Of("OffsetCommit", r).type = "OffsetCommit" /\ Of("OffsetCommit", r).body = r
    BY DEF Of
  <2>3. Entries(Of("OffsetCommit", r)) = Len(offsets)
    BY <2>1, <2>2, EntriesAre
  <2> QED BY <2>3 DEF r
<1>5. Entries(Of("Fetch", FetchRequest(offsets))) = Len(offsets)
  <2> DEFINE r == FetchRequest(offsets)
  <2>1. Len(r.topic_partitions_[1].partitions_) = Len(offsets)
    BY <1>1 DEF FetchRequest, TopicPartitionFM
  <2> HIDE DEF r
  <2>2. Of("Fetch", r).type = "Fetch" /\ Of("Fetch", r).body = r
    BY DEF Of
  <2>3. Entries(Of("Fetch", r)) = Len(offsets)
    BY <2>1, <2>2, EntriesAre
  <2> QED BY <2>3 DEF r
<1> QED BY <1>2, <1>3, <1>4, <1>5

(* Only many partitions, or many members, make a request too long. *)
Many120(request) ==
    \/ Entries(request) > 120
    \/ request.type = "SyncGroup" /\ (Entries(request) > 10 \/ HandedOut(request) > 80)

LEMMA ListsInts == PartitionLists \subseteq Seq(Int)
BY ProtocolAssumption

(* The requests about partitions: their size, and the entries they have. *)
SizesAbout(partitions, offsets, generation, member) ==
    /\ CountSize(Of("OffsetFetch", OffsetFetchRequest(partitions))) = OffsetFetchSize(partitions)
    /\ CountSize(Of("Offset", OffsetRequest(partitions))) = OffsetSize(partitions)
    /\ CountSize(Of("OffsetCommit", OffsetCommitRequest(generation, member, offsets)))
         = OffsetCommitSize(member, offsets)
    /\ CountSize(Of("Fetch", FetchRequest(offsets))) = FetchSize(offsets)

LEMMA AboutPartitions ==
    ASSUME NEW partitions \in Seq(Int), NEW offsets \in Seq(Offsets), NEW generation, NEW member
    PROVE  SizesAbout(partitions, offsets, generation, member)
BY SameLengths DEF Of, SizesAbout

LEMMA LongAreMany ==
    ASSUME ShortNames, ShortIds, NEW request \in WireRequests, CountSize(request) + 4 > 2048
    PROVE  Many120(request)
<1>1. CASE request \in {Of("Metadata", MetadataRequest), Of("GroupCoordinator", GroupCoordinatorRequest)}
  <2>1. CountSize(request) = MetadataSize \/ CountSize(request) = GroupCoordinatorSize
    BY <1>1, CountSizes DEF Of
  <2>2. MetadataSize + 4 <= 2048 /\ GroupCoordinatorSize + 4 <= 2048
        /\ MetadataSize \in Int /\ GroupCoordinatorSize \in Int
    BY NamesAssumption DEF ShortNames, HeadSize, client_id_, MetadataSize, GroupCoordinatorSize
  <2> QED BY <2>1, <2>2
<1>2. CASE \E member \in {0} \cup MemberIds : request = Of("JoinGroup", JoinGroupRequest(member))
  <2>1. PICK member \in {0} \cup MemberIds : request = Of("JoinGroup", JoinGroupRequest(member))
    BY <1>2
  <2>2. CountSize(request) = JoinGroupSize(JoinGroupRequest(member))
    BY <2>1, CountSizes DEF Of
  <2>3. JoinGroupSize(JoinGroupRequest(member)) + 4 <= 2048
        /\ JoinGroupSize(JoinGroupRequest(member)) \in Int
    <3>1. member \in 0 .. 60
      BY DEF ShortIds
    <3> QED BY <3>1, NamesAssumption DEF ShortNames, HeadSize, client_id_, JoinGroupSize,
              JoinGroupRequest, GroupProtocolSize, ProtocolMetadataSize
  <2> QED BY <2>2, <2>3
<1>3. CASE \E generation \in Generations, member \in MemberIds, assignment \in Assignments :
                request = Of("SyncGroup", SyncGroupRequest(generation, member, assignment))
  <2>1. PICK generation \in Generations, member \in MemberIds, assignment \in Assignments :
                request = Of("SyncGroup", SyncGroupRequest(generation, member, assignment))
    BY <1>3
  <2>2. member \in Nat /\ member <= 60 /\ assignment \in Seq(Assigned) /\ ShortMembers(assignment)
    BY ListsAssumption DEF ShortIds
  <2>3. /\ CountSize(request) \in Nat /\ Entries(request) \in Nat /\ HandedOut(request) \in Nat
        /\ Entries(request) <= 10 /\ HandedOut(request) <= 80 => CountSize(request) + 4 <= 2048
    <3>1. SyncKept(generation, member, assignment)
      BY <2>2, SyncFits
    <3> QED BY <2>1, <3>1 DEF SyncKept
  <2>4. request.type = "SyncGroup"
    BY <2>1 DEF Of
  <2> QED BY <2>3, <2>4 DEF Many120
<1>4. ASSUME NEW member \in MemberIds PROVE member \in 0 .. 60 /\ member \in Nat
  BY <1>4 DEF ShortIds
<1>5. CASE \E generation \in Generations, member \in MemberIds :
                request = Of("Heartbeat", HeartbeatRequest(generation, member))
  <2>1. PICK generation \in Generations, member \in MemberIds :
                request = Of("Heartbeat", HeartbeatRequest(generation, member))
    BY <1>5
  <2>2. CountSize(request) = HeartbeatSize(HeartbeatRequest(generation, member))
    BY <2>1, CountSizes DEF Of
  <2>3. HeartbeatSize(HeartbeatRequest(generation, member)) = HeadSize + 2 + Group + 4 + 2 + member
    BY DEF HeartbeatSize, HeartbeatRequest
  <2>4. member \in 0 .. 60
    BY <1>4
  <2> QED BY <2>2, <2>3, <2>4, NamesAssumption DEF ShortNames, HeadSize, client_id_
<1>6. ASSUME NEW partitions \in Seq(Int), request = Of("OffsetFetch", OffsetFetchRequest(partitions))
             \/ request = Of("Offset", OffsetRequest(partitions))
      PROVE  Entries(request) > 120
  <2>1. PICK offsets, generation, member : offsets = <<>> /\ generation = 0 /\ member = 0
    OBVIOUS
  <2>2. offsets \in Seq(Offsets)
    BY <2>1
  <2>3. SizesAbout(partitions, offsets, generation, member)
    BY <2>2, AboutPartitions
  <2>4. CountSize(request) = OffsetFetchSize(partitions) \/ CountSize(request) = OffsetSize(partitions)
    BY <1>6, <2>3 DEF SizesAbout
  <2>5. /\ Entries(Of("OffsetFetch", OffsetFetchRequest(partitions))) = Len(partitions)
        /\ Entries(Of("Offset", OffsetRequest(partitions))) = Len(partitions)
        /\ Entries(Of("OffsetCommit", OffsetCommitRequest(generation, member, offsets))) = Len(offsets)
        /\ Entries(Of("Fetch", FetchRequest(offsets))) = Len(offsets)
    BY <2>2, EntriesOf
  <2>6. Entries(request) = Len(partitions)
    BY <1>6, <2>5
  <2>7. ASSUME Len(partitions) <= 120 PROVE CountSize(request) + 4 <= 2048
    <3>1. 0 \in 0 .. 60
      OBVIOUS
    <3>2. OffsetFetchSize(partitions) + 4 <= 2048 /\ OffsetSize(partitions) + 4 <= 2048
      BY <2>7, <3>1, RequestsFit
    <3> QED BY <2>4, <3>2
  <2>8. Len(partitions) \in Nat
    BY LenProperties
  <2>9. CountSize(request) \in Int
    BY <2>4, <2>8, NamesAssumption DEF OffsetFetchSize, OffsetSize, TopicPartitionSize,
       PartitionTimeSize, HeadSize, client_id_
  <2> QED BY <2>6, <2>7, <2>8, <2>9
<1>7. ASSUME NEW offsets \in Seq(Offsets), NEW generation, NEW member \in 0 .. 60,
             request = Of("OffsetCommit", OffsetCommitRequest(generation, member, offsets))
             \/ request = Of("Fetch", FetchRequest(offsets))
      PROVE  Entries(request) > 120
  <2>1. PICK partitions : partitions = <<>>
    OBVIOUS
  <2>2. partitions \in Seq(Int)
    BY <2>1
  <2>3. SizesAbout(partitions, offsets, generation, member)
    BY <2>2, AboutPartitions
  <2>4. CountSize(request) = OffsetCommitSize(member, offsets) \/ CountSize(request) = FetchSize(offsets)
    BY <1>7, <2>3 DEF SizesAbout
  <2>5. /\ Entries(Of("OffsetFetch", OffsetFetchRequest(partitions))) = Len(partitions)
        /\ Entries(Of("Offset", OffsetRequest(partitions))) = Len(partitions)
        /\ Entries(Of("OffsetCommit", OffsetCommitRequest(generation, member, offsets))) = Len(offsets)
        /\ Entries(Of("Fetch", FetchRequest(offsets))) = Len(offsets)
    BY <2>2, EntriesOf
  <2>6. Entries(request) = Len(offsets)
    BY <1>7, <2>5
  <2>8. Len(offsets) \in Nat
    BY LenProperties
  <2>7. ASSUME Len(offsets) <= 120 PROVE CountSize(request) + 4 <= 2048
    <3>1. OffsetCommitSize(member, offsets) + 4 <= 2048 /\ FetchSize(offsets) + 4 <= 2048
      BY <2>7, <2>8, NamesAssumption DEF OffsetCommitSize, TopicPartitionOMSize, PartitionOMSize,
         FetchSize, TopicPartitionFMSize, PartitionFMSize, ShortNames, HeadSize, client_id_
    <3> QED BY <2>4, <3>1
  <2>9. CountSize(request) \in Int
    BY <2>4, <2>8, NamesAssumption DEF OffsetCommitSize, TopicPartitionOMSize, PartitionOMSize,
       FetchSize, TopicPartitionFMSize, PartitionFMSize, HeadSize, client_id_
  <2> QED BY <2>6, <2>7, <2>8, <2>9
<1>8. CASE \E partitions \in PartitionLists : request = Of("OffsetFetch", OffsetFetchRequest(partitions))
  BY <1>6, <1>8, ListsInts DEF Many120
<1>9. CASE \E partitions \in PartitionLists \ {<<>>} : request = Of("Offset", OffsetRequest(partitions))
  BY <1>6, <1>9, ListsInts DEF Many120
<1>10. CASE \E generation \in Generations, member \in MemberIds, offsets \in OffsetLists \ {<<>>} :
                request = Of("OffsetCommit", OffsetCommitRequest(generation, member, offsets))
  BY <1>4, <1>7, <1>10, ListsAssumption DEF Many120
<1>11. CASE \E offsets \in OffsetLists : request = Of("Fetch", FetchRequest(offsets))
  <2>1. 0 \in 0 .. 60
    OBVIOUS
  <2> QED BY <1>7, <1>11, <2>1, ListsAssumption DEF Many120
<1> HIDE DEF Many120
<1> QED BY <1>1, <1>2, <1>3, <1>5, <1>8, <1>9, <1>10, <1>11, SentAre

-----------------------------------------------------------------------------
(***************************************************************************)
(* The answers: what each class of response reads of what a broker may     *)
(* answer, whether it counts what it has read, and what the handler then   *)
(* finds in it.  The size and the correlation id are in front of all of    *)
(* them, so that they are looked at without.                               *)
(***************************************************************************)
AnswerWire(correlation, body) == Int32(4 + ByteCount(body)) \o Int32(correlation) \o body

LEMMA ConstructorsAre ==
    /\ Constructor["Metadata"] = MetadataResponse
    /\ Constructor["GroupCoordinator"] = GroupCoordinatorResponse
    /\ Constructor["JoinGroup"] = JoinGroupResponse
    /\ Constructor["SyncGroup"] = SyncGroupResponse
    /\ Constructor["OffsetFetch"] = OffsetFetchResponse
    /\ Constructor["Offset"] = OffsetResponse
    /\ Constructor["OffsetCommit"] = OffsetCommitResponse
    /\ Constructor["Heartbeat"] = HeartbeatResponse
    /\ Constructor["Fetch"] = FetchResponse
BY DEF Constructor

(* The names behind the head. *)
BehindHead(format) == (\E n \in Nat : Tuple(format, n)) /\ Distinct(ResponseHead, format)

LEMMA HeadIs ==
    /\ Tuple(ResponseHead, 2) /\ DOMAIN ResponseHead = 1 .. 2
    /\ ResponseHead[1].name = "total_size_" /\ ResponseHead[2].name = "correlation_id_"
    /\ ResponseHead[1].reader = Number(4) /\ ResponseHead[2].reader = Number(4)
<1>1. Tuple(ResponseHead, 2)
  BY TuplesAre DEF ResponseHead
<1> QED BY <1>1 DEF ResponseHead, Read32, Item

LEMMA MetadataBehind == BehindHead(MetadataResponse)
<1>1. Tuple(MetadataResponse, 2)
  BY TuplesAre DEF MetadataResponse
<1>2. DOMAIN MetadataResponse = 1 .. 2 /\ MetadataResponse[1].name = "brokers_"
      /\ MetadataResponse[2].name = "topic_metadata_"
  BY DEF MetadataResponse, Many, Item
<1> QED BY <1>1, <1>2, HeadIs DEF BehindHead, Distinct

LEMMA GroupCoordinatorBehind == BehindHead(GroupCoordinatorResponse)
<1> DEFINE c == GroupCoordinatorResponse
<1>1. Tuple(c, 4)
  BY TuplesAre DEF GroupCoordinatorResponse
<1>2. DOMAIN c = 1 .. 4 /\ c[1].name = "error_code_" /\ c[2].name = "coordinator_id_"
      /\ c[3].name = "coordinator_host_" /\ c[4].name = "coordinator_port_"
  BY DEF GroupCoordinatorResponse, Read16, Read32, Text, Item
<1> HIDE DEF c
<1>3. BehindHead(c)
  BY <1>1, <1>2, HeadIs DEF BehindHead, Distinct
<1> QED BY <1>3 DEF c

LEMMA JoinGroupBehind == BehindHead(JoinGroupResponse)
<1> DEFINE c == JoinGroupResponse
<1>1. Tuple(c, 6)
  BY TuplesAre DEF JoinGroupResponse
<1>2. DOMAIN c = 1 .. 6 /\ c[1].name = "error_code_" /\ c[2].name = "generation_id_"
      /\ c[3].name = "group_protocol_" /\ c[4].name = "leader_id_" /\ c[5].name = "member_id_"
      /\ c[6].name = "members_"
  BY DEF JoinGroupResponse, Read16, Read32, Text, Many, Item
<1> HIDE DEF c
<1>3. BehindHead(c)
  BY <1>1, <1>2, HeadIs DEF BehindHead, Distinct
<1> QED BY <1>3 DEF c

LEMMA SyncGroupBehind == BehindHead(SyncGroupResponse)
<1> DEFINE c == SyncGroupResponse
<1>1. Tuple(c, 3)
  BY TuplesAre DEF SyncGroupResponse
<1>2. DOMAIN c = 1 .. 3 /\ c[1].name = "error_code_" /\ c[2].name = "member_assignment_size"
      /\ c[3].name = "member_assignment_"
  BY DEF SyncGroupResponse, Throwing, Read32, One, Item
<1> HIDE DEF c
<1>3. BehindHead(c)
  BY <1>1, <1>2, HeadIs DEF BehindHead, Distinct
<1> QED BY <1>3 DEF c

LEMMA OffsetFetchBehind == BehindHead(OffsetFetchResponse)
<1> DEFINE c == OffsetFetchResponse
<1>1. Tuple(c, 3)
  BY TuplesAre DEF OffsetFetchResponse
<1>2. DOMAIN c = 1 .. 3 /\ c[1].name = "array_size" /\ c[2].name = "topic_"
      /\ c[3].name = "partitions_info_"
  BY DEF OffsetFetchResponse, Read32, Text, Many, Item
<1> HIDE DEF c
<1>3. BehindHead(c)
  BY <1>1, <1>2, HeadIs DEF BehindHead, Distinct
<1> QED BY <1>3 DEF c

LEMMA OneItemBehind ==
    BehindHead(OffsetResponse) /\ BehindHead(OffsetCommitResponse) /\ BehindHead(HeartbeatResponse)
<1>1. /\ Tuple(OffsetResponse, 1) /\ Tuple(OffsetCommitResponse, 1) /\ Tuple(HeartbeatResponse, 1)
  BY TuplesAre DEF OffsetResponse, OffsetCommitResponse, HeartbeatResponse
<1>2. /\ DOMAIN OffsetResponse = 1 .. 1 /\ OffsetResponse[1].name = "topic_partition_array_"
      /\ DOMAIN OffsetCommitResponse = 1 .. 1 /\ OffsetCommitResponse[1].name = "topic_partitions_"
      /\ DOMAIN HeartbeatResponse = 1 .. 1 /\ HeartbeatResponse[1].name = "error_code_"
  BY DEF OffsetResponse, OffsetCommitResponse, HeartbeatResponse, Read16, Many, Item
<1> QED BY <1>1, <1>2, HeadIs DEF BehindHead, Distinct

LEMMA FetchBehind == BehindHead(FetchResponse)
<1>1. Tuple(FetchResponse, 2)
  BY TuplesAre DEF FetchResponse
<1>2. DOMAIN FetchResponse = 1 .. 2 /\ FetchResponse[1].name = "throttle_time_"
      /\ FetchResponse[2].name = "topic_partitions_"
  BY DEF FetchResponse, Read32, Many, Item
<1> QED BY <1>1, <1>2, HeadIs DEF BehindHead, Distinct

LEMMA AllBehind == \A type \in DOMAIN Constructor : BehindHead(Constructor[type])
<1> SUFFICES ASSUME NEW type \in DOMAIN Constructor PROVE BehindHead(Constructor[type])
  OBVIOUS
<1>1. type \in {"Metadata", "GroupCoordinator", "JoinGroup", "SyncGroup", "OffsetFetch", "Offset",
                "OffsetCommit", "Heartbeat", "Fetch"}
  BY DEF Constructor
<1> QED BY <1>1, ConstructorsAre, MetadataBehind, GroupCoordinatorBehind, JoinGroupBehind,
           SyncGroupBehind, OffsetFetchBehind, OneItemBehind, FetchBehind

(* Behind the head, a response is what its class reads without it. *)
LEMMA HeadThen ==
    ASSUME NEW type \in DOMAIN Constructor, NEW size \in Int, NEW correlation \in Int,
           NEW body \in Wires
    PROVE  LET alone == Object(Constructor[type])[body]
               all   == Read(type, Int32(size) \o Int32(correlation) \o body)
           IN  \/ /\ alone.how = "read" /\ all.how = "read"
                  /\ all.value.total_size_ = size
                  /\ Agree(Constructor[type], all.value, alone.value)
               \/ alone.how # "read" /\ all = alone
<1> DEFINE c      == Constructor[type]
           front  == Int32(size) \o Int32(correlation)
           values == <<size, correlation>>
           alone  == Object(c)[body]
           all    == Object(ResponseHead \o c)[front \o body]
<1>1. PICK n \in Nat : Tuple(c, n)
  BY AllBehind DEF BehindHead
<1>2. Distinct(ResponseHead, c)
  BY AllBehind DEF BehindHead
<1>3. IsJoined(ResponseHead, 2, c, n, ResponseHead \o c)
  <2>1. 2 \in Nat
    OBVIOUS
  <2> HIDE DEF c
  <2> QED BY <2>1, <1>1, HeadIs, TuplesJoined
<1>4. ReadersOf(ResponseHead \o c)[1] = Number(4) /\ ReadersOf(ResponseHead \o c)[2] = Number(4)
  <2> HIDE DEF c
  <2>1. (ResponseHead \o c)[1] = ResponseHead[1] /\ (ResponseHead \o c)[2] = ResponseHead[2]
        /\ 1 \in DOMAIN (ResponseHead \o c) /\ 2 \in DOMAIN (ResponseHead \o c)
    BY <1>3 DEF IsJoined
  <2> QED BY <2>1, HeadIs DEF ReadersOf
<1>5. ReadsFirst(ReadersOf(ResponseHead \o c), 2, front, values)
  <2> HIDE DEF c
  <2>1. Reads(Number(4), Int32(size), size) /\ Reads(Number(4), Int32(correlation), correlation)
    BY IntsRead
  <2> QED BY <2>1, <1>4, FirstTwo
<1>6. Tuple(values, 2) /\ values[1] = size
  BY TuplesAre
<1>7. \/ /\ alone.how = "read" /\ all.how = "read"
         /\ \A i \in 1 .. 2 : all.value[ResponseHead[i].name] = values[i]
         /\ Agree(c, all.value, alone.value)
      \/ alone.how # "read" /\ all = alone
  <2>1. 2 \in Nat /\ Tuple(ResponseHead, 2)
    BY HeadIs
  <2> HIDE DEF c, front, values
  <2>2. \E m \in Nat : Tuple(c, m)
    BY <1>1
  <2> QED BY <2>1, <2>2, <1>2, <1>5, <1>6, ObjectBehind
<1>8. all.how = "read" => all.value.total_size_ = size \/ alone.how # "read"
  <2> HIDE DEF all, alone, c, values
  <2>1. 1 \in 1 .. 2
    OBVIOUS
  <2> QED BY <2>1, <1>6, <1>7, HeadIs
<1>9. Read(type, Int32(size) \o Int32(correlation) \o body) = all
  BY DEF Read
<1> HIDE DEF all, c, values
<1> QED BY <1>7, <1>8, <1>9 DEF c, alone

(* What is parsed of an answer. *)
Answer(type, correlation, body) == Read(type, AnswerWire(correlation, body)).value
ComesOf(type, correlation, body) == Comes(type, AnswerWire(correlation, body))

LEMMA ComesStopped ==
    ASSUME NEW type \in DOMAIN Constructor, NEW correlation \in Int, NEW body \in Wires
    PROVE  LET how == Object(Constructor[type])[body].how
           IN  /\ how = "thrown" => ComesOf(type, correlation, body) = "error"
               /\ how = "lost" => ComesOf(type, correlation, body) = "overread"
<1> DEFINE all == Read(type, AnswerWire(correlation, body))
           alone == Object(Constructor[type])[body]
<1>1. 4 + ByteCount(body) \in Int
  BY BytesType
<1>2. alone.how # "read" => all = alone
  BY <1>1, HeadThen DEF AnswerWire
<1> HIDE DEF alone
<1>3. ASSUME alone.how = "thrown" PROVE ComesOf(type, correlation, body) = "error"
  <2>1. all.how = "thrown"
    BY <1>2, <1>3
  <2>2. Parse(type, AnswerWire(correlation, body)) = "error"
    BY <2>1 DEF Parse
  <2> QED BY <2>2 DEF Comes, ComesOf
<1>4. ASSUME alone.how = "lost" PROVE ComesOf(type, correlation, body) = "overread"
  <2>1. all.how = "lost"
    BY <1>2, <1>4
  <2>2. Parse(type, AnswerWire(correlation, body)) = "overread"
    BY <2>1 DEF Parse
  <2> QED BY <2>2 DEF Comes, ComesOf
<1> QED BY <1>3, <1>4 DEF alone

LEMMA ComesRead ==
    ASSUME NEW type \in DOMAIN Constructor, NEW correlation \in Int, NEW body \in Wires,
           Object(Constructor[type])[body].how = "read"
    PROVE  LET r == Answer(type, correlation, body)
           IN  /\ r.total_size_ = 4 + ByteCount(body)
               /\ Agree(Constructor[type], r, Object(Constructor[type])[body].value)
               /\ type = "Fetch" /\ r.topic_partitions_ = <<>> =>
                    ComesOf(type, correlation, body) = "overread"
               /\ SizesEqual(type, r) /\ ~(type = "Fetch" /\ r.topic_partitions_ = <<>>) =>
                    /\ ComesOf(type, correlation, body) \in {"response", "overread"}
                    /\ Content(type, r) # <<>> => ComesOf(type, correlation, body) = "response"
               /\ type = "Metadata" /\ Content(type, r) # <<>> =>
                    ComesOf(type, correlation, body) \in {"response", "error"}
<1> DEFINE wire == AnswerWire(correlation, body)
           all == Read(type, wire)
           alone == Object(Constructor[type])[body]
           r == Answer(type, correlation, body)
<1>1. 4 + ByteCount(body) \in Int
  BY BytesType
<1>2. all.how = "read" /\ all.value.total_size_ = 4 + ByteCount(body)
      /\ Agree(Constructor[type], all.value, alone.value)
  <2>1. \/ /\ alone.how = "read" /\ all.how = "read"
           /\ all.value.total_size_ = 4 + ByteCount(body)
           /\ Agree(Constructor[type], all.value, alone.value)
        \/ alone.how # "read" /\ all = alone
    <3> HIDE DEF alone
    <3> QED BY <1>1, HeadThen DEF AnswerWire, alone
  <2> QED BY <2>1
<1>3. r = all.value
  BY DEF Answer
<1>4. ComesOf(type, correlation, body) = Comes(type, wire)
  BY DEF ComesOf
<1>5. Parse(type, wire) = IF type = "Fetch" /\ r.topic_partitions_ = <<>> THEN "overread"
                          ELSE IF SizesEqual(type, r) THEN "response"
                          ELSE IF type = "Metadata" THEN "error" ELSE "terminate"
  <2> HIDE DEF wire, r
  <2> QED BY <1>2, <1>3 DEF Parse
<1>6. Comes(type, wire) = IF Parse(type, wire) = "response" /\ Content(type, r) = <<>>
                          THEN "overread" ELSE Parse(type, wire)
  <2> HIDE DEF wire, r
  <2> QED BY <1>3 DEF Comes
<1> HIDE DEF wire, r, alone
<1> QED BY <1>2, <1>3, <1>4, <1>5, <1>6 DEF alone, r

(* Of the class of a response: how it compares its size, and what it is    *)
(* asked for. *)
LEMMA SizesCompared ==
    ASSUME NEW type, NEW r
    PROVE  /\ type = "GroupCoordinator" =>
                (SizesEqual(type, r) <=> r.total_size_ = GroupCoordinatorResponseSize(r))
           /\ type = "Metadata" => (SizesEqual(type, r) <=> r.total_size_ = MetadataResponseSize(r))
           /\ type = "JoinGroup" => (SizesEqual(type, r) <=> r.total_size_ = JoinGroupResponseSize(r))
           /\ type = "SyncGroup" => (SizesEqual(type, r) <=> r.total_size_ = SyncGroupResponseSize(r))
           /\ type = "OffsetFetch" => (SizesEqual(type, r) <=> r.total_size_ = OffsetFetchResponseSize(r))
           /\ type = "Offset" => (SizesEqual(type, r) <=> r.total_size_ = OffsetResponseSize(r))
           /\ type = "OffsetCommit" => (SizesEqual(type, r) <=> r.total_size_ = OffsetCommitResponseSize(r))
           /\ type = "Fetch" => (SizesEqual(type, r) <=> r.total_size_ = FetchResponseSize(r))
           /\ type = "Heartbeat" => SizesEqual(type, r)
BY Zenon DEF SizesEqual

LEMMA Contents ==
    ASSUME NEW type, NEW r
    PROVE  /\ type = "Metadata" =>
                Content(type, r) = IF ParseBrokers(r) = {} THEN <<{}>> ELSE ParsePartitions(r)
           /\ type = "GroupCoordinator" => Content(type, r) = <<GetCoordinatorId(r)>>
           /\ type = "JoinGroup" => Content(type, r) = <<IsGroupLeader(r), GetAllMembers(r)>>
           /\ type = "SyncGroup" => Content(type, r) = AssignedTo(r)
           /\ type = "OffsetFetch" => Content(type, r) = <<OffsetFetchErrorCode(r), ParseOffset(r)>>
           /\ type = "Offset" => Content(type, r) = GetNewOffset(r)
           /\ type = "OffsetCommit" => Content(type, r) = OffsetCommitErrorCode(r)
           /\ type = "Heartbeat" => Content(type, r) = <<HeartbeatErrorCode(r)>>
           /\ type = "Fetch" => Content(type, r) = MessageSets(r)
BY Zenon DEF Content

(* A response that has been read whole: its size and its values. *)
IsAnswer(type, correlation, body, values, bytes) ==
    LET c == Constructor[type]
        r == Answer(type, correlation, body)
    IN  /\ Takes(body, bytes)
        /\ Object(c)[body].how = "read"
        /\ r.total_size_ = 4 + bytes
        /\ \A i \in DOMAIN c : r[c[i].name] = values[i]

LEMMA AnswersAre ==
    ASSUME NEW type \in DOMAIN Constructor, NEW correlation \in Int,
           NEW body, NEW bytes, Takes(body, bytes), NEW values,
           \E n \in Nat : /\ DOMAIN Constructor[type] = 1 .. n
                          /\ ReadsFirst(ReadersOf(Constructor[type]), n, body, values)
    PROVE  IsAnswer(type, correlation, body, values, bytes)
<1> DEFINE c == Constructor[type]
           r == Answer(type, correlation, body)
           value == Named(c, values)
<1>1. PICK n \in Nat : DOMAIN c = 1 .. n /\ ReadsFirst(ReadersOf(c), n, body, values)
  OBVIOUS
<1>2. body \in Wires /\ ByteCount(body) = bytes
  BY DEF Takes
<1>3. Distinct(ResponseHead, c)
  BY AllBehind DEF BehindHead
<1>4. Object(c)[body] = Got(value, <<>>)
  <2> HIDE DEF c, value
  <2>1. Reads(Object(c), body, value)
    BY <1>1, ObjectReads DEF value
  <2>2. Object(c)[body \o <<>>] = Got(value, <<>>)
    BY <2>1, BytesOfNone DEF Reads
  <2> QED BY <1>2, <2>2, ConcatEmptySeq
<1>5. Object(c)[body].how = "read" /\ Object(c)[body].value = value
  BY <1>4 DEF Got
<1>6. r.total_size_ = 4 + ByteCount(body) /\ Agree(c, r, Object(c)[body].value)
  BY <1>2, <1>5, ComesRead
<1>7. ASSUME NEW i \in DOMAIN c PROVE r[c[i].name] = values[i]
  <2> HIDE DEF c, r
  <2>1. Unique(c, i)
    BY <1>3 DEF Unique, Distinct
  <2>2. value[c[i].name] = values[i]
    BY <2>1, NamedIs
  <2> QED BY <1>5, <1>6, <2>2 DEF Agree
<1> QED BY <1>2, <1>5, <1>6, <1>7 DEF IsAnswer

LEMMA AnswersCome ==
    ASSUME NEW type \in DOMAIN Constructor, NEW correlation \in Int,
           NEW body, NEW bytes, NEW values, IsAnswer(type, correlation, body, values, bytes)
    PROVE  LET r == Answer(type, correlation, body)
           IN  /\ type = "Fetch" /\ r.topic_partitions_ = <<>> =>
                    ComesOf(type, correlation, body) = "overread"
               /\ SizesEqual(type, r) /\ ~(type = "Fetch" /\ r.topic_partitions_ = <<>>) =>
                    /\ ComesOf(type, correlation, body) \in {"response", "overread"}
                    /\ Content(type, r) # <<>> => ComesOf(type, correlation, body) = "response"
               /\ type = "Metadata" /\ Content(type, r) # <<>> =>
                    ComesOf(type, correlation, body) \in {"response", "error"}
<1>1. body \in Wires /\ Object(Constructor[type])[body].how = "read"
  BY DEF IsAnswer, Takes
<1> QED BY <1>1, ComesRead

-----------------------------------------------------------------------------
(* What a reader gets of a wire, and the bytes it has then read. *)
Gets(reader, wire, value, bytes) == Reads(reader, wire, value) /\ Takes(wire, bytes)

LEMMA NumbersGot ==
    \A number \in Int : /\ Gets(Number(2), Int16(number), number, 2)
                        /\ Gets(Number(4), Int32(number), number, 4)
                        /\ Gets(Number(8), Int64(number), number, 8)
BY IntsRead, IntsTake DEF Gets

LEMMA StringsGot == \A length \in Nat : Gets(Characters(2), String(length), length, 2 + length)
BY StringReads, StringTakes DEF Gets

LEMMA BytesGot ==
    \A length \in Nat :
        Gets(Characters(4), Int32(length) \o Field(length, length), length, 4 + length)
<1> SUFFICES ASSUME NEW length \in Nat
             PROVE  Gets(Characters(4), Int32(length) \o Field(length, length), length, 4 + length)
  OBVIOUS
<1>1. 4 \in Nat \ {0} /\ length \in Int
  OBVIOUS
<1>2. Reads(Characters(4), Int32(length) \o Field(length, length), length)
  BY <1>1, CharactersRead DEF Int32
<1>3. Takes(Int32(length), 4) /\ Takes(Field(length, length), length)
  BY <1>1, IntsTake, FieldTakes
<1> QED BY <1>2, <1>3, BothTake DEF Gets

LEMMA ElementsGot ==
    ASSUME NEW n \in Nat, NEW reader, NEW wires, NEW values, NEW sizes,
           DOMAIN wires = 1 .. n, DOMAIN values = 1 .. n,
           wires = [i \in 1 .. n |-> wires[i]], values = [i \in 1 .. n |-> values[i]],
           \A i \in 1 .. n : Gets(reader, wires[i], values[i], sizes[i])
    PROVE  Gets(Elements(reader), Int32(n) \o FlattenSeq(wires), values, 4 + SumOfFirst(sizes, n))
<1> DEFINE S == {values[i] : i \in 1 .. n}
<1>1. \A i \in 1 .. n : wires[i] \in Wires
  BY DEF Gets, Takes
<1>2. wires \in Seq(Wires) /\ Len(wires) = n
  BY <1>1
<1>3. values \in Seq(S) /\ Len(values) = n
  OBVIOUS
<1> HIDE DEF S
<1>4. Reads(Elements(reader), Int32(n) \o FlattenSeq(wires), values)
  <2>1. \A i \in 1 .. n : Reads(reader, wires[i], values[i])
    BY DEF Gets
  <2> QED BY <1>2, <1>3, <2>1, ElementsRead
<1>5. Takes(Int32(n) \o FlattenSeq(wires), 4 + SumOfFirst(sizes, n))
  <2>1. \A i \in 1 .. n : Takes(wires[i], sizes[i])
    BY DEF Gets
  <2> QED BY <1>2, <2>1, ElementsTake
<1> QED BY <1>4, <1>5 DEF Gets

LEMMA OneGot ==
    ASSUME NEW reader, NEW wire, NEW value, NEW bytes, Gets(reader, wire, value, bytes)
    PROVE  Gets(Elements(reader), Int32(1) \o FlattenSeq(<<wire>>), <<value>>, 4 + bytes)
BY OneElementReads, OneTakes DEF Gets

-----------------------------------------------------------------------------
LEMMA HeartbeatAnswered ==
    ASSUME NEW correlation \in Int, NEW error \in Int
    PROVE  ComesOf("Heartbeat", correlation, Int16(error)) = "response"
<1> DEFINE r == Answer("Heartbeat", correlation, Int16(error))
           readers == ReadersOf(HeartbeatResponse)
<1>1. DOMAIN HeartbeatResponse = 1 .. 1 /\ readers[1] = Number(2)
  BY DEF HeartbeatResponse, Read16, Item, ReadersOf
<1>2. Gets(Number(2), Int16(error), error, 2)
  BY NumbersGot
<1> HIDE DEF readers
<1>3. ReadsFirst(readers, 1, Int16(error), <<error>>)
  BY <1>1, <1>2, FirstOne DEF Gets
<1>4. IsAnswer("Heartbeat", correlation, Int16(error), <<error>>, 2)
  <2>1. "Heartbeat" \in DOMAIN Constructor /\ Constructor["Heartbeat"] = HeartbeatResponse /\ 1 \in Nat
    BY DEF Constructor
  <2> QED BY <2>1, <1>1, <1>2, <1>3, AnswersAre DEF Gets, readers
<1>5. SizesEqual("Heartbeat", r) /\ Content("Heartbeat", r) # <<>>
  BY SizesCompared, Contents
<1>6. "Heartbeat" \in DOMAIN Constructor
  BY DEF Constructor
<1> QED BY <1>4, <1>5, <1>6, AnswersCome

LEMMA GroupCoordinatorAnswered ==
    ASSUME NEW correlation \in Int, NEW error \in Int, NEW id \in Int, NEW host \in Nat,
           NEW port \in Int
    PROVE  ComesOf("GroupCoordinator", correlation,
                   ((Int16(error) \o Int32(id)) \o String(host)) \o Int32(port)) = "response"
<1> DEFINE c == GroupCoordinatorResponse
           body == ((Int16(error) \o Int32(id)) \o String(host)) \o Int32(port)
           r == Answer("GroupCoordinator", correlation, body)
           readers == ReadersOf(c)
           values == <<error, id, host, port>>
           bytes == ((2 + 4) + (2 + host)) + 4
<1>1. DOMAIN c = 1 .. 4 /\ readers[1] = Number(2) /\ readers[2] = Number(4)
      /\ readers[3] = Characters(2) /\ readers[4] = Number(4) /\ c[3].name = "coordinator_host_"
  BY DEF GroupCoordinatorResponse, Read16, Read32, Text, Item, ReadersOf
<1>2. Gets(Number(2), Int16(error), error, 2) /\ Gets(Number(4), Int32(id), id, 4)
      /\ Gets(Characters(2), String(host), host, 2 + host) /\ Gets(Number(4), Int32(port), port, 4)
  BY NumbersGot, StringsGot
<1>3. ReadsFirst(readers, 4, body, values)
  <2> HIDE DEF readers
  <2> QED BY <1>1, <1>2, FirstFour DEF Gets
<1>4. Takes(body, bytes)
  BY <1>2, BothTake DEF Gets
<1>5. "GroupCoordinator" \in DOMAIN Constructor /\ Constructor["GroupCoordinator"] = c /\ 4 \in Nat
  BY DEF Constructor
<1>6. values[3] = host
  OBVIOUS
<1> HIDE DEF body, values, c
<1>7. IsAnswer("GroupCoordinator", correlation, body, values, bytes)
  <2> HIDE DEF bytes
  <2> QED BY <1>1, <1>3, <1>4, <1>5, AnswersAre DEF readers
<1>8. r.total_size_ = 4 + bytes /\ r.coordinator_host_ = host
  <2>1. 3 \in DOMAIN c
    BY <1>1
  <2> QED BY <1>1, <1>5, <1>6, <1>7, <2>1 DEF IsAnswer
<1>9. GroupCoordinatorResponseSize(r) = 4 + bytes
  BY <1>8 DEF GroupCoordinatorResponseSize, ResponseSize
<1> HIDE DEF bytes
<1>10. SizesEqual("GroupCoordinator", r)
  BY <1>8, <1>9, SizesCompared
<1>11. Content("GroupCoordinator", r) # <<>>
  BY Contents
<1>12. ComesOf("GroupCoordinator", correlation, body) = "response"
  BY <1>5, <1>7, <1>10, <1>11, AnswersCome
<1> QED BY <1>12 DEF body

-----------------------------------------------------------------------------
(* The entries of the answers. *)
LEMMA PartitionOffsetMENamed ==
    ASSUME NEW a, NEW b, NEW c, NEW d
    PROVE  Named(PartitionOffsetME, <<a, b, c, d>>)
             = [partition_ |-> a, offset_ |-> b, metadata_ |-> c, error_code_ |-> d]
BY DEF Named, PartitionOffsetME, Read32, Read64, Text, Read16, Item

LEMMA PartitionOffsetMEGot ==
    ASSUME NEW partition \in Int, NEW offset \in Int, NEW metadata \in Nat, NEW error \in Int
    PROVE  Gets(Object(PartitionOffsetME), ((Int32(partition) \o Int64(offset)) \o String(metadata)) \o Int16(error),
                [partition_ |-> partition, offset_ |-> offset, metadata_ |-> metadata, error_code_ |-> error], ((4 + 8) + (2 + metadata)) + 2)
<1> DEFINE readers == ReadersOf(PartitionOffsetME)
           wire == ((Int32(partition) \o Int64(offset)) \o String(metadata)) \o Int16(error)
           values == <<partition, offset, metadata, error>>
           bytes == ((4 + 8) + (2 + metadata)) + 2
<1>1. DOMAIN PartitionOffsetME = 1 .. 4 /\ readers[1] = Number(4) /\ readers[2] = Number(8) /\ readers[3] = Characters(2) /\ readers[4] = Number(2) /\ 4 \in Nat
  BY DEF PartitionOffsetME, Read32, Read64, Text, Read16, Item, ReadersOf
<1>2. /\ Gets(Number(4), Int32(partition), partition, 4)
      /\ Gets(Number(8), Int64(offset), offset, 8)
      /\ Gets(Characters(2), String(metadata), metadata, 2 + metadata)
      /\ Gets(Number(2), Int16(error), error, 2)
  BY NumbersGot, StringsGot, BytesGot
<1> HIDE DEF readers
<1>3. ReadsFirst(readers, 4, wire, values)
  BY <1>1, <1>2, FirstFour DEF Gets
<1>4. Takes(wire, bytes)
  BY <1>2, BothTake DEF Gets
<1>5. Named(PartitionOffsetME, values) = [partition_ |-> partition, offset_ |-> offset, metadata_ |-> metadata, error_code_ |-> error]
  BY PartitionOffsetMENamed
<1> HIDE DEF wire, values, bytes
<1>6. Reads(Object(PartitionOffsetME), wire, [partition_ |-> partition, offset_ |-> offset, metadata_ |-> metadata, error_code_ |-> error])
  BY <1>1, <1>3, <1>5, ObjectReads DEF readers
<1> QED BY <1>4, <1>6 DEF Gets, wire, bytes

LEMMA PartitionENamed ==
    ASSUME NEW a, NEW b
    PROVE  Named(PartitionE, <<a, b>>)
             = [partition_ |-> a, error_code_ |-> b]
BY DEF Named, PartitionE, Read32, Read16, Item

LEMMA PartitionEGot ==
    ASSUME NEW partition \in Int, NEW error \in Int
    PROVE  Gets(Object(PartitionE), Int32(partition) \o Int16(error),
                [partition_ |-> partition, error_code_ |-> error], 4 + 2)
<1> DEFINE readers == ReadersOf(PartitionE)
           wire == Int32(partition) \o Int16(error)
           values == <<partition, error>>
           bytes == 4 + 2
<1>1. DOMAIN PartitionE = 1 .. 2 /\ readers[1] = Number(4) /\ readers[2] = Number(2) /\ 2 \in Nat
  BY DEF PartitionE, Read32, Read16, Item, ReadersOf
<1>2. /\ Gets(Number(4), Int32(partition), partition, 4)
      /\ Gets(Number(2), Int16(error), error, 2)
  BY NumbersGot, StringsGot, BytesGot
<1> HIDE DEF readers
<1>3. ReadsFirst(readers, 2, wire, values)
  BY <1>1, <1>2, FirstTwo DEF Gets
<1>4. Takes(wire, bytes)
  BY <1>2, BothTake DEF Gets
<1>5. Named(PartitionE, values) = [partition_ |-> partition, error_code_ |-> error]
  BY PartitionENamed
<1> HIDE DEF wire, values, bytes
<1>6. Reads(Object(PartitionE), wire, [partition_ |-> partition, error_code_ |-> error])
  BY <1>1, <1>3, <1>5, ObjectReads DEF readers
<1> QED BY <1>4, <1>6 DEF Gets, wire, bytes

LEMMA PartitionInfoNamed ==
    ASSUME NEW a, NEW b, NEW c, NEW d
    PROVE  Named(PartitionInfo, <<a, b, c, d>>)
             = [partition_ |-> a, error_code_ |-> b, high_water_mark_offset_ |-> c, message_set_ |-> d]
BY DEF Named, PartitionInfo, Read32, Read16, Read64, Bytes, Item

LEMMA PartitionInfoGot ==
    ASSUME NEW partition \in Int, NEW error \in Int, NEW mark \in Int, NEW size \in Nat
    PROVE  Gets(Object(PartitionInfo), ((Int32(partition) \o Int16(error)) \o Int64(mark)) \o (Int32(size) \o Field(size, size)),
                [partition_ |-> partition, error_code_ |-> error, high_water_mark_offset_ |-> mark, message_set_ |-> size], ((4 + 2) + 8) + (4 + size))
<1> DEFINE readers == ReadersOf(PartitionInfo)
           wire == ((Int32(partition) \o Int16(error)) \o Int64(mark)) \o (Int32(size) \o Field(size, size))
           values == <<partition, error, mark, size>>
           bytes == ((4 + 2) + 8) + (4 + size)
<1>1. DOMAIN PartitionInfo = 1 .. 4 /\ readers[1] = Number(4) /\ readers[2] = Number(2) /\ readers[3] = Number(8) /\ readers[4] = Characters(4) /\ 4 \in Nat
  BY DEF PartitionInfo, Read32, Read16, Read64, Bytes, Item, ReadersOf
<1>2. /\ Gets(Number(4), Int32(partition), partition, 4)
      /\ Gets(Number(2), Int16(error), error, 2)
      /\ Gets(Number(8), Int64(mark), mark, 8)
      /\ Gets(Characters(4), (Int32(size) \o Field(size, size)), size, 4 + size)
  BY NumbersGot, StringsGot, BytesGot
<1> HIDE DEF readers
<1>3. ReadsFirst(readers, 4, wire, values)
  BY <1>1, <1>2, FirstFour DEF Gets
<1>4. Takes(wire, bytes)
  BY <1>2, BothTake DEF Gets
<1>5. Named(PartitionInfo, values) = [partition_ |-> partition, error_code_ |-> error, high_water_mark_offset_ |-> mark, message_set_ |-> size]
  BY PartitionInfoNamed
<1> HIDE DEF wire, values, bytes
<1>6. Reads(Object(PartitionInfo), wire, [partition_ |-> partition, error_code_ |-> error, high_water_mark_offset_ |-> mark, message_set_ |-> size])
  BY <1>1, <1>3, <1>5, ObjectReads DEF readers
<1> QED BY <1>4, <1>6 DEF Gets, wire, bytes

LEMMA MemberNamed ==
    ASSUME NEW a, NEW b
    PROVE  Named(Member, <<a, b>>)
             = [member_id_ |-> a, member_metadata_ |-> b]
BY DEF Named, Member, Text, Bytes, Item

LEMMA MemberGot ==
    ASSUME NEW member \in Nat, NEW metadata \in Nat
    PROVE  Gets(Object(Member), String(member) \o (Int32(metadata) \o Field(metadata, metadata)),
                [member_id_ |-> member, member_metadata_ |-> metadata], (2 + member) + (4 + metadata))
<1> DEFINE readers == ReadersOf(Member)
           wire == String(member) \o (Int32(metadata) \o Field(metadata, metadata))
           values == <<member, metadata>>
           bytes == (2 + member) + (4 + metadata)
<1>1. DOMAIN Member = 1 .. 2 /\ readers[1] = Characters(2) /\ readers[2] = Characters(4) /\ 2 \in Nat
  BY DEF Member, Text, Bytes, Item, ReadersOf
<1>2. /\ Gets(Characters(2), String(member), member, 2 + member)
      /\ Gets(Characters(4), (Int32(metadata) \o Field(metadata, metadata)), metadata, 4 + metadata)
  BY NumbersGot, StringsGot, BytesGot
<1> HIDE DEF readers
<1>3. ReadsFirst(readers, 2, wire, values)
  BY <1>1, <1>2, FirstTwo DEF Gets
<1>4. Takes(wire, bytes)
  BY <1>2, BothTake DEF Gets
<1>5. Named(Member, values) = [member_id_ |-> member, member_metadata_ |-> metadata]
  BY MemberNamed
<1> HIDE DEF wire, values, bytes
<1>6. Reads(Object(Member), wire, [member_id_ |-> member, member_metadata_ |-> metadata])
  BY <1>1, <1>3, <1>5, ObjectReads DEF readers
<1> QED BY <1>4, <1>6 DEF Gets, wire, bytes

LEMMA BrokerNamed ==
    ASSUME NEW a, NEW b, NEW c
    PROVE  Named(Broker, <<a, b, c>>)
             = [id_ |-> a, ip_ |-> b, port_ |-> c]
BY DEF Named, Broker, Read32, Text, Item

LEMMA BrokerGot ==
    ASSUME NEW id \in Int, NEW ip \in Nat, NEW port \in Int
    PROVE  Gets(Object(Broker), (Int32(id) \o String(ip)) \o Int32(port),
                [id_ |-> id, ip_ |-> ip, port_ |-> port], (4 + (2 + ip)) + 4)
<1> DEFINE readers == ReadersOf(Broker)
           wire == (Int32(id) \o String(ip)) \o Int32(port)
           values == <<id, ip, port>>
           bytes == (4 + (2 + ip)) + 4
<1>1. DOMAIN Broker = 1 .. 3 /\ readers[1] = Number(4) /\ readers[2] = Characters(2) /\ readers[3] = Number(4) /\ 3 \in Nat
  BY DEF Broker, Read32, Text, Item, ReadersOf
<1>2. /\ Gets(Number(4), Int32(id), id, 4)
      /\ Gets(Characters(2), String(ip), ip, 2 + ip)
      /\ Gets(Number(4), Int32(port), port, 4)
  BY NumbersGot, StringsGot, BytesGot
<1> HIDE DEF readers
<1>3. ReadsFirst(readers, 3, wire, values)
  BY <1>1, <1>2, FirstThree DEF Gets
<1>4. Takes(wire, bytes)
  BY <1>2, BothTake DEF Gets
<1>5. Named(Broker, values) = [id_ |-> id, ip_ |-> ip, port_ |-> port]
  BY BrokerNamed
<1> HIDE DEF wire, values, bytes
<1>6. Reads(Object(Broker), wire, [id_ |-> id, ip_ |-> ip, port_ |-> port])
  BY <1>1, <1>3, <1>5, ObjectReads DEF readers
<1> QED BY <1>4, <1>6 DEF Gets, wire, bytes


LEMMA FlattenOne == \A wire : FlattenSeq(<<wire>>) = wire
<1> SUFFICES ASSUME NEW wire PROVE FlattenSeq(<<wire>>) = wire
  OBVIOUS
<1> DEFINE wires == <<wire>>
           flatten == CHOOSE flat : FlattensTo(wires, 1, flat)
<1>1. wires # <<>> /\ Len(wires) = 1 /\ wires[1] = wire /\ 1 \in 1 .. 1
  OBVIOUS
<1>2. FlattensTo(wires, 1, flatten)
  BY FlattenExists
<1> HIDE DEF wires
<1>3. FlattenSeq(wires) = flatten[1]
  BY <1>1 DEF FlattenSeq, FlattensTo
<1> HIDE DEF flatten
<1>4. flatten[1] = wires[1]
  BY <1>2, <1>1 DEF FlattensTo
<1> QED BY <1>1, <1>3, <1>4 DEF wires

(* A topic with its entries. *)
LEMMA TopicGot ==
    ASSUME NEW format, DOMAIN format = 1 .. 2, ReadersOf(format)[1] = Characters(2),
           NEW array, NEW entries, NEW bytes,
           Gets(ReadersOf(format)[2], array, entries, bytes)
    PROVE  Gets(Object(format), String(Topic) \o array, Named(format, <<Topic, entries>>),
                (2 + Topic) + bytes)
<1>1. Gets(Characters(2), String(Topic), Topic, 2 + Topic)
  BY StringsGot, NamesAssumption
<1>2. ReadsFirst(ReadersOf(format), 2, String(Topic) \o array, <<Topic, entries>>)
  BY <1>1, FirstTwo DEF Gets
<1>3. Reads(Object(format), String(Topic) \o array, Named(format, <<Topic, entries>>))
  <2>1. 2 \in Nat
    OBVIOUS
  <2> QED BY <1>2, <2>1, ObjectReads
<1> QED BY <1>1, <1>3, BothTake DEF Gets

LEMMA TopicPartitionENamed ==
    ASSUME NEW a, NEW b
    PROVE  Named(TopicPartitionE, <<a, b>>) = [topic_ |-> a, partitions_ |-> b]
BY DEF Named, TopicPartitionE, Text, Many, Item

LEMMA TopicPartitionInfoNamed ==
    ASSUME NEW a, NEW b
    PROVE  Named(TopicPartitionInfo, <<a, b>>) = [topic_ |-> a, partitions_info_ |-> b]
BY DEF Named, TopicPartitionInfo, Text, Many, Item

LEMMA TopicPartitionORNamed ==
    ASSUME NEW a, NEW b
    PROVE  Named(TopicPartitionOR, <<a, b>>) = [topic_ |-> a, partition_offset_array_ |-> b]
BY DEF Named, TopicPartitionOR, Text, Many, Item

LEMMA SumOne == \A f : f[1] \in Int => SumOfFirst(f, 1) = f[1]
<1> SUFFICES ASSUME NEW f, f[1] \in Int PROVE SumOfFirst(f, 1) = f[1]
  OBVIOUS
<1>1. SumOfFirst(f, 0) = 0 /\ SumOfFirst(f, 0 + 1) = SumOfFirst(f, 0) + f[0 + 1]
  BY SumOfFirstNext
<1> QED BY <1>1

(* The entries an answer is about: those of the request. *)
About(parts, n) ==
    /\ DOMAIN parts = 1 .. n /\ Len(parts) = n /\ parts # <<>>
    /\ n \in Nat /\ \A i \in 1 .. n : parts[i].partition_ \in Int

CommitsAnswered(parts, error) == ByTopic(parts, LAMBDA p : Int32(p.partition_) \o Int16(error))

LEMMA OffsetCommitAnswered ==
    ASSUME NEW correlation \in Int, NEW error \in Int, NEW parts, NEW n, About(parts, n)
    PROVE  ComesOf("OffsetCommit", correlation,
                   CommitsAnswered(parts, error)) = "response"
<1> DEFINE wires == [i \in 1 .. n |-> Int32(parts[i].partition_) \o Int16(error)]
           values == [i \in 1 .. n |-> [partition_ |-> parts[i].partition_, error_code_ |-> error]]
           sizes == [i \in 1 .. n |-> PartitionESize(values[i])]
           array == Int32(n) \o FlattenSeq(wires)
           topic == [topic_ |-> Topic, partitions_ |-> values]
           body == Int32(1) \o FlattenSeq(<<String(Topic) \o array>>)
           c == OffsetCommitResponse
           r == Answer("OffsetCommit", correlation, body)
           sum == SumOfFirst(sizes, n)
           bytes == 4 + ((2 + Topic) + (4 + sum))
<1>1. CommitsAnswered(parts, error) = body
  <2> DEFINE topics == IF parts = <<>> THEN <<>> ELSE <<Topic>>
             all == Int32(Len(parts)) \o FlattenSeq([i \in DOMAIN parts |-> Int32(parts[i].partition_) \o Int16(error)])
  <2>1. CommitsAnswered(parts, error)
          = Int32(Len(topics)) \o FlattenSeq([i \in DOMAIN topics |-> String(topics[i]) \o all])
    BY DEF CommitsAnswered, ByTopic, Array
  <2>2. topics = <<Topic>> /\ all = array
    BY DEF About
  <2> HIDE DEF topics, all, array
  <2>3. Len(<<Topic>>) = 1
        /\ [i \in DOMAIN <<Topic>> |-> String(<<Topic>>[i]) \o all] = <<String(Topic) \o all>>
    OBVIOUS
  <2> QED BY <2>1, <2>2, <2>3
<1>2. ASSUME NEW i \in 1 .. n PROVE Gets(Object(PartitionE), wires[i], values[i], sizes[i])
  <2> DEFINE partition == parts[i].partition_
             p == [partition_ |-> partition, error_code_ |-> error]
  <2>1. partition \in Int
    BY DEF About
  <2>2. wires[i] = Int32(partition) \o Int16(error) /\ values[i] = p /\ sizes[i] = 4 + 2
    BY DEF PartitionESize
  <2> HIDE DEF partition, wires, values, sizes
  <2>3. Gets(Object(PartitionE), Int32(partition) \o Int16(error), p, 4 + 2)
    BY <2>1, PartitionEGot
  <2> QED BY <2>2, <2>3
<1>3. Gets(Elements(Object(PartitionE)), array, values, 4 + sum)
  <2>1. n \in Nat /\ DOMAIN wires = 1 .. n /\ DOMAIN values = 1 .. n
        /\ wires = [i \in 1 .. n |-> wires[i]] /\ values = [i \in 1 .. n |-> values[i]]
    BY DEF About
  <2> HIDE DEF wires, values, sizes
  <2> QED BY <1>2, <2>1, ElementsGot
<1>4. SumOf(values, PartitionESize) = sum /\ sum \in Int
  <2>1. Len(values) = n /\ DOMAIN values = 1 .. n
    BY DEF About
  <2>2. SumOf(values, PartitionESize) = sum
    BY <2>1 DEF SumOf
  <2>3. \A i \in 1 .. n : sizes[i] = 6
    BY DEF PartitionESize
  <2>4. n \in Nat /\ 6 \in Nat /\ n * 6 \in Int
    BY DEF About
  <2> HIDE DEF sizes
  <2>5. sum = n * 6
    BY <2>3, <2>4, SumOfEqual
  <2> QED BY <2>2, <2>4, <2>5
<1>5. /\ DOMAIN TopicPartitionE = 1 .. 2 /\ ReadersOf(TopicPartitionE)[1] = Characters(2)
      /\ ReadersOf(TopicPartitionE)[2] = Elements(Object(PartitionE))
      /\ DOMAIN c = 1 .. 1 /\ ReadersOf(c)[1] = Elements(Object(TopicPartitionE))
      /\ c[1].name = "topic_partitions_"
  BY DEF TopicPartitionE, OffsetCommitResponse, Text, Many, Item, ReadersOf
<1> HIDE DEF values
<1>6. Named(TopicPartitionE, <<Topic, values>>) = topic
  BY TopicPartitionENamed
<1> HIDE DEF array, sum, topic
<1>7. Gets(Object(TopicPartitionE), String(Topic) \o array, topic, (2 + Topic) + (4 + sum))
  BY <1>3, <1>5, <1>6, TopicGot
<1>8. Gets(Elements(Object(TopicPartitionE)), body, <<topic>>, bytes)
  BY <1>7, OneGot
<1> HIDE DEF body, bytes
<1>9. ReadsFirst(ReadersOf(c), 1, body, << <<topic>> >>)
  BY <1>5, <1>8, FirstOne DEF Gets
<1>10. "OffsetCommit" \in DOMAIN Constructor /\ Constructor["OffsetCommit"] = c /\ 1 \in Nat
  BY DEF Constructor
<1> HIDE DEF c
<1>11. IsAnswer("OffsetCommit", correlation, body, << <<topic>> >>, bytes)
  BY <1>5, <1>8, <1>9, <1>10, AnswersAre DEF Gets
<1>12. r.total_size_ = 4 + bytes /\ r.topic_partitions_ = <<topic>>
  <2>1. 1 \in DOMAIN c /\ << <<topic>> >>[1] = <<topic>>
    BY <1>5
  <2> QED BY <1>5, <1>10, <1>11, <2>1 DEF IsAnswer
<1>13. OffsetCommitResponseSize(r) = 4 + bytes
  <2>1. TopicPartitionESize(topic) = 2 + Topic + 4 + sum
    BY <1>4 DEF TopicPartitionESize, topic
  <2>2. SumOf(<<topic>>, TopicPartitionESize) = TopicPartitionESize(topic)
    <3> DEFINE f == [i \in DOMAIN <<topic>> |-> TopicPartitionESize(<<topic>>[i])]
    <3>1. SumOf(<<topic>>, TopicPartitionESize) = SumOfFirst(f, 1) /\ f[1] = TopicPartitionESize(topic)
      BY DEF SumOf
    <3> HIDE DEF f
    <3> QED BY <1>4, <2>1, <3>1, SumOne, NamesAssumption
  <2> QED BY <1>4, <1>12, <2>1, <2>2, NamesAssumption DEF OffsetCommitResponseSize, ResponseSize, bytes
<1>14. SizesEqual("OffsetCommit", r)
  BY <1>12, <1>13, SizesCompared
<1>15. Content("OffsetCommit", r) # <<>>
  <2>1. FirstOf(r.topic_partitions_, "partitions_") = << topic.partitions_ >>
    BY <1>12 DEF FirstOf
  <2>2. OffsetCommitErrorCode(r) # <<>>
    BY <2>1 DEF OffsetCommitErrorCode
  <2> QED BY <2>2, Contents
<1>16. ComesOf("OffsetCommit", correlation, body) = "response"
  BY <1>10, <1>11, <1>14, <1>15, AnswersCome
<1> QED BY <1>1, <1>16

SetsAnswered(parts, error, size) ==
    ByTopic(parts, LAMBDA p :
        Int32(p.partition_) \o Int16(error) \o Int64(100) \o Int32(size) \o Field(size, size))

LEMMA FetchAnswered ==
    ASSUME NEW correlation \in Int, NEW error \in Int, NEW size \in Nat, NEW parts, NEW n,
           About(parts, n)
    PROVE  ComesOf("Fetch", correlation,
                   Int32(0) \o SetsAnswered(parts, error, size)) = "response"
<1> DEFINE wires == [i \in 1 .. n |-> Int32(parts[i].partition_) \o Int16(error) \o Int64(100) \o Int32(size) \o Field(size, size)]
           values == [i \in 1 .. n |->
                        [partition_ |-> parts[i].partition_, error_code_ |-> error,
                         high_water_mark_offset_ |-> 100, message_set_ |-> size]]
           sizes == [i \in 1 .. n |-> PartitionInfoSize(values[i])]
           array == Int32(n) \o FlattenSeq(wires)
           topic == [topic_ |-> Topic, partitions_info_ |-> values]
           rest == Int32(1) \o FlattenSeq(<<String(Topic) \o array>>)
           body == Int32(0) \o rest
           c == FetchResponse
           r == Answer("Fetch", correlation, body)
           sum == SumOfFirst(sizes, n)
           bytes == 4 + (4 + ((2 + Topic) + (4 + sum)))
<1>1. SetsAnswered(parts, error, size) = rest
  <2> DEFINE topics == IF parts = <<>> THEN <<>> ELSE <<Topic>>
             all == Int32(Len(parts)) \o FlattenSeq([i \in DOMAIN parts |-> Int32(parts[i].partition_) \o Int16(error) \o Int64(100) \o Int32(size) \o Field(size, size)])
  <2>1. SetsAnswered(parts, error, size)
          = Int32(Len(topics)) \o FlattenSeq([i \in DOMAIN topics |-> String(topics[i]) \o all])
    BY DEF SetsAnswered, ByTopic, Array
  <2>2. topics = <<Topic>> /\ all = array
    BY DEF About
  <2> HIDE DEF topics, all, array
  <2>3. Len(<<Topic>>) = 1
        /\ [i \in DOMAIN <<Topic>> |-> String(<<Topic>>[i]) \o all] = <<String(Topic) \o all>>
    OBVIOUS
  <2> QED BY <2>1, <2>2, <2>3
<1>2. ASSUME NEW i \in 1 .. n PROVE Gets(Object(PartitionInfo), wires[i], values[i], sizes[i])
  <2> DEFINE partition == parts[i].partition_
             p == [partition_ |-> partition, error_code_ |-> error,
                   high_water_mark_offset_ |-> 100, message_set_ |-> size]
             front == (Int32(partition) \o Int16(error)) \o Int64(100)
             count == Int32(size)
             characters == Field(size, size)
  <2>1. partition \in Int
    BY DEF About
  <2>2. wires[i] = (front \o count) \o characters /\ values[i] = p /\ sizes[i] = 4 + 2 + 8 + 4 + size
    BY DEF PartitionInfoSize
  <2> HIDE DEF partition, wires, values, sizes
  <2>3. Gets(Object(PartitionInfo), front \o (count \o characters), p, ((4 + 2) + 8) + (4 + size))
    <3>1. 100 \in Int
      OBVIOUS
    <3> QED BY <2>1, <3>1, PartitionInfoGot
  <2>4. (front \o count) \o characters = front \o (count \o characters)
    <3>1. front \in Wires /\ count \in Wires /\ characters \in Wires
      <4>1. Takes(Int32(partition), 4) /\ Takes(Int16(error), 2) /\ Takes(Int64(100), 8)
            /\ Takes(Int32(size), 4) /\ Takes(Field(size, size), size)
        BY <2>1, IntsTake, FieldTakes
      <4>2. Takes(front, (4 + 2) + 8)
        BY <4>1, BothTake
      <4> QED BY <4>1, <4>2 DEF Takes
    <3> HIDE DEF front, count, characters
    <3> QED BY <3>1, ConcatAssociative
  <2>5. 4 + 2 + 8 + 4 + size = ((4 + 2) + 8) + (4 + size)
    OBVIOUS
  <2> HIDE DEF front, count, characters, p
  <2> QED BY <2>2, <2>3, <2>4, <2>5
<1>3. Gets(Elements(Object(PartitionInfo)), array, values, 4 + sum)
  <2>1. n \in Nat /\ DOMAIN wires = 1 .. n /\ DOMAIN values = 1 .. n
        /\ wires = [i \in 1 .. n |-> wires[i]] /\ values = [i \in 1 .. n |-> values[i]]
    BY DEF About
  <2> HIDE DEF wires, values, sizes
  <2> QED BY <1>2, <2>1, ElementsGot
<1>4. SumOf(values, PartitionInfoSize) = sum /\ sum \in Int
  <2>1. Len(values) = n /\ DOMAIN values = 1 .. n
    BY DEF About
  <2>2. SumOf(values, PartitionInfoSize) = sum
    BY <2>1 DEF SumOf
  <2>3. \A i \in 1 .. n : sizes[i] = 18 + size
    BY DEF PartitionInfoSize
  <2>4. n \in Nat /\ 18 + size \in Nat /\ n * (18 + size) \in Int
    BY DEF About
  <2> HIDE DEF sizes
  <2>5. sum = n * (18 + size)
    BY <2>3, <2>4, SumOfEqual
  <2> QED BY <2>2, <2>4, <2>5
<1>5. /\ DOMAIN TopicPartitionInfo = 1 .. 2 /\ ReadersOf(TopicPartitionInfo)[1] = Characters(2)
      /\ ReadersOf(TopicPartitionInfo)[2] = Elements(Object(PartitionInfo))
      /\ DOMAIN c = 1 .. 2 /\ ReadersOf(c)[1] = Number(4)
      /\ ReadersOf(c)[2] = Elements(Object(TopicPartitionInfo))
      /\ c[2].name = "topic_partitions_"
  BY DEF TopicPartitionInfo, FetchResponse, Text, Read32, Many, Item, ReadersOf
<1> HIDE DEF values
<1>6. Named(TopicPartitionInfo, <<Topic, values>>) = topic
  BY TopicPartitionInfoNamed
<1> HIDE DEF array, sum, topic
<1>7. Gets(Object(TopicPartitionInfo), String(Topic) \o array, topic, (2 + Topic) + (4 + sum))
  BY <1>3, <1>5, <1>6, TopicGot
<1>8. Gets(Elements(Object(TopicPartitionInfo)), rest, <<topic>>, 4 + ((2 + Topic) + (4 + sum)))
  BY <1>7, OneGot
<1>9. Gets(Number(4), Int32(0), 0, 4)
  BY NumbersGot
<1>10. ReadsFirst(ReadersOf(c), 2, body, <<0, <<topic>> >>) /\ Takes(body, bytes)
  <2> HIDE DEF rest
  <2> QED BY <1>5, <1>8, <1>9, FirstTwo, BothTake DEF Gets
<1> HIDE DEF body, bytes
<1>11. "Fetch" \in DOMAIN Constructor /\ Constructor["Fetch"] = c /\ 2 \in Nat
  BY DEF Constructor
<1> HIDE DEF c
<1>12. IsAnswer("Fetch", correlation, body, <<0, <<topic>> >>, bytes)
  BY <1>5, <1>10, <1>11, AnswersAre
<1>13. r.total_size_ = 4 + bytes /\ r.topic_partitions_ = <<topic>>
  <2>1. 2 \in DOMAIN c /\ <<0, <<topic>> >>[2] = <<topic>>
    BY <1>5
  <2> QED BY <1>5, <1>11, <1>12, <2>1 DEF IsAnswer
<1>14. FetchResponseSize(r) = 4 + bytes
  <2>1. TopicPartitionInfoSize(topic) = 2 + Topic + 4 + sum
    BY <1>4 DEF TopicPartitionInfoSize, topic
  <2>2. SumOf(<<topic>>, TopicPartitionInfoSize) = TopicPartitionInfoSize(topic)
    <3> DEFINE f == [i \in DOMAIN <<topic>> |-> TopicPartitionInfoSize(<<topic>>[i])]
    <3>1. SumOf(<<topic>>, TopicPartitionInfoSize) = SumOfFirst(f, 1)
          /\ f[1] = TopicPartitionInfoSize(topic)
      BY DEF SumOf
    <3> HIDE DEF f
    <3> QED BY <1>4, <2>1, <3>1, SumOne, NamesAssumption
  <2> QED BY <1>4, <1>13, <2>1, <2>2, NamesAssumption DEF FetchResponseSize, ResponseSize, bytes
<1>15. SizesEqual("Fetch", r)
  BY <1>13, <1>14, SizesCompared
<1>16. Content("Fetch", r) # <<>> /\ r.topic_partitions_ # <<>>
  <2>1. FirstOf(r.topic_partitions_, "partitions_info_") = << topic.partitions_info_ >>
    BY <1>13 DEF FirstOf
  <2>2. MessageSets(r) # <<>>
    BY <2>1 DEF MessageSets
  <2> QED BY <1>13, <2>2, Contents
<1>17. ComesOf("Fetch", correlation, body) = "response"
  BY <1>11, <1>12, <1>15, <1>16, AnswersCome
<1> QED BY <1>1, <1>17 DEF body


LEMMA PairsAreSome == \A a, b : <<a, b>> # <<>>
OBVIOUS

LEMMA SinglesAreSome == \A a : <<a>> # <<>>
OBVIOUS

OffsetsAnswered(parts, error) ==
    ByTopic(parts, LAMBDA p : Int32(p.id) \o Int64(-1) \o String(0) \o Int16(error))

LEMMA OffsetFetchAnswered ==
    ASSUME NEW correlation \in Int, NEW error \in Int, NEW parts, NEW n \in Nat,
           DOMAIN parts = 1 .. n, Len(parts) = n, parts # <<>>,
           \A i \in 1 .. n : parts[i].id \in Int
    PROVE  ComesOf("OffsetFetch", correlation,
                   OffsetsAnswered(parts, error)) = "response"
<1> DEFINE wires == [i \in 1 .. n |-> Int32(parts[i].id) \o Int64(-1) \o String(0) \o Int16(error)]
           values == [i \in 1 .. n |-> [partition_ |-> parts[i].id, offset_ |-> -1, metadata_ |-> 0,
                                        error_code_ |-> error]]
           sizes == [i \in 1 .. n |-> PartitionOffsetMESize(values[i])]
           array == Int32(n) \o FlattenSeq(wires)
           body == (Int32(1) \o String(Topic)) \o array
           c == OffsetFetchResponse
           r == Answer("OffsetFetch", correlation, body)
           sum == SumOfFirst(sizes, n)
           bytes == (4 + (2 + Topic)) + (4 + sum)
<1>1. OffsetsAnswered(parts, error)
        = Int32(1) \o FlattenSeq(<<String(Topic) \o array>>)
  <2> DEFINE topics == IF parts = <<>> THEN <<>> ELSE <<Topic>>
             all == Int32(Len(parts)) \o FlattenSeq([i \in DOMAIN parts |-> Int32(parts[i].id) \o Int64(-1) \o String(0) \o Int16(error)])
  <2>1. OffsetsAnswered(parts, error)
          = Int32(Len(topics)) \o FlattenSeq([i \in DOMAIN topics |-> String(topics[i]) \o all])
    BY DEF OffsetsAnswered, ByTopic, Array
  <2>2. topics = <<Topic>> /\ all = array
    OBVIOUS
  <2> HIDE DEF topics, all, array
  <2>3. Len(<<Topic>>) = 1
        /\ [i \in DOMAIN <<Topic>> |-> String(<<Topic>>[i]) \o all] = <<String(Topic) \o all>>
    OBVIOUS
  <2> QED BY <2>1, <2>2, <2>3
<1>2. ASSUME NEW i \in 1 .. n PROVE Gets(Object(PartitionOffsetME), wires[i], values[i], sizes[i])
  <2> DEFINE partition == parts[i].id
             p == [partition_ |-> partition, offset_ |-> -1, metadata_ |-> 0, error_code_ |-> error]
  <2>1. partition \in Int /\ -1 \in Int /\ 0 \in Nat
    OBVIOUS
  <2>2. wires[i] = ((Int32(partition) \o Int64(-1)) \o String(0)) \o Int16(error) /\ values[i] = p
        /\ sizes[i] = 4 + 8 + 2 + 0 + 2
    BY DEF PartitionOffsetMESize
  <2> HIDE DEF partition, wires, values, sizes
  <2>3. Gets(Object(PartitionOffsetME),
             ((Int32(partition) \o Int64(-1)) \o String(0)) \o Int16(error), p,
             ((4 + 8) + (2 + 0)) + 2)
    BY <2>1, PartitionOffsetMEGot
  <2>4. 4 + 8 + 2 + 0 + 2 = ((4 + 8) + (2 + 0)) + 2
    OBVIOUS
  <2> HIDE DEF p
  <2> QED BY <2>2, <2>3, <2>4
<1>3. Gets(Elements(Object(PartitionOffsetME)), array, values, 4 + sum)
  <2>1. DOMAIN wires = 1 .. n /\ DOMAIN values = 1 .. n
        /\ wires = [i \in 1 .. n |-> wires[i]] /\ values = [i \in 1 .. n |-> values[i]]
    OBVIOUS
  <2> HIDE DEF wires, values, sizes
  <2> QED BY <1>2, <2>1, ElementsGot
<1>4. SumOf(values, PartitionOffsetMESize) = sum /\ sum \in Int
  <2>1. Len(values) = n /\ DOMAIN values = 1 .. n
    OBVIOUS
  <2>2. SumOf(values, PartitionOffsetMESize) = sum
    BY <2>1 DEF SumOf
  <2>3. \A i \in 1 .. n : sizes[i] = 16
    BY DEF PartitionOffsetMESize
  <2>4. 16 \in Nat /\ n * 16 \in Int
    OBVIOUS
  <2> HIDE DEF sizes
  <2>5. sum = n * 16
    BY <2>3, <2>4, SumOfEqual
  <2> QED BY <2>2, <2>4, <2>5
<1>5. /\ DOMAIN c = 1 .. 3 /\ ReadersOf(c)[1] = Number(4) /\ ReadersOf(c)[2] = Characters(2)
      /\ ReadersOf(c)[3] = Elements(Object(PartitionOffsetME))
      /\ c[2].name = "topic_" /\ c[3].name = "partitions_info_"
  BY DEF OffsetFetchResponse, Text, Read32, Many, Item, ReadersOf
<1> HIDE DEF values, array, sum
<1>6. Gets(Number(4), Int32(1), 1, 4) /\ Gets(Characters(2), String(Topic), Topic, 2 + Topic)
  BY NumbersGot, StringsGot, NamesAssumption
<1>7. Int32(1) \o FlattenSeq(<<String(Topic) \o array>>) = body
  <2> DEFINE w1 == Int32(1)
             w2 == String(Topic)
  <2>1. w1 \in Wires /\ w2 \in Wires /\ array \in Wires
    BY <1>3, <1>6 DEF Gets, Takes
  <2>2. FlattenSeq(<<String(Topic) \o array>>) = String(Topic) \o array
    BY FlattenOne
  <2> HIDE DEF w1, w2
  <2>3. w1 \o (w2 \o array) = (w1 \o w2) \o array
    BY <2>1, ConcatAssociative
  <2> QED BY <2>2, <2>3 DEF w1, w2
<1>8. ReadsFirst(ReadersOf(c), 3, body, <<1, Topic, values>>) /\ Takes(body, bytes)
  BY <1>3, <1>5, <1>6, FirstThree, BothTake DEF Gets
<1> HIDE DEF body, bytes
<1>9. "OffsetFetch" \in DOMAIN Constructor /\ Constructor["OffsetFetch"] = c /\ 3 \in Nat
  BY DEF Constructor
<1> HIDE DEF c
<1>10. IsAnswer("OffsetFetch", correlation, body, <<1, Topic, values>>, bytes)
  BY <1>5, <1>8, <1>9, AnswersAre
<1>11. r.total_size_ = 4 + bytes /\ r.topic_ = Topic /\ r.partitions_info_ = values
  <2>1. 2 \in DOMAIN c /\ 3 \in DOMAIN c
        /\ <<1, Topic, values>>[2] = Topic /\ <<1, Topic, values>>[3] = values
    BY <1>5
  <2> QED BY <1>5, <1>9, <1>10, <2>1 DEF IsAnswer
<1>12. OffsetFetchResponseSize(r) = 4 + bytes
  BY <1>4, <1>11, NamesAssumption DEF OffsetFetchResponseSize, ResponseSize, bytes
<1>13. SizesEqual("OffsetFetch", r)
  BY <1>11, <1>12, SizesCompared
<1>14. Content("OffsetFetch", r) # <<>>
  <2>1. Content("OffsetFetch", r) = <<OffsetFetchErrorCode(r), ParseOffset(r)>>
    BY Contents
  <2> QED BY <2>1, PairsAreSome
<1>15. ComesOf("OffsetFetch", correlation, body) = "response"
  BY <1>9, <1>10, <1>13, <1>14, AnswersCome
<1> QED BY <1>1, <1>7, <1>15

LEMMA NoneGot ==
    \A reader : Gets(Elements(reader), Int32(0) \o FlattenSeq(<<>>), <<>>, 4)
<1> SUFFICES ASSUME NEW reader PROVE Gets(Elements(reader), Int32(0) \o FlattenSeq(<<>>), <<>>, 4)
  OBVIOUS
<1> DEFINE none == <<>>
<1>1. 0 \in Nat /\ DOMAIN none = 1 .. 0 /\ none = [i \in 1 .. 0 |-> none[i]]
  OBVIOUS
<1>2. \A i \in 1 .. 0 : Gets(reader, none[i], none[i], none[i])
  OBVIOUS
<1>3. SumOfFirst(none, 0) = 0 /\ 4 + 0 = 4
  BY SumOfFirstNext
<1> HIDE DEF none
<1>4. Gets(Elements(reader), Int32(0) \o FlattenSeq(none), none, 4 + SumOfFirst(none, 0))
  BY <1>1, <1>2, ElementsGot
<1> QED BY <1>3, <1>4 DEF none

(* About no partitions: an OffsetFetchResponse without a topic is read     *)
(* past its end, and in a FetchResponse there is no first topic.           *)
LEMMA NoOffsetsAnswered ==
    ASSUME NEW correlation \in Int
    PROVE  ComesOf("OffsetFetch", correlation, Int32(0) \o FlattenSeq(<<>>)) = "overread"
<1> DEFINE c == OffsetFetchResponse
           readers == ReadersOf(c)
           body == Int32(0) \o FlattenSeq(<<>>)
<1>1. DOMAIN c = 1 .. 3 /\ readers[1] = Number(4) /\ readers[2] = Characters(2)
  BY DEF OffsetFetchResponse, Text, Read32, Many, Item, ReadersOf
<1>2. FlattenSeq(<<>>) = <<>>
  BY DEF FlattenSeq
<1>3. Gets(Number(4), Int32(0), 0, 4)
  BY NumbersGot
<1>4. body = Int32(0) /\ body \in Wires
  BY <1>2, <1>3, ConcatEmptySeq DEF Gets, Takes
<1> HIDE DEF readers, body
<1>5. FirstInTurn(readers, 1, body) = Got(<<0>>, <<>>)
  <2>1. ReadsFirst(readers, 1, Int32(0), <<0>>)
    BY <1>1, <1>3, FirstOne DEF Gets
  <2>2. FirstInTurn(readers, 1, Int32(0) \o <<>>) = Got(<<0>>, <<>>)
    BY <2>1, BytesOfNone DEF ReadsFirst
  <2>3. Int32(0) \o <<>> = Int32(0)
    BY <1>4, ConcatEmptySeq
  <2> QED BY <1>4, <2>2, <2>3
<1>6. Characters(2)[<<>>] = Stops("lost")
  BY BytesOfNone DEF Characters, StartsWith
<1>7. FirstInTurn(readers, 2, body) = Stops("lost")
  <2>1. FirstInTurn(readers, 1 + 1, body) = Then(readers[1 + 1], FirstInTurn(readers, 1, body))
    BY TurnNext
  <2>2. Then(Characters(2), Got(<<0>>, <<>>)) = Stops("lost")
    BY <1>6 DEF Then, Got, Stops
  <2>3. 1 + 1 = 2
    OBVIOUS
  <2> QED BY <1>1, <1>5, <2>1, <2>2, <2>3
<1>8. Object(c)[body] = Stops("lost")
  <2>1. 3 \in Nat /\ 2 \in 0 .. 3 /\ "lost" # "read"
    OBVIOUS
  <2> HIDE DEF c
  <2> QED BY <2>1, <1>1, <1>4, <1>7, ObjectStops DEF readers
<1>9. "OffsetFetch" \in DOMAIN Constructor /\ Constructor["OffsetFetch"] = c
  BY DEF Constructor
<1>10. Object(Constructor["OffsetFetch"])[body].how = "lost"
  BY <1>8, <1>9 DEF Stops
<1>11. ComesOf("OffsetFetch", correlation, body) = "overread"
  BY <1>4, <1>9, <1>10, ComesStopped
<1> QED BY <1>11 DEF body

LEMMA NothingFetched ==
    ASSUME NEW correlation \in Int
    PROVE  ComesOf("Fetch", correlation, Int32(0) \o (Int32(0) \o FlattenSeq(<<>>))) = "overread"
<1> DEFINE c == FetchResponse
           readers == ReadersOf(c)
           none == Int32(0) \o FlattenSeq(<<>>)
           body == Int32(0) \o none
           r == Answer("Fetch", correlation, body)
<1>1. DOMAIN c = 1 .. 2 /\ readers[1] = Number(4)
      /\ readers[2] = Elements(Object(TopicPartitionInfo)) /\ c[2].name = "topic_partitions_"
  BY DEF FetchResponse, Read32, Many, Item, ReadersOf
<1>2. Gets(Number(4), Int32(0), 0, 4)
      /\ Gets(Elements(Object(TopicPartitionInfo)), none, <<>>, 4)
  BY NumbersGot, NoneGot
<1> HIDE DEF readers, none
<1>3. ReadsFirst(readers, 2, body, <<0, <<>> >>) /\ Takes(body, 4 + 4)
  BY <1>1, <1>2, FirstTwo, BothTake DEF Gets
<1>4. "Fetch" \in DOMAIN Constructor /\ Constructor["Fetch"] = c /\ 2 \in Nat
  BY DEF Constructor
<1> HIDE DEF c, body
<1>5. IsAnswer("Fetch", correlation, body, <<0, <<>> >>, 4 + 4)
  BY <1>1, <1>3, <1>4, AnswersAre DEF readers
<1>6. r.topic_partitions_ = <<>>
  <2>1. 2 \in DOMAIN c /\ <<0, <<>> >>[2] = <<>>
    BY <1>1
  <2> QED BY <1>1, <1>4, <1>5, <2>1 DEF IsAnswer
<1>7. ComesOf("Fetch", correlation, body) = "overread"
  BY <1>4, <1>5, <1>6, AnswersCome
<1> QED BY <1>7 DEF body, none

(* The newest offset of a partition, or none with an error. *)
NewestOf(error) == IF error = 0 THEN <<100>> ELSE <<>>
LongsOf(error)  == Array(NewestOf(error), Int64)

LEMMA LongsGot ==
    ASSUME NEW error \in Int
    PROVE  /\ Gets(Elements(Number(8)), LongsOf(error), NewestOf(error), 4 + Len(NewestOf(error)) * 8)
           /\ Len(NewestOf(error)) \in Nat
<1>1. CASE error = 0
  <2> DEFINE list == <<100>>
  <2>1. NewestOf(error) = list /\ Len(list) = 1 /\ 4 + 1 * 8 = 4 + 8 /\ 100 \in Int
    BY <1>1 DEF NewestOf
  <2>2. [i \in DOMAIN list |-> Int64(list[i])] = <<Int64(100)>>
    OBVIOUS
  <2>3. Array(list, Int64) = Int32(1) \o FlattenSeq(<<Int64(100)>>)
    BY <2>1, <2>2 DEF Array
  <2>4. Gets(Elements(Number(8)), Int32(1) \o FlattenSeq(<<Int64(100)>>), <<100>>, 4 + 8)
    BY <2>1, NumbersGot, OneGot
  <2> QED BY <2>1, <2>3, <2>4 DEF LongsOf
<1>2. CASE error # 0
  <2> DEFINE list == <<>>
  <2>1. NewestOf(error) = list /\ Len(list) = 0 /\ 4 + 0 * 8 = 4
    BY <1>2 DEF NewestOf
  <2>2. [i \in DOMAIN list |-> Int64(list[i])] = <<>>
    OBVIOUS
  <2>3. Array(list, Int64) = Int32(0) \o FlattenSeq(<<>>)
    BY <2>1, <2>2 DEF Array
  <2>4. Gets(Elements(Number(8)), Int32(0) \o FlattenSeq(<<>>), <<>>, 4)
    BY NoneGot
  <2> QED BY <2>1, <2>3, <2>4 DEF LongsOf
<1> QED BY <1>1, <1>2

LEMMA PartitionOffsetsNamed ==
    ASSUME NEW a, NEW b, NEW c
    PROVE  Named(PartitionOffsets, <<a, b, c>>)
             = [partition_ |-> a, error_code_ |-> b, offset_array_ |-> c]
BY DEF Named, PartitionOffsets, Read32, Read16, Longs, Item

LEMMA PartitionOffsetsGot ==
    ASSUME NEW partition \in Int, NEW error \in Int, NEW array, NEW longs, NEW size,
           Gets(Elements(Number(8)), array, longs, size)
    PROVE  Gets(Object(PartitionOffsets), (Int32(partition) \o Int16(error)) \o array,
                [partition_ |-> partition, error_code_ |-> error, offset_array_ |-> longs],
                (4 + 2) + size)
<1> DEFINE readers == ReadersOf(PartitionOffsets)
           wire == (Int32(partition) \o Int16(error)) \o array
           values == <<partition, error, longs>>
           bytes == (4 + 2) + size
           p == [partition_ |-> partition, error_code_ |-> error, offset_array_ |-> longs]
<1>1. DOMAIN PartitionOffsets = 1 .. 3 /\ readers[1] = Number(4) /\ readers[2] = Number(2)
      /\ readers[3] = Elements(Number(8)) /\ 3 \in Nat
  BY DEF PartitionOffsets, Read32, Read16, Longs, Item, ReadersOf
<1>2. Gets(Number(4), Int32(partition), partition, 4) /\ Gets(Number(2), Int16(error), error, 2)
  BY NumbersGot
<1> HIDE DEF readers
<1>3. ReadsFirst(readers, 3, wire, values)
  BY <1>1, <1>2, FirstThree DEF Gets
<1>4. Takes(wire, bytes)
  BY <1>2, BothTake DEF Gets
<1>5. Named(PartitionOffsets, values) = p
  BY PartitionOffsetsNamed
<1> HIDE DEF wire, values, bytes, p
<1>6. Reads(Object(PartitionOffsets), wire, p)
  BY <1>1, <1>3, <1>5, ObjectReads DEF readers
<1> QED BY <1>4, <1>6 DEF Gets, wire, bytes, p

NewestAnswered(parts, error) ==
    ByTopic(parts, LAMBDA p :
        Int32(p.partition_) \o Int16(error) \o Array(IF error = 0 THEN <<100>> ELSE <<>>, Int64))

LEMMA OffsetAnswered ==
    ASSUME NEW correlation \in Int, NEW error \in Int, NEW parts, NEW n, About(parts, n)
    PROVE  ComesOf("Offset", correlation,
                   NewestAnswered(parts, error)) = "response"
<1> DEFINE list == NewestOf(error)
           longs == LongsOf(error)
           wires == [i \in 1 .. n |-> Int32(parts[i].partition_) \o Int16(error) \o longs]
           values == [i \in 1 .. n |-> [partition_ |-> parts[i].partition_, error_code_ |-> error,
                                        offset_array_ |-> list]]
           sizes == [i \in 1 .. n |-> PartitionOffsetsSize(values[i])]
           array == Int32(n) \o FlattenSeq(wires)
           topic == [topic_ |-> Topic, partition_offset_array_ |-> values]
           body == Int32(1) \o FlattenSeq(<<String(Topic) \o array>>)
           c == OffsetResponse
           r == Answer("Offset", correlation, body)
           sum == SumOfFirst(sizes, n)
           bytes == 4 + ((2 + Topic) + (4 + sum))
<1>1. NewestAnswered(parts, error) = body
  <2> DEFINE topics == IF parts = <<>> THEN <<>> ELSE <<Topic>>
             all == Int32(Len(parts)) \o FlattenSeq([i \in DOMAIN parts |-> Int32(parts[i].partition_) \o Int16(error) \o Array(IF error = 0 THEN <<100>> ELSE <<>>, Int64)])
  <2>1. NewestAnswered(parts, error)
          = Int32(Len(topics)) \o FlattenSeq([i \in DOMAIN topics |-> String(topics[i]) \o all])
    BY DEF NewestAnswered, ByTopic, Array
  <2>2. topics = <<Topic>> /\ all = array
    BY DEF About, LongsOf, NewestOf
  <2> HIDE DEF topics, all, array
  <2>3. Len(<<Topic>>) = 1
        /\ [i \in DOMAIN <<Topic>> |-> String(<<Topic>>[i]) \o all] = <<String(Topic) \o all>>
    OBVIOUS
  <2> QED BY <2>1, <2>2, <2>3
<1>2. Len(list) \in Nat /\ Gets(Elements(Number(8)), longs, list, 4 + Len(list) * 8)
  BY LongsGot
<1>3. ASSUME NEW i \in 1 .. n PROVE Gets(Object(PartitionOffsets), wires[i], values[i], sizes[i])
  <2> HIDE DEF list, longs
  <2> DEFINE partition == parts[i].partition_
             p == [partition_ |-> partition, error_code_ |-> error, offset_array_ |-> list]
  <2>1. partition \in Int
    BY DEF About
  <2>2. wires[i] = (Int32(partition) \o Int16(error)) \o longs /\ values[i] = p
        /\ sizes[i] = 4 + 2 + 4 + Len(list) * 8
    BY DEF PartitionOffsetsSize
  <2> HIDE DEF partition, wires, values, sizes
  <2>3. Gets(Object(PartitionOffsets), (Int32(partition) \o Int16(error)) \o longs, p,
             (4 + 2) + (4 + Len(list) * 8))
    BY <1>2, <2>1, PartitionOffsetsGot
  <2>4. 4 + 2 + 4 + Len(list) * 8 = (4 + 2) + (4 + Len(list) * 8)
    BY <1>2
  <2> HIDE DEF p
  <2> QED BY <2>2, <2>3, <2>4
<1> HIDE DEF list, longs
<1>4. Gets(Elements(Object(PartitionOffsets)), array, values, 4 + sum)
  <2>1. n \in Nat /\ DOMAIN wires = 1 .. n /\ DOMAIN values = 1 .. n
        /\ wires = [i \in 1 .. n |-> wires[i]] /\ values = [i \in 1 .. n |-> values[i]]
    BY DEF About
  <2> HIDE DEF wires, values, sizes
  <2> QED BY <1>3, <2>1, ElementsGot
<1>5. SumOf(values, PartitionOffsetsSize) = sum /\ sum \in Int
  <2>1. Len(values) = n /\ DOMAIN values = 1 .. n
    BY DEF About
  <2>2. SumOf(values, PartitionOffsetsSize) = sum
    BY <2>1 DEF SumOf
  <2> DEFINE each == 10 + Len(list) * 8
  <2>3. \A i \in 1 .. n : sizes[i] = each
    BY <1>2 DEF PartitionOffsetsSize
  <2>4. n \in Nat /\ each \in Nat
    BY <1>2 DEF About
  <2> HIDE DEF sizes, each
  <2>5. sum = n * each
    BY <2>3, <2>4, SumOfEqual
  <2> QED BY <2>2, <2>4, <2>5
<1>6. /\ DOMAIN TopicPartitionOR = 1 .. 2 /\ ReadersOf(TopicPartitionOR)[1] = Characters(2)
      /\ ReadersOf(TopicPartitionOR)[2] = Elements(Object(PartitionOffsets))
      /\ DOMAIN c = 1 .. 1 /\ ReadersOf(c)[1] = Elements(Object(TopicPartitionOR))
      /\ c[1].name = "topic_partition_array_"
  BY DEF TopicPartitionOR, OffsetResponse, Text, Many, Item, ReadersOf
<1>7. First(values) = <<values[1]>> /\ values[1].error_code_ = error /\ values[1].offset_array_ = list
  <2>1. 1 \in 1 .. n
    <3>1. n # 0
      BY EmptySeq DEF About
    <3> QED BY <3>1 DEF About
  <2>2. values # <<>>
    <3>1. 1 \in DOMAIN values
      BY <2>1
    <3> QED BY <3>1
  <2> QED BY <2>1, <2>2 DEF First
<1> HIDE DEF values
<1>8. Named(TopicPartitionOR, <<Topic, values>>) = topic
  BY TopicPartitionORNamed
<1> HIDE DEF array, sum, topic
<1>9. Gets(Object(TopicPartitionOR), String(Topic) \o array, topic, (2 + Topic) + (4 + sum))
  BY <1>4, <1>6, <1>8, TopicGot
<1>10. Gets(Elements(Object(TopicPartitionOR)), body, <<topic>>, bytes)
  BY <1>9, OneGot
<1> HIDE DEF body, bytes
<1>11. ReadsFirst(ReadersOf(c), 1, body, << <<topic>> >>)
  BY <1>6, <1>10, FirstOne DEF Gets
<1>12. "Offset" \in DOMAIN Constructor /\ Constructor["Offset"] = c /\ 1 \in Nat
  BY DEF Constructor
<1> HIDE DEF c
<1>13. IsAnswer("Offset", correlation, body, << <<topic>> >>, bytes)
  BY <1>6, <1>10, <1>11, <1>12, AnswersAre DEF Gets
<1>14. r.total_size_ = 4 + bytes /\ r.topic_partition_array_ = <<topic>>
  <2>1. 1 \in DOMAIN c /\ << <<topic>> >>[1] = <<topic>>
    BY <1>6
  <2> QED BY <1>6, <1>12, <1>13, <2>1 DEF IsAnswer
<1>15. OffsetResponseSize(r) = 4 + bytes
  <2>1. TopicPartitionORSize(topic) = 2 + Topic + 4 + sum
    BY <1>5 DEF TopicPartitionORSize, topic
  <2>2. SumOf(<<topic>>, TopicPartitionORSize) = TopicPartitionORSize(topic)
    <3> DEFINE f == [i \in DOMAIN <<topic>> |-> TopicPartitionORSize(<<topic>>[i])]
    <3>1. SumOf(<<topic>>, TopicPartitionORSize) = SumOfFirst(f, 1) /\ f[1] = TopicPartitionORSize(topic)
      BY DEF SumOf
    <3> HIDE DEF f
    <3> QED BY <1>5, <2>1, <3>1, SumOne, NamesAssumption
  <2> QED BY <1>5, <1>14, <2>1, <2>2, NamesAssumption DEF OffsetResponseSize, ResponseSize, bytes
<1>16. SizesEqual("Offset", r)
  BY <1>14, <1>15, SizesCompared
<1>17. Content("Offset", r) # <<>>
  <2>1. FirstOf(r.topic_partition_array_, "partition_offset_array_") = << topic.partition_offset_array_ >>
    BY <1>14 DEF FirstOf
  <2>2. topic.partition_offset_array_ = values
    BY DEF topic
  <2>3. FirstPartition(r) = <<values[1]>>
    BY <1>7, <2>1, <2>2 DEF FirstPartition
  <2>4. First(list) # <<>> \/ error # 0
    BY DEF list, NewestOf, First
  <2>5. GetNewOffset(r) # <<>>
    <3> DEFINE v == values[1]
               got == FirstPartition(r)
    <3>1. got # <<>> /\ got[1] = v
      BY <2>3
    <3>2. v.error_code_ = error /\ v.offset_array_ = list
      BY <1>7
    <3> HIDE DEF v
    <3>3. GetNewOffset(r) = IF got = <<>> THEN <<>>
                            ELSE IF got[1].error_code_ # 0 THEN <<-1>>
                            ELSE First(got[1].offset_array_)
      BY DEF GetNewOffset
    <3> HIDE DEF got
    <3>4. GetNewOffset(r) = IF error # 0 THEN <<-1>> ELSE First(list)
      BY <3>1, <3>2, <3>3
    <3>5. <<-1>> # <<>>
      OBVIOUS
    <3> QED BY <2>4, <3>4, <3>5
  <2> QED BY <2>5, Contents
<1>18. ComesOf("Offset", correlation, body) = "response"
  BY <1>12, <1>13, <1>16, <1>17, AnswersCome
<1> QED BY <1>1, <1>18

LEMMA WiresAssociate == \A a, b, c \in Wires : (a \o b) \o c = a \o (b \o c)
BY ConcatAssociative

LEMMA ObjectStopped ==
    ASSUME NEW format, NEW wire \in Wires, NEW how, how # "read",
           \E n \in Nat : /\ DOMAIN format = 1 .. n
                          /\ \E m \in 0 .. n : FirstInTurn(ReadersOf(format), m, wire) = Stops(how)
    PROVE  Object(format)[wire] = Stops(how)
<1>1. PICK n \in Nat : /\ DOMAIN format = 1 .. n
                      /\ \E m \in 0 .. n : FirstInTurn(ReadersOf(format), m, wire) = Stops(how)
  OBVIOUS
<1>2. PICK m \in 0 .. n : FirstInTurn(ReadersOf(format), m, wire) = Stops(how)
  BY <1>1
<1> QED BY <1>1, <1>2, ObjectStops

MembersAnswered(members) ==
    Array(members, LAMBDA m : String(m) \o Int32(20) \o Field(20, 20))

LEMMA JoinGroupAnswered ==
    ASSUME NEW correlation \in Int, NEW error \in Int, NEW generation \in Int, NEW protocol \in Nat,
           NEW leader \in Nat, NEW member \in Nat, NEW members \in Seq(Nat)
    PROVE  ComesOf("JoinGroup", correlation,
                   Int16(error) \o Int32(generation) \o String(protocol) \o String(leader)
                       \o String(member)
                       \o MembersAnswered(members))
             = "response"
<1> DEFINE n == Len(members)
           wires == [i \in 1 .. n |-> String(members[i]) \o Int32(20) \o Field(20, 20)]
           values == [i \in 1 .. n |-> [member_id_ |-> members[i], member_metadata_ |-> 20]]
           sizes == [i \in 1 .. n |-> MemberSize(values[i])]
           array == Int32(n) \o FlattenSeq(wires)
           body == ((((Int16(error) \o Int32(generation)) \o String(protocol)) \o String(leader))
                        \o String(member)) \o array
           all == <<error, generation, protocol, leader, member, values>>
           c == JoinGroupResponse
           r == Answer("JoinGroup", correlation, body)
           sum == SumOfFirst(sizes, n)
           bytes == ((((2 + 4) + (2 + protocol)) + (2 + leader)) + (2 + member)) + (4 + sum)
<1>1. n \in Nat /\ DOMAIN members = 1 .. n /\ \A i \in 1 .. n : members[i] \in Nat
  BY LenProperties, ElementOfSeq
<1>2. MembersAnswered(members) = array
  BY <1>1 DEF MembersAnswered, Array
<1>3. ASSUME NEW i \in 1 .. n PROVE Gets(Object(Member), wires[i], values[i], sizes[i])
  <2> DEFINE m == members[i]
             v == [member_id_ |-> m, member_metadata_ |-> 20]
             id == String(m)
             count == Int32(20)
             characters == Field(20, 20)
  <2>1. m \in Nat /\ 20 \in Nat /\ 20 \in Int
    BY <1>1
  <2>2. wires[i] = (id \o count) \o characters /\ values[i] = v /\ sizes[i] = 2 + m + 4 + 20
    BY DEF MemberSize
  <2> HIDE DEF m, wires, values, sizes
  <2>3. Gets(Object(Member), id \o (count \o characters), v, (2 + m) + (4 + 20))
    BY <2>1, MemberGot
  <2>4. (id \o count) \o characters = id \o (count \o characters)
    <3>1. id \in Wires /\ count \in Wires /\ characters \in Wires
      <4>1. Takes(id, 2 + m) /\ Takes(count, 4) /\ Takes(characters, 20)
        BY <2>1, IntsTake, StringTakes, FieldTakes
      <4> QED BY <4>1 DEF Takes
    <3> HIDE DEF id, count, characters
    <3> QED BY <3>1, WiresAssociate
  <2>5. 2 + m + 4 + 20 = (2 + m) + (4 + 20)
    BY <2>1
  <2> HIDE DEF id, count, characters, v
  <2> QED BY <2>2, <2>3, <2>4, <2>5
<1>4. Gets(Elements(Object(Member)), array, values, 4 + sum)
  <2>1. DOMAIN wires = 1 .. n /\ DOMAIN values = 1 .. n
        /\ wires = [i \in 1 .. n |-> wires[i]] /\ values = [i \in 1 .. n |-> values[i]]
    OBVIOUS
  <2> HIDE DEF wires, values, sizes, n
  <2> QED BY <1>1, <1>3, <2>1, ElementsGot
<1>5. SumOf(values, MemberSize) = sum /\ sum \in Int
  <2>1. Len(values) = n /\ DOMAIN values = 1 .. n
    BY <1>1
  <2>2. SumOf(values, MemberSize) = sum
    BY <2>1 DEF SumOf
  <2>3. \A i \in 1 .. n : sizes[i] \in Nat \ {0}
    BY <1>1 DEF MemberSize
  <2> HIDE DEF sizes, n
  <2>4. n \in 0 .. n
    BY <1>1
  <2>5. SumOfFirst(sizes, n) \in Nat
    BY <1>1, <2>3, <2>4, SumIncreases
  <2> QED BY <2>2, <2>5
<1>6. /\ DOMAIN c = 1 .. 6 /\ ReadersOf(c)[1] = Number(2) /\ ReadersOf(c)[2] = Number(4)
      /\ ReadersOf(c)[3] = Characters(2) /\ ReadersOf(c)[4] = Characters(2)
      /\ ReadersOf(c)[5] = Characters(2) /\ ReadersOf(c)[6] = Elements(Object(Member))
  BY DEF JoinGroupResponse, Read16, Read32, Text, Many, Item, ReadersOf
<1>7. /\ c[3].name = "group_protocol_" /\ c[4].name = "leader_id_" /\ c[5].name = "member_id_"
      /\ c[6].name = "members_"
  BY DEF JoinGroupResponse, Read16, Read32, Text, Many, Item
<1>8. /\ Gets(Number(2), Int16(error), error, 2) /\ Gets(Number(4), Int32(generation), generation, 4)
      /\ Gets(Characters(2), String(protocol), protocol, 2 + protocol)
      /\ Gets(Characters(2), String(leader), leader, 2 + leader)
      /\ Gets(Characters(2), String(member), member, 2 + member)
  BY NumbersGot, StringsGot
<1> HIDE DEF values, array, sum
<1>9. ReadsFirst(ReadersOf(c), 6, body, all)
  <2> HIDE DEF c
  <2> QED BY <1>4, <1>6, <1>8, FirstSix DEF Gets
<1>10. Takes(body, bytes)
  BY <1>4, <1>8, BothTake DEF Gets
<1>11. "JoinGroup" \in DOMAIN Constructor /\ Constructor["JoinGroup"] = c /\ 6 \in Nat
  BY DEF Constructor
<1>12. all[3] = protocol /\ all[4] = leader /\ all[5] = member /\ all[6] = values
  OBVIOUS
<1> HIDE DEF body, bytes, c, all
<1>13. IsAnswer("JoinGroup", correlation, body, all, bytes)
  BY <1>6, <1>9, <1>10, <1>11, AnswersAre
<1>14. r.total_size_ = 4 + bytes /\ r.group_protocol_ = protocol /\ r.leader_id_ = leader
       /\ r.member_id_ = member /\ r.members_ = values
  <2>1. 3 \in DOMAIN c /\ 4 \in DOMAIN c /\ 5 \in DOMAIN c /\ 6 \in DOMAIN c
    BY <1>6
  <2> QED BY <1>7, <1>11, <1>12, <1>13, <2>1 DEF IsAnswer
<1>15. JoinGroupResponseSize(r) = 4 + bytes
  <2>1. SumOf(r.members_, MemberSize) = sum
    BY <1>5, <1>14
  <2> HIDE DEF r
  <2>2. JoinGroupResponseSize(r)
          = 4 + 2 + 4 + 2 + protocol + 2 + leader + 2 + member + 4 + sum
    BY <1>14, <2>1 DEF JoinGroupResponseSize, ResponseSize
  <2> QED BY <1>5, <2>2 DEF bytes
<1>16. SizesEqual("JoinGroup", r)
  BY <1>14, <1>15, SizesCompared
<1>17. Content("JoinGroup", r) # <<>>
  <2>1. Content("JoinGroup", r) = <<IsGroupLeader(r), GetAllMembers(r)>>
    BY Contents
  <2> QED BY <2>1, PairsAreSome
<1>18. ComesOf("JoinGroup", correlation, body) = "response"
  BY <1>11, <1>13, <1>16, <1>17, AnswersCome
<1> QED BY <1>2, <1>18 DEF body

(* A SyncGroupResponse with an error is not read further.  One without an  *)
(* assignment is, past its end.                                            *)
LEMMA SyncGroupFailed ==
    ASSUME NEW correlation \in Int, NEW error \in Int
    PROVE  ComesOf("SyncGroup", correlation, Int16(error) \o Int32(0)) \in {"error", "overread"}
<1> DEFINE c == SyncGroupResponse
           readers == ReadersOf(c)
           body == Int16(error) \o Int32(0)
           assignment == Object(AssignmentRead)
<1>1. /\ DOMAIN c = 1 .. 3 /\ readers[1] = ErrorCode /\ readers[2] = Number(4)
      /\ readers[3] = assignment
  BY DEF SyncGroupResponse, Throwing, Read32, One, Item, ReadersOf
<1>2. Int32(0) \in Wires /\ body \in Wires /\ body \o <<>> = body
  <2>1. Takes(Int16(error), 2) /\ Takes(Int32(0), 4)
    BY IntsTake
  <2>2. Takes(body, 2 + 4)
    BY <2>1, BothTake
  <2> HIDE DEF body
  <2> QED BY <2>1, <2>2, ConcatEmptySeq DEF Takes
<1>3. "SyncGroup" \in DOMAIN Constructor /\ Constructor["SyncGroup"] = c
  BY DEF Constructor
<1> HIDE DEF c, readers
<1>4. CASE error # 0
  <2>1. FirstInTurn(readers, 0 + 1, body) = Then(readers[0 + 1], FirstInTurn(readers, 0, body))
        /\ FirstInTurn(readers, 0, body) = Got(<<>>, body)
    BY TurnNext
  <2>2. ErrorCode[body] = Stops("thrown")
    BY <1>2, <1>4, ErrorThrows
  <2> HIDE DEF body
  <2>3. Then(ErrorCode, Got(<<>>, body)) = Stops("thrown")
    BY <2>2 DEF Then, Got, Stops
  <2>4. FirstInTurn(readers, 1, body) = Stops("thrown")
    BY <1>1, <2>1, <2>3
  <2>5. 3 \in Nat /\ 1 \in 0 .. 3 /\ "thrown" # "read"
    OBVIOUS
  <2>6. Object(c)[body] = Stops("thrown")
    BY <1>1, <1>2, <2>4, <2>5, ObjectStopped DEF readers
  <2>7. Object(Constructor["SyncGroup"])[body].how = "thrown"
    BY <1>3, <2>6 DEF Stops
  <2>8. ComesOf("SyncGroup", correlation, body) = "error"
    BY <1>2, <1>3, <2>7, ComesStopped
  <2> QED BY <2>8 DEF body
<1>5. CASE error = 0
  <2>1. ReadsFirst(readers, 2, body, <<0, 0>>)
    <3>1. Reads(ErrorCode, Int16(error), 0) /\ Reads(Number(4), Int32(0), 0)
      BY <1>5, NoErrorReads, IntsRead
    <3> QED BY <1>1, <3>1, FirstTwo
  <2> HIDE DEF body
  <2>2. FirstInTurn(readers, 2, body) = Got(<<0, 0>>, <<>>)
    <3>1. FirstInTurn(readers, 2, body \o <<>>) = Got(<<0, 0>>, <<>>)
      BY <2>1, BytesOfNone DEF ReadsFirst
    <3> QED BY <1>2, <3>1
  <2>3. assignment[<<>>] = Stops("lost")
    <3> DEFINE format == AssignmentRead
               items == ReadersOf(format)
    <3>1. DOMAIN format = 1 .. 3 /\ items[1] = Number(2)
      BY DEF AssignmentRead, Read16, Many, Bytes, Item, ReadersOf
    <3> HIDE DEF items, format
    <3>2. FirstInTurn(items, 0 + 1, <<>>) = Then(items[0 + 1], FirstInTurn(items, 0, <<>>))
          /\ FirstInTurn(items, 0, <<>>) = Got(<<>>, <<>>)
      BY TurnNext
    <3>3. Number(2)[<<>>] = Stops("lost")
      BY BytesOfNone DEF Number, StartsWith
    <3>4. Then(Number(2), Got(<<>>, <<>>)) = Stops("lost")
      BY <3>3 DEF Then, Got, Stops
    <3>5. FirstInTurn(items, 1, <<>>) = Stops("lost")
      BY <3>1, <3>2, <3>4
    <3>6. 3 \in Nat /\ 1 \in 0 .. 3 /\ "lost" # "read" /\ <<>> \in Wires
      BY BytesOfNone
    <3>7. Object(format)[<<>>] = Stops("lost")
      BY <3>1, <3>5, <3>6, ObjectStopped DEF items
    <3> QED BY <3>7 DEF format
  <2> HIDE DEF assignment
  <2>4. FirstInTurn(readers, 2 + 1, body) = Then(readers[2 + 1], FirstInTurn(readers, 2, body))
    BY TurnNext
  <2>5. Then(assignment, Got(<<0, 0>>, <<>>)) = Stops("lost")
    BY <2>3 DEF Then, Got, Stops
  <2>6. FirstInTurn(readers, 3, body) = Stops("lost")
    BY <1>1, <2>2, <2>4, <2>5
  <2>7. 3 \in Nat /\ 3 \in 0 .. 3 /\ "lost" # "read"
    OBVIOUS
  <2>8. Object(c)[body] = Stops("lost")
    BY <1>1, <1>2, <2>6, <2>7, ObjectStopped DEF readers
  <2>9. Object(Constructor["SyncGroup"])[body].how = "lost"
    BY <1>3, <2>8 DEF Stops
  <2>10. ComesOf("SyncGroup", correlation, body) = "overread"
    BY <1>2, <1>3, <2>9, ComesStopped
  <2> QED BY <2>10 DEF body
<1> QED BY <1>4, <1>5

LEMMA IntsGot ==
    ASSUME NEW numbers \in Seq(Int)
    PROVE  Gets(Elements(Number(4)), Array(numbers, Int32), numbers, 4 + 4 * Len(numbers))
<1> DEFINE n == Len(numbers)
           wires == [i \in 1 .. n |-> Int32(numbers[i])]
           sizes == [i \in 1 .. n |-> 4]
<1>1. n \in Nat /\ DOMAIN numbers = 1 .. n /\ \A i \in 1 .. n : numbers[i] \in Int
  BY LenProperties, ElementOfSeq
<1>2. Array(numbers, Int32) = Int32(n) \o FlattenSeq(wires)
  BY <1>1 DEF Array
<1>3. DOMAIN wires = 1 .. n /\ wires = [i \in 1 .. n |-> wires[i]]
      /\ numbers = [i \in 1 .. n |-> numbers[i]]
  BY <1>1
<1>4. \A i \in 1 .. n : Gets(Number(4), wires[i], numbers[i], sizes[i])
  <2> SUFFICES ASSUME NEW i \in 1 .. n PROVE Gets(Number(4), wires[i], numbers[i], sizes[i])
    OBVIOUS
  <2> DEFINE number == numbers[i]
  <2>1. wires[i] = Int32(number) /\ sizes[i] = 4 /\ number \in Int
    BY <1>1
  <2> HIDE DEF number, wires, sizes
  <2>2. Gets(Number(4), Int32(number), number, 4)
    BY <2>1, NumbersGot
  <2> QED BY <2>1, <2>2 DEF number
<1>5. SumOfFirst(sizes, n) = n * 4
  <2>1. \A i \in 1 .. n : sizes[i] = 4
    OBVIOUS
  <2> HIDE DEF sizes
  <2> QED BY <1>1, <2>1, SumOfEqual
<1> HIDE DEF wires, sizes, n
<1>6. Gets(Elements(Number(4)), Int32(n) \o FlattenSeq(wires), numbers, 4 + SumOfFirst(sizes, n))
  BY <1>1, <1>3, <1>4, ElementsGot
<1>7. 4 + SumOfFirst(sizes, n) = 4 + 4 * n
  BY <1>1, <1>5
<1> QED BY <1>2, <1>6, <1>7 DEF n

LEMMA AssignedPartitionsNamed ==
    ASSUME NEW a, NEW b
    PROVE  Named(AssignedPartitions, <<a, b>>) = [topic_ |-> a, partitions_ |-> b]
BY DEF Named, AssignedPartitions, Text, Ints, Item

LEMMA AssignmentReadNamed ==
    ASSUME NEW a, NEW b, NEW c
    PROVE  Named(AssignmentRead, <<a, b, c>>)
             = [version_ |-> a, partition_assignment_ |-> b, user_data_ |-> c]
BY DEF Named, AssignmentRead, Read16, Many, Bytes, Item

(* What a leader has written is what a member reads. *)
AssignedAs(partitions) == [topic_ |-> Topic, partitions_ |-> partitions]
ReadAs(partitions) ==
    [version_ |-> 0, partition_assignment_ |-> <<AssignedAs(partitions)>>, user_data_ |-> 0]
AssignmentBytes(partitions) ==
    (2 + (4 + ((2 + Topic) + (4 + 4 * Len(partitions))))) + (4 + 0)

LEMMA AssignedPartitionsGot ==
    ASSUME NEW partitions \in Seq(Int)
    PROVE  Gets(Object(AssignedPartitions),
                PackagePartitionAssignment(PartitionAssignmentOf(partitions)),
                AssignedAs(partitions), (2 + Topic) + (4 + 4 * Len(partitions)))
<1> DEFINE array == Array(partitions, Int32)
<1>1. DOMAIN AssignedPartitions = 1 .. 2 /\ ReadersOf(AssignedPartitions)[1] = Characters(2)
      /\ ReadersOf(AssignedPartitions)[2] = Elements(Number(4))
  BY DEF AssignedPartitions, Text, Ints, Item, ReadersOf
<1>2. PackagePartitionAssignment(PartitionAssignmentOf(partitions)) = String(Topic) \o array
  <2> DEFINE elements == [i \in DOMAIN partitions |-> [id |-> partitions[i]]]
  <2>1. Len(partitions) \in Nat /\ DOMAIN partitions = 1 .. Len(partitions)
    BY LenProperties
  <2>2. Len(elements) = Len(partitions) /\ DOMAIN elements = DOMAIN partitions
    BY <2>1
  <2>3. [i \in DOMAIN elements |-> PackagePartition(elements[i])]
          = [i \in DOMAIN partitions |-> Int32(partitions[i])]
    BY DEF PackagePartition
  <2>4. Array(elements, PackagePartition) = array
    BY <2>2, <2>3 DEF Array
  <2> HIDE DEF elements, array
  <2> QED BY <2>4 DEF PackagePartitionAssignment, PartitionAssignmentOf, elements
<1>3. Gets(Elements(Number(4)), array, partitions, 4 + 4 * Len(partitions))
  BY IntsGot
<1> HIDE DEF array
<1>4. Gets(Object(AssignedPartitions), String(Topic) \o array,
           Named(AssignedPartitions, <<Topic, partitions>>), (2 + Topic) + (4 + 4 * Len(partitions)))
  BY <1>1, <1>3, TopicGot
<1> QED BY <1>2, <1>4, AssignedPartitionsNamed DEF AssignedAs

LEMMA AssignmentReadGot ==
    ASSUME NEW partitions \in Seq(Int)
    PROVE  Gets(Object(AssignmentRead), PackageMemberAssignment(MemberAssignment(partitions)),
                ReadAs(partitions), AssignmentBytes(partitions))
<1> DEFINE m == MemberAssignment(partitions)
           readers == ReadersOf(AssignmentRead)
           a == PartitionAssignmentOf(partitions)
           topics == <<a>>
           wire == Int32(1) \o FlattenSeq(<<PackagePartitionAssignment(a)>>)
           read == <<AssignedAs(partitions)>>
           none == Int32(0) \o Field(0, 0)
           bytes == 4 + ((2 + Topic) + (4 + 4 * Len(partitions)))
<1>1. DOMAIN AssignmentRead = 1 .. 3 /\ readers[1] = Number(2)
      /\ readers[2] = Elements(Object(AssignedPartitions)) /\ readers[3] = Characters(4) /\ 3 \in Nat
  BY DEF AssignmentRead, Read16, Many, Bytes, Item, ReadersOf
<1>2. Gets(Number(2), Int16(0), 0, 2) /\ Gets(Elements(Object(AssignedPartitions)), wire, read, bytes)
      /\ Gets(Characters(4), none, 0, 4 + 0)
  <2>1. 0 \in Int /\ 0 \in Nat
    OBVIOUS
  <2>2. Gets(Elements(Object(AssignedPartitions)), wire, read, bytes)
    <3> HIDE DEF a
    <3>1. Gets(Object(AssignedPartitions), PackagePartitionAssignment(a), AssignedAs(partitions),
               (2 + Topic) + (4 + 4 * Len(partitions)))
      BY AssignedPartitionsGot DEF a
    <3> QED BY <3>1, OneGot
  <2> HIDE DEF wire, read, bytes
  <2> QED BY <2>1, <2>2, NumbersGot, BytesGot
<1>3. PackageMemberAssignment(m) = (Int16(0) \o wire) \o none
  <2>1. Len(topics) = 1 /\ [i \in DOMAIN topics |-> PackagePartitionAssignment(topics[i])]
                             = <<PackagePartitionAssignment(a)>>
    <3> HIDE DEF a
    <3> QED OBVIOUS
  <2>2. Array(topics, PackagePartitionAssignment) = wire
    BY <2>1 DEF Array
  <2>3. m = [version_ |-> 0, partition_assignment_ |-> topics, user_data_ |-> 0]
    BY DEF MemberAssignment
  <2> HIDE DEF topics, m, wire
  <2>4. PackageMemberAssignment(m) = ((Int16(0) \o wire) \o Int32(0)) \o Field(0, 0)
    BY <2>2, <2>3 DEF PackageMemberAssignment
  <2>5. Int16(0) \o wire \in Wires /\ Int32(0) \in Wires /\ Field(0, 0) \in Wires
    <3>1. Takes(Int16(0), 2) /\ Takes(Int32(0), 4) /\ Takes(Field(0, 0), 0)
      BY IntsTake, FieldTakes
    <3> QED BY <1>2, <3>1, BytesOfBoth DEF Gets, Takes
  <2> QED BY <2>4, <2>5, WiresAssociate
<1> HIDE DEF readers, wire, none, read, m
<1>4. ReadsFirst(readers, 3, (Int16(0) \o wire) \o none, <<0, read, 0>>)
  BY <1>1, <1>2, FirstThree DEF Gets
<1>5. Takes((Int16(0) \o wire) \o none, (2 + bytes) + (4 + 0))
  <2> HIDE DEF bytes
  <2> QED BY <1>2, BothTake DEF Gets
<1>6. Named(AssignmentRead, <<0, read, 0>>) = ReadAs(partitions)
  BY AssignmentReadNamed DEF ReadAs, read
<1>7. Reads(Object(AssignmentRead), (Int16(0) \o wire) \o none, ReadAs(partitions))
  BY <1>1, <1>4, <1>6, ObjectReads DEF readers
<1>8. (2 + bytes) + (4 + 0) = AssignmentBytes(partitions)
  BY DEF AssignmentBytes
<1> HIDE DEF bytes
<1> QED BY <1>3, <1>5, <1>7, <1>8 DEF Gets, m

LEMMA SyncGroupAnswered ==
    ASSUME NEW correlation \in Int, NEW size \in Int, NEW partitions \in Seq(Int)
    PROVE  ComesOf("SyncGroup", correlation,
                   Int16(0) \o Int32(size) \o PackageMemberAssignment(MemberAssignment(partitions)))
             = "response"
<1> DEFINE c == SyncGroupResponse
           wire == PackageMemberAssignment(MemberAssignment(partitions))
           body == (Int16(0) \o Int32(size)) \o wire
           values == <<0, size, ReadAs(partitions)>>
           r == Answer("SyncGroup", correlation, body)
           assigned == AssignmentBytes(partitions)
           bytes == (2 + 4) + assigned
<1>1. /\ DOMAIN c = 1 .. 3 /\ ReadersOf(c)[1] = ErrorCode /\ ReadersOf(c)[2] = Number(4)
      /\ ReadersOf(c)[3] = Object(AssignmentRead) /\ c[3].name = "member_assignment_"
  BY DEF SyncGroupResponse, Throwing, Read32, One, Item, ReadersOf
<1>2. Gets(ErrorCode, Int16(0), 0, 2) /\ Gets(Number(4), Int32(size), size, 4)
      /\ Gets(Object(AssignmentRead), wire, ReadAs(partitions), assigned)
  BY NoErrorReads, IntsTake, NumbersGot, AssignmentReadGot DEF Gets
<1> HIDE DEF wire, assigned
<1>3. ReadsFirst(ReadersOf(c), 3, body, values)
  <2> HIDE DEF c
  <2> QED BY <1>1, <1>2, FirstThree DEF Gets
<1>4. Takes(body, bytes)
  BY <1>2, BothTake DEF Gets
<1>5. "SyncGroup" \in DOMAIN Constructor /\ Constructor["SyncGroup"] = c /\ 3 \in Nat
  BY DEF Constructor
<1>6. values[3] = ReadAs(partitions)
  OBVIOUS
<1> HIDE DEF body, values, bytes, c
<1>7. IsAnswer("SyncGroup", correlation, body, values, bytes)
  BY <1>1, <1>3, <1>4, <1>5, AnswersAre
<1>8. r.total_size_ = 4 + bytes /\ r.member_assignment_ = ReadAs(partitions)
  <2>1. 3 \in DOMAIN c
    BY <1>1
  <2> QED BY <1>1, <1>5, <1>6, <1>7, <2>1 DEF IsAnswer
<1>9. AssignmentReadSize(ReadAs(partitions)) = assigned /\ assigned \in Int
  <2> DEFINE t == AssignedAs(partitions)
             n == Len(partitions)
             f == [i \in DOMAIN <<t>> |-> AssignedPartitionsSize(<<t>>[i])]
  <2>1. n \in Nat
    BY LenProperties
  <2>2. AssignedPartitionsSize(t) = 2 + Topic + 4 + 4 * n
    BY DEF AssignedAs, AssignedPartitionsSize
  <2> HIDE DEF t, n
  <2>3. SumOf(<<t>>, AssignedPartitionsSize) = SumOfFirst(f, 1) /\ f[1] = AssignedPartitionsSize(t)
    BY DEF SumOf
  <2> HIDE DEF f
  <2>4. SumOf(<<t>>, AssignedPartitionsSize) = 2 + Topic + 4 + 4 * n
    BY <2>1, <2>2, <2>3, SumOne, NamesAssumption
  <2>5. AssignmentReadSize(ReadAs(partitions)) = 2 + 4 + (2 + Topic + 4 + 4 * n) + 4 + 0
    BY <2>4 DEF AssignmentReadSize, ReadAs, t
  <2>6. assigned = (2 + (4 + ((2 + Topic) + (4 + 4 * n)))) + (4 + 0)
    BY DEF assigned, AssignmentBytes, n
  <2> QED BY <2>1, <2>5, <2>6, NamesAssumption
<1>10. SyncGroupResponseSize(r) = 4 + bytes
  BY <1>8, <1>9 DEF SyncGroupResponseSize, ResponseSize, bytes
<1>11. SizesEqual("SyncGroup", r)
  BY <1>8, <1>10, SizesCompared
<1>12. Content("SyncGroup", r) # <<>>
  <2> DEFINE topics == <<AssignedAs(partitions)>>
  <2>1. r.member_assignment_.partition_assignment_ = topics
    BY <1>8 DEF ReadAs
  <2>2. topics # <<>>
    OBVIOUS
  <2>3. AssignedTo(r) = FirstOf(topics, "partitions_")
    BY <2>1 DEF AssignedTo, AssignedPartitionsOf
  <2>4. FirstOf(topics, "partitions_") # <<>>
    BY <2>2 DEF FirstOf
  <2>5. Content("SyncGroup", r) = AssignedTo(r)
    BY Contents
  <2> HIDE DEF topics
  <2> QED BY <2>3, <2>4, <2>5
<1>13. ComesOf("SyncGroup", correlation, body) = "response"
  BY <1>5, <1>7, <1>11, <1>12, AnswersCome
<1> QED BY <1>13 DEF body, wire

LEMMA PartitionMetadataNamed ==
    ASSUME NEW a, NEW b, NEW c, NEW d, NEW e
    PROVE  Named(PartitionMetadata, <<a, b, c, d, e>>)
             = [partition_error_code_ |-> a, partition_id_ |-> b, leader_ |-> c, replicas_ |-> d,
                isr_ |-> e]
BY DEF Named, PartitionMetadata, Read16, Read32, Ints, Item

PartitionReadAs(partition, replicas) ==
    [partition_error_code_ |-> 0, partition_id_ |-> partition, leader_ |-> 1,
     replicas_ |-> replicas, isr_ |-> replicas]

LEMMA PartitionMetadataGot ==
    ASSUME NEW partition \in Int, NEW replicas \in Seq(Int)
    PROVE  LET array == Array(replicas, Int32)
           IN  Gets(Object(PartitionMetadata),
                    Int16(0) \o Int32(partition) \o (Int32(1) \o array \o array),
                    PartitionReadAs(partition, replicas), 18 + 8 * Len(replicas))
<1> DEFINE array == Array(replicas, Int32)
           c == PartitionMetadata
           head == Int16(0) \o Int32(partition)
           leader == Int32(1)
           wire == ((head \o leader) \o array) \o array
           values == <<0, partition, 1, replicas, replicas>>
           n == Len(replicas)
           each == 4 + 4 * n
           bytes == (((2 + 4) + 4) + each) + each
<1>1. /\ DOMAIN c = 1 .. 5 /\ ReadersOf(c)[1] = Number(2) /\ ReadersOf(c)[2] = Number(4)
      /\ ReadersOf(c)[3] = Number(4) /\ ReadersOf(c)[4] = Elements(Number(4))
      /\ ReadersOf(c)[5] = Elements(Number(4)) /\ 5 \in Nat
  BY DEF PartitionMetadata, Read16, Read32, Ints, Item, ReadersOf
<1>2. /\ Gets(Number(2), Int16(0), 0, 2) /\ Gets(Number(4), Int32(partition), partition, 4)
      /\ Gets(Number(4), leader, 1, 4) /\ Gets(Elements(Number(4)), array, replicas, each)
  <2>1. Gets(Elements(Number(4)), array, replicas, each)
    BY IntsGot
  <2>2. 0 \in Int /\ 1 \in Int
    OBVIOUS
  <2> HIDE DEF array, each
  <2> QED BY <2>1, <2>2, NumbersGot
<1>3. n \in Nat
  BY LenProperties
<1> HIDE DEF array, leader, each, n
<1>4. head \in Wires /\ leader \in Wires /\ array \in Wires
  BY <1>2, BytesOfBoth DEF Gets, Takes
<1>5. ReadsFirst(ReadersOf(c), 5, wire, values)
  <2> HIDE DEF c
  <2> QED BY <1>1, <1>2, FirstFive DEF Gets
<1>6. Takes(wire, bytes)
  BY <1>2, BothTake DEF Gets
<1>7. Named(c, values) = PartitionReadAs(partition, replicas)
  BY PartitionMetadataNamed DEF PartitionReadAs
<1>8. head \o ((leader \o array) \o array) = wire
  <2> HIDE DEF head
  <2>1. leader \o array \in Wires
    BY <1>4, BytesOfBoth
  <2>2. head \o ((leader \o array) \o array) = (head \o (leader \o array)) \o array
    BY <1>4, <2>1, WiresAssociate
  <2>3. head \o (leader \o array) = (head \o leader) \o array
    BY <1>4, WiresAssociate
  <2> QED BY <2>2, <2>3
<1>9. bytes = 18 + 8 * n
  BY <1>3 DEF each
<1> HIDE DEF wire, values, c, bytes, head
<1>10. Reads(Object(c), wire, PartitionReadAs(partition, replicas))
  BY <1>1, <1>5, <1>7, ObjectReads
<1>11. Gets(Object(c), head \o ((leader \o array) \o array), PartitionReadAs(partition, replicas),
            18 + 8 * n)
  BY <1>6, <1>8, <1>9, <1>10 DEF Gets
<1> QED BY <1>11 DEF array, c, head, leader, n

LEMMA TopicMetadataNamed ==
    ASSUME NEW a, NEW b, NEW c
    PROVE  Named(TopicMetadata, <<a, b, c>>)
             = [topic_error_code_ |-> a, topic_ |-> b, partition_metadata_ |-> c]
BY DEF Named, TopicMetadata, Read16, Text, Many, Item

PartitionsAnswered(partitions, replicas) ==
    Array(partitions, LAMBDA p :
        Int16(0) \o Int32(p) \o (Int32(1) \o Array(replicas, Int32) \o Array(replicas, Int32)))

LEMMA TopicMetadataGot ==
    ASSUME NEW error \in Int, NEW partitions \in Seq(Int), NEW replicas \in Seq(Int)
    PROVE  LET wire == Int16(error) \o String(Topic) \o PartitionsAnswered(partitions, replicas)
           IN  \E value : /\ TopicMetadataSize(value) \in Nat
                          /\ Gets(Object(TopicMetadata), wire, value, TopicMetadataSize(value))
<1> DEFINE n == Len(partitions)
           replica == Array(replicas, Int32)
           wires == [i \in 1 .. n |-> Int16(0) \o Int32(partitions[i]) \o (Int32(1) \o replica \o replica)]
           values == [i \in 1 .. n |-> PartitionReadAs(partitions[i], replicas)]
           sizes == [i \in 1 .. n |-> PartitionMetadataSize(values[i])]
           array == Int32(n) \o FlattenSeq(wires)
           wire == (Int16(error) \o String(Topic)) \o array
           c == TopicMetadata
           topic == [topic_error_code_ |-> error, topic_ |-> Topic, partition_metadata_ |-> values]
           sum == SumOfFirst(sizes, n)
           each == 18 + 8 * Len(replicas)
           bytes == (2 + (2 + Topic)) + (4 + sum)
<1>1. n \in Nat /\ DOMAIN partitions = 1 .. n /\ \A i \in 1 .. n : partitions[i] \in Int
  BY LenProperties, ElementOfSeq
<1>2. PartitionsAnswered(partitions, replicas) = array
  BY <1>1 DEF PartitionsAnswered, Array
<1>3. ASSUME NEW i \in 1 .. n
      PROVE  Gets(Object(PartitionMetadata), wires[i], values[i], sizes[i]) /\ sizes[i] = each
  <2> DEFINE p == partitions[i]
             v == PartitionReadAs(p, replicas)
  <2>1. p \in Int
    BY <1>1
  <2>2. wires[i] = Int16(0) \o Int32(p) \o (Int32(1) \o replica \o replica) /\ values[i] = v
        /\ sizes[i] = PartitionMetadataSize(v)
    OBVIOUS
  <2>3. PartitionMetadataSize(v) = each
    <3> DEFINE k == Len(replicas)
    <3>1. k \in Nat
      BY LenProperties
    <3>2. PartitionMetadataSize(v) = 2 + 4 + 4 + 4 + 4 * k + 4 + 4 * k
      BY DEF PartitionMetadataSize, PartitionReadAs
    <3>3. each = 18 + 8 * k
      OBVIOUS
    <3> HIDE DEF k, v, each
    <3> QED BY <3>1, <3>2, <3>3
  <2> HIDE DEF wires, values, sizes, v, p
  <2>4. Gets(Object(PartitionMetadata), Int16(0) \o Int32(p) \o (Int32(1) \o replica \o replica), v, each)
    BY <2>1, PartitionMetadataGot DEF v
  <2> QED BY <2>2, <2>3, <2>4
<1>4. Gets(Elements(Object(PartitionMetadata)), array, values, 4 + sum)
  <2>1. DOMAIN wires = 1 .. n /\ DOMAIN values = 1 .. n
        /\ wires = [i \in 1 .. n |-> wires[i]] /\ values = [i \in 1 .. n |-> values[i]]
    OBVIOUS
  <2> HIDE DEF wires, values, sizes, n
  <2> QED BY <1>1, <1>3, <2>1, ElementsGot
<1>5. SumOf(values, PartitionMetadataSize) = sum /\ sum \in Nat
  <2>1. Len(values) = n /\ DOMAIN values = 1 .. n
    BY <1>1
  <2>2. SumOf(values, PartitionMetadataSize) = sum
    BY <2>1 DEF SumOf
  <2>3. each \in Nat
    BY LenProperties
  <2>4. \A i \in 1 .. n : sizes[i] = each
    BY <1>3
  <2> HIDE DEF sizes, each, n
  <2>5. sum = n * each
    BY <1>1, <2>3, <2>4, SumOfEqual
  <2>6. n * each \in Nat
    BY <1>1, <2>3
  <2> QED BY <2>2, <2>5, <2>6
<1>6. /\ DOMAIN c = 1 .. 3 /\ ReadersOf(c)[1] = Number(2) /\ ReadersOf(c)[2] = Characters(2)
      /\ ReadersOf(c)[3] = Elements(Object(PartitionMetadata)) /\ 3 \in Nat
  BY DEF TopicMetadata, Read16, Text, Many, Item, ReadersOf
<1>7. Gets(Number(2), Int16(error), error, 2) /\ Gets(Characters(2), String(Topic), Topic, 2 + Topic)
  BY NumbersGot, StringsGot, NamesAssumption
<1> HIDE DEF values, array, sum
<1>8. ReadsFirst(ReadersOf(c), 3, wire, <<error, Topic, values>>)
  <2> HIDE DEF c
  <2> QED BY <1>4, <1>6, <1>7, FirstThree DEF Gets
<1>9. Takes(wire, bytes)
  BY <1>4, <1>7, BothTake DEF Gets
<1>10. Named(c, <<error, Topic, values>>) = topic
  BY TopicMetadataNamed
<1>11. TopicMetadataSize(topic) = bytes /\ bytes \in Nat
  BY <1>5, NamesAssumption DEF TopicMetadataSize
<1> HIDE DEF wire, bytes, topic, c
<1>12. Reads(Object(c), wire, topic)
  BY <1>6, <1>8, <1>10, ObjectReads
<1>13. TopicMetadataSize(topic) \in Nat /\ Gets(Object(c), wire, topic, TopicMetadataSize(topic))
  BY <1>9, <1>11, <1>12 DEF Gets
<1> HIDE DEF array
<1> QED BY <1>2, <1>13 DEF wire, c

LEMMA MetadataAnswered ==
    ASSUME NEW correlation \in Int, NEW brokers \in Seq(Int), NEW wire, NEW topic,
           TopicMetadataSize(topic) \in Nat,
           Gets(Object(TopicMetadata), wire, topic, TopicMetadataSize(topic))
    PROVE  ComesOf("Metadata", correlation, Array(brokers, BrokerOf) \o Int32(1) \o wire) = "response"
<1> DEFINE n == Len(brokers)
           wires == [i \in 1 .. n |-> BrokerOf(brokers[i])]
           values == [i \in 1 .. n |-> [id_ |-> brokers[i], ip_ |-> Host, port_ |-> 9092]]
           sizes == [i \in 1 .. n |-> BrokerSize(values[i])]
           array == Int32(n) \o FlattenSeq(wires)
           rest == Int32(1) \o FlattenSeq(<<wire>>)
           body == array \o rest
           c == MetadataResponse
           r == Answer("Metadata", correlation, body)
           sum == SumOfFirst(sizes, n)
           size == TopicMetadataSize(topic)
           bytes == (4 + sum) + (4 + size)
<1>1. n \in Nat /\ DOMAIN brokers = 1 .. n /\ \A i \in 1 .. n : brokers[i] \in Int
  BY LenProperties, ElementOfSeq
<1>2. Array(brokers, BrokerOf) = array
  BY <1>1 DEF Array
<1>3. ASSUME NEW i \in 1 .. n PROVE Gets(Object(Broker), wires[i], values[i], sizes[i]) /\ sizes[i] = 19
  <2> DEFINE b == brokers[i]
             v == [id_ |-> b, ip_ |-> Host, port_ |-> 9092]
  <2>1. b \in Int /\ Host \in Nat /\ 9092 \in Int
    BY <1>1 DEF Host
  <2>2. wires[i] = (Int32(b) \o String(Host)) \o Int32(9092) /\ values[i] = v
        /\ sizes[i] = 4 + 2 + Host + 4
    BY DEF BrokerSize, BrokerOf
  <2> HIDE DEF wires, values, sizes, b
  <2>3. Gets(Object(Broker), (Int32(b) \o String(Host)) \o Int32(9092), v, (4 + (2 + Host)) + 4)
    BY <2>1, BrokerGot
  <2>4. (4 + (2 + Host)) + 4 = 19 /\ 4 + 2 + Host + 4 = 19
    BY DEF Host
  <2> HIDE DEF v
  <2> QED BY <2>2, <2>3, <2>4
<1>4. Gets(Elements(Object(Broker)), array, values, 4 + sum)
  <2>1. DOMAIN wires = 1 .. n /\ DOMAIN values = 1 .. n
        /\ wires = [i \in 1 .. n |-> wires[i]] /\ values = [i \in 1 .. n |-> values[i]]
    OBVIOUS
  <2> HIDE DEF wires, values, sizes, n
  <2> QED BY <1>1, <1>3, <2>1, ElementsGot
<1>5. SumOf(values, BrokerSize) = sum /\ sum \in Nat
  <2>1. Len(values) = n /\ DOMAIN values = 1 .. n
    BY <1>1
  <2>2. SumOf(values, BrokerSize) = sum
    BY <2>1 DEF SumOf
  <2>3. 19 \in Nat /\ \A i \in 1 .. n : sizes[i] = 19
    BY <1>3
  <2> HIDE DEF sizes, n
  <2>4. sum = n * 19
    BY <1>1, <2>3, SumOfEqual
  <2>5. n * 19 \in Nat
    BY <1>1
  <2> QED BY <2>2, <2>4, <2>5
<1>6. /\ DOMAIN c = 1 .. 2 /\ ReadersOf(c)[1] = Elements(Object(Broker))
      /\ ReadersOf(c)[2] = Elements(Object(TopicMetadata)) /\ 2 \in Nat
      /\ c[1].name = "brokers_" /\ c[2].name = "topic_metadata_"
  BY DEF MetadataResponse, Many, Item, ReadersOf
<1>7. Gets(Elements(Object(TopicMetadata)), rest, <<topic>>, 4 + size)
  <2> HIDE DEF size
  <2> QED BY OneGot DEF size
<1> HIDE DEF values, array, sum, rest
<1>8. ReadsFirst(ReadersOf(c), 2, body, <<values, <<topic>> >>) /\ Takes(body, bytes)
  <2> HIDE DEF c
  <2> QED BY <1>4, <1>6, <1>7, FirstTwo, BothTake DEF Gets
<1>9. (array \o Int32(1)) \o wire = body
  <2>1. FlattenSeq(<<wire>>) = wire
    BY FlattenOne
  <2>2. array \in Wires /\ Int32(1) \in Wires /\ wire \in Wires
    BY <1>4, IntsTake DEF Gets, Takes
  <2> DEFINE one == Int32(1)
  <2> HIDE DEF one
  <2>3. (array \o one) \o wire = array \o (one \o wire)
    BY <2>2, WiresAssociate DEF one
  <2> QED BY <2>1, <2>3 DEF one, rest
<1>10. "Metadata" \in DOMAIN Constructor /\ Constructor["Metadata"] = c
  BY DEF Constructor
<1> HIDE DEF body, c, bytes, size
<1>11. IsAnswer("Metadata", correlation, body, <<values, <<topic>> >>, bytes)
  BY <1>6, <1>8, <1>10, AnswersAre
<1>12. r.total_size_ = 4 + bytes /\ r.brokers_ = values /\ r.topic_metadata_ = <<topic>>
  <2>1. 1 \in DOMAIN c /\ 2 \in DOMAIN c /\ <<values, <<topic>> >>[1] = values
        /\ <<values, <<topic>> >>[2] = <<topic>>
    BY <1>6
  <2> QED BY <1>6, <1>10, <1>11, <2>1 DEF IsAnswer
<1>13. MetadataResponseSize(r) = 4 + bytes
  <2>1. SumOf(<<topic>>, TopicMetadataSize) = size
    <3> DEFINE f == [i \in DOMAIN <<topic>> |-> TopicMetadataSize(<<topic>>[i])]
    <3>1. SumOf(<<topic>>, TopicMetadataSize) = SumOfFirst(f, 1) /\ f[1] = size /\ size \in Int
      BY DEF SumOf, size
    <3> HIDE DEF f
    <3> QED BY <3>1, SumOne
  <2>2. size \in Nat
    BY DEF size
  <2> HIDE DEF r
  <2>3. SumOf(r.brokers_, BrokerSize) = sum
    BY <1>5, <1>12
  <2>4. SumOf(r.topic_metadata_, TopicMetadataSize) = size
    BY <1>12, <2>1
  <2>5. MetadataResponseSize(r) = 4 + 4 + sum + 4 + size
    BY <2>3, <2>4 DEF MetadataResponseSize, ResponseSize
  <2> QED BY <1>5, <2>2, <2>5 DEF bytes
<1>14. SizesEqual("Metadata", r)
  BY <1>12, <1>13, SizesCompared
<1>15. Content("Metadata", r) # <<>>
  <2>1. Content("Metadata", r) = IF ParseBrokers(r) = {} THEN <<{}>> ELSE ParsePartitions(r)
    BY Contents
  <2>2. r.topic_metadata_ # <<>>
    BY <1>12, SinglesAreSome
  <2>3. ParsePartitions(r) # <<>>
    BY <2>2 DEF ParsePartitions
  <2>4. <<{}>> # <<>>
    OBVIOUS
  <2> HIDE DEF r
  <2> QED BY <2>1, <2>3, <2>4
<1>16. ComesOf("Metadata", correlation, body) = "response"
  BY <1>10, <1>11, <1>14, <1>15, AnswersCome
<1> QED BY <1>2, <1>9, <1>16

-----------------------------------------------------------------------------
(* What comes of any answer there is to a request. *)
MetadataAnswer(brokers, topic) == Array(brokers, BrokerOf) \o Int32(1) \o topic

LEMMA MetadataComes ==
    ASSUME NEW correlation \in Int, NEW body \in MetadataAnswers
    PROVE  ComesOf("Metadata", correlation, body) = "response"
<1> DEFINE error(partitions) == IF partitions = <<>> THEN 3 ELSE 0
           topic(partitions, replicas) ==
                Int16(error(partitions)) \o String(Topic) \o PartitionsAnswered(partitions, replicas)
<1>1. PICK brokers \in BrokerLists, partitions \in PartitionLists, replicas \in ReplicaLists :
        body = MetadataAnswer(brokers, topic(partitions, replicas))
  <2>1. MetadataAnswers = {MetadataAnswer(brokers, topic(partitions, replicas)) :
            brokers \in BrokerLists, partitions \in PartitionLists, replicas \in ReplicaLists}
    BY DEF MetadataAnswers, MetadataAnswer, PartitionsAnswered, Array
  <2> HIDE DEF topic
  <2> QED BY <2>1
<1>2. brokers \in Seq(Int) /\ partitions \in Seq(Int) /\ replicas \in Seq(Int)
  BY ProtocolAssumption
<1>3. error(partitions) \in Int
  OBVIOUS
<1> HIDE DEF error
<1>4. \E value : /\ TopicMetadataSize(value) \in Nat
                 /\ Gets(Object(TopicMetadata), topic(partitions, replicas), value,
                         TopicMetadataSize(value))
  BY <1>2, <1>3, TopicMetadataGot
<1> HIDE DEF topic
<1>5. PICK value : /\ TopicMetadataSize(value) \in Nat
                   /\ Gets(Object(TopicMetadata), topic(partitions, replicas), value,
                           TopicMetadataSize(value))
  BY <1>4
<1> QED BY <1>1, <1>2, <1>5, MetadataAnswered DEF MetadataAnswer

LEMMA CoordinatorComes ==
    ASSUME NEW correlation \in Int, NEW body \in CoordinatorAnswers
    PROVE  ComesOf("GroupCoordinator", correlation, body) = "response"
<1>1. ASSUME NEW error \in Int, NEW id \in Int, NEW host \in Nat, NEW port \in Int
      PROVE  ComesOf("GroupCoordinator", correlation,
                     Int16(error) \o (Int32(id) \o String(host) \o Int32(port))) = "response"
  <2> DEFINE w1 == Int16(error)
             w2 == Int32(id)
             w3 == String(host)
             w4 == Int32(port)
  <2>1. w1 \in Wires /\ w2 \in Wires /\ w3 \in Wires /\ w4 \in Wires
    BY IntsTake, StringTakes DEF Takes
  <2>2. ComesOf("GroupCoordinator", correlation, ((w1 \o w2) \o w3) \o w4) = "response"
    BY GroupCoordinatorAnswered
  <2> HIDE DEF w1, w2, w3, w4
  <2>3. w2 \o w3 \in Wires
    BY <2>1, BytesOfBoth
  <2>4. (w1 \o (w2 \o w3)) \o w4 = w1 \o ((w2 \o w3) \o w4)
    BY <2>1, <2>3, WiresAssociate
  <2>5. (w1 \o w2) \o w3 = w1 \o (w2 \o w3)
    BY <2>1, WiresAssociate
  <2>6. ((w1 \o w2) \o w3) \o w4 = w1 \o ((w2 \o w3) \o w4)
    BY <2>4, <2>5
  <2> QED BY <2>2, <2>6 DEF w1, w2, w3, w4
<1>2. 0 \in Int /\ 1 \in Int /\ 15 \in Int /\ -1 \in Int /\ 9092 \in Int /\ Host \in Nat /\ 0 \in Nat
  BY DEF Host
<1>3. CASE body = Int16(0) \o BrokerOf(1)
  BY <1>1, <1>2, <1>3 DEF BrokerOf
<1>4. CASE body = Int16(15) \o Int32(-1) \o String(0) \o Int32(-1)
  BY <1>2, <1>4, GroupCoordinatorAnswered
<1> QED BY <1>3, <1>4 DEF CoordinatorAnswers

LEMMA JoinGroupComes ==
    ASSUME NEW correlation \in Int, NEW r, r.member_id_ \in Nat, NEW body \in JoinGroupAnswers(r)
    PROVE  ComesOf("JoinGroup", correlation, body) = "response"
<1> DEFINE joined(list) == Int16(0) \o Int32(1) \o String(5) \o String(MemberIdLength)
                               \o String(MemberIdLength) \o MembersAnswered(list)
           refused == Int16(25) \o Int32(0) \o String(0) \o String(0) \o String(r.member_id_) \o Int32(0)
<1>1. body = refused \/ \E list \in MemberLists : body = joined(list)
  BY DEF JoinGroupAnswers, MembersAnswered
<1>2. 0 \in Int /\ 1 \in Int /\ 25 \in Int /\ 5 \in Nat /\ 0 \in Nat /\ MemberIdLength \in Nat
  BY DEF MemberIdLength
<1>3. CASE body = refused
  <2>1. <<>> \in Seq(Nat)
    OBVIOUS
  <2>2. MembersAnswered(<<>>) = Int32(0)
    <3> DEFINE none == <<>>
               wires == [i \in DOMAIN none |-> String(none[i]) \o Int32(20) \o Field(20, 20)]
    <3>1. Len(none) = 0 /\ wires = <<>>
      OBVIOUS
    <3>2. MembersAnswered(none) = Int32(Len(none)) \o FlattenSeq(wires)
      BY DEF MembersAnswered, Array
    <3> HIDE DEF none, wires
    <3>3. FlattenSeq(<<>>) = <<>>
      BY DEF FlattenSeq
    <3>4. Int32(0) \in Wires
      BY <1>2, IntsTake DEF Takes
    <3>5. Int32(0) \o <<>> = Int32(0)
      BY <3>4, ConcatEmptySeq
    <3> QED BY <3>1, <3>2, <3>3, <3>5 DEF none
  <2> DEFINE none == <<>>
             id == r.member_id_
  <2>3. none \in Seq(Nat) /\ id \in Nat /\ MembersAnswered(none) = Int32(0)
    BY <2>1, <2>2
  <2> HIDE DEF none, id
  <2>4. ComesOf("JoinGroup", correlation,
                Int16(25) \o Int32(0) \o String(0) \o String(0) \o String(id)
                    \o MembersAnswered(none)) = "response"
    BY <1>2, <2>3, JoinGroupAnswered
  <2> QED BY <1>3, <2>3, <2>4 DEF id
<1>4. CASE \E list \in MemberLists : body = joined(list)
  <2>1. PICK list \in MemberLists : body = joined(list)
    BY <1>4
  <2>2. list \in Seq(Nat)
    BY ProtocolAssumption
  <2> QED BY <1>2, <2>1, <2>2, JoinGroupAnswered
<1> QED BY <1>1, <1>3, <1>4

LEMMA SyncGroupComes ==
    ASSUME NEW correlation \in Int, NEW body \in SyncGroupAnswers
    PROVE  ComesOf("SyncGroup", correlation, body) \in {"response", "error", "overread"}
<1> DEFINE assigned(partitions) == PackageMemberAssignment(MemberAssignment(partitions))
<1>1. \/ \E partitions \in PartitionLists :
            body = Int16(0) \o Int32(ByteCount(assigned(partitions))) \o assigned(partitions)
      \/ \E error \in ErrorCodes : body = Int16(error) \o Int32(0)
  BY DEF SyncGroupAnswers
<1>2. ASSUME NEW partitions \in PartitionLists,
             body = Int16(0) \o Int32(ByteCount(assigned(partitions))) \o assigned(partitions)
      PROVE  ComesOf("SyncGroup", correlation, body) = "response"
  <2>1. partitions \in Seq(Int)
    BY ProtocolAssumption
  <2>2. assigned(partitions) \in Wires
    BY <2>1, AssignmentReadGot DEF Gets, Takes
  <2>3. ByteCount(assigned(partitions)) \in Int
    BY <2>2, BytesType
  <2> QED BY <1>2, <2>1, <2>3, SyncGroupAnswered
<1>3. ASSUME NEW error \in ErrorCodes, body = Int16(error) \o Int32(0)
      PROVE  ComesOf("SyncGroup", correlation, body) \in {"error", "overread"}
  <2>1. error \in Int
    BY ProtocolAssumption
  <2> QED BY <1>3, <2>1, SyncGroupFailed
<1> QED BY <1>1, <1>2, <1>3

LEMMA SyncGroupOverread ==
    ASSUME NEW correlation \in Int, NEW body \in SyncGroupAnswers,
           ComesOf("SyncGroup", correlation, body) = "overread"
    PROVE  Takes(body, 6)
<1> DEFINE assigned(partitions) == PackageMemberAssignment(MemberAssignment(partitions))
<1>1. \/ \E partitions \in PartitionLists :
            body = Int16(0) \o Int32(ByteCount(assigned(partitions))) \o assigned(partitions)
      \/ \E error \in ErrorCodes : body = Int16(error) \o Int32(0)
  BY DEF SyncGroupAnswers
<1>2. ASSUME NEW partitions \in PartitionLists,
             body = Int16(0) \o Int32(ByteCount(assigned(partitions))) \o assigned(partitions)
      PROVE  FALSE
  <2>1. partitions \in Seq(Int)
    BY ProtocolAssumption
  <2>2. assigned(partitions) \in Wires
    BY <2>1, AssignmentReadGot DEF Gets, Takes
  <2>3. ByteCount(assigned(partitions)) \in Int
    BY <2>2, BytesType
  <2>4. ComesOf("SyncGroup", correlation, body) = "response"
    BY <1>2, <2>1, <2>3, SyncGroupAnswered
  <2> QED BY <2>4
<1>3. ASSUME NEW error \in ErrorCodes, body = Int16(error) \o Int32(0)
      PROVE  Takes(body, 6)
  <2>1. error \in Int
    BY ProtocolAssumption
  <2>2. Takes(Int16(error), 2) /\ Takes(Int32(0), 4)
    BY <2>1, IntsTake
  <2>3. Takes(body, 2 + 4)
    BY <1>3, <2>2, BothTake
  <2> QED BY <2>3
<1> QED BY <1>1, <1>2, <1>3

LEMMA HeartbeatComes ==
    ASSUME NEW correlation \in Int, NEW body \in {Int16(error) : error \in ErrorCodes}
    PROVE  ComesOf("Heartbeat", correlation, body) = "response"
<1>1. PICK error \in ErrorCodes : body = Int16(error)
  OBVIOUS
<1>2. error \in Int
  BY ProtocolAssumption
<1> QED BY <1>1, <1>2, HeartbeatAnswered

LEMMA OffsetFetchComes ==
    ASSUME NEW correlation \in Int, NEW partitions \in Seq(Int),
           NEW body \in OffsetFetchAnswers(OffsetFetchRequest(partitions))
    PROVE  \/ ComesOf("OffsetFetch", correlation, body) = "response"
           \/ Len(partitions) = 0 /\ ComesOf("OffsetFetch", correlation, body) = "overread"
<1> DEFINE r == OffsetFetchRequest(partitions)
           n == Len(partitions)
           parts == r.topics[1].partitions_
<1>1. n \in Nat /\ DOMAIN partitions = 1 .. n /\ \A i \in 1 .. n : partitions[i] \in Int
  BY LenProperties, ElementOfSeq
<1>2. parts = [i \in 1 .. n |-> [id |-> partitions[i]]]
  BY <1>1 DEF OffsetFetchRequest, PartitionAssignmentOf
<1>3. DOMAIN parts = 1 .. n /\ Len(parts) = n /\ (\A i \in 1 .. n : parts[i].id \in Int)
      /\ (n # 0 => parts # <<>>) /\ (n = 0 => parts = <<>>)
  BY <1>1, <1>2
<1>4. PICK error \in ErrorCodes : body = OffsetsAnswered(parts, error)
  <2>1. OffsetFetchAnswers(r) = {OffsetsAnswered(parts, error) : error \in ErrorCodes}
    BY DEF OffsetFetchAnswers, OffsetsAnswered, ByTopic, Array
  <2> HIDE DEF parts, r
  <2> QED BY <2>1 DEF r
<1>5. error \in Int
  BY ProtocolAssumption
<1>6. CASE n # 0
  <2> HIDE DEF parts, n
  <2> QED BY <1>1, <1>3, <1>4, <1>5, <1>6, OffsetFetchAnswered
<1>7. CASE n = 0
  <2> DEFINE topics == IF parts = <<>> THEN <<>> ELSE <<Topic>>
             all == Int32(Len(parts)) \o FlattenSeq([i \in DOMAIN parts |->
                        Int32(parts[i].id) \o Int64(-1) \o String(0) \o Int16(error)])
  <2>1. OffsetsAnswered(parts, error)
          = Int32(Len(topics)) \o FlattenSeq([i \in DOMAIN topics |-> String(topics[i]) \o all])
    BY DEF OffsetsAnswered, ByTopic, Array
  <2>2. topics = <<>>
    BY <1>3, <1>7
  <2> HIDE DEF topics, all, parts
  <2>3. Len(<<>>) = 0 /\ [i \in DOMAIN <<>> |-> String(<<>>[i]) \o all] = <<>>
    OBVIOUS
  <2>4. body = Int32(0) \o FlattenSeq(<<>>)
    BY <1>4, <2>1, <2>2, <2>3
  <2> QED BY <1>7, <2>4, NoOffsetsAnswered
<1> QED BY <1>6, <1>7

LEMMA OffsetComes ==
    ASSUME NEW correlation \in Int, NEW partitions \in Seq(Int), partitions # <<>>,
           NEW body \in OffsetAnswers(OffsetRequest(partitions))
    PROVE  ComesOf("Offset", correlation, body) = "response"
<1> DEFINE r == OffsetRequest(partitions)
           n == Len(partitions)
           parts == r.topic_partition_array_[1].partition_time_array_
<1>1. n \in Nat /\ n # 0 /\ DOMAIN partitions = 1 .. n /\ \A i \in 1 .. n : partitions[i] \in Int
  BY LenProperties, ElementOfSeq, EmptySeq
<1>2. parts = [i \in 1 .. n |-> PartitionTime(partitions[i])]
  BY <1>1 DEF OffsetRequest, TopicPartition
<1>3. About(parts, n)
  BY <1>1, <1>2 DEF About, PartitionTime
<1>4. PICK error \in ErrorCodes : body = NewestAnswered(parts, error)
  <2>1. OffsetAnswers(r) = {NewestAnswered(parts, error) : error \in ErrorCodes}
    BY DEF OffsetAnswers, NewestAnswered, ByTopic, Array
  <2> HIDE DEF parts, r
  <2> QED BY <2>1 DEF r
<1>5. error \in Int
  BY ProtocolAssumption
<1> HIDE DEF parts, n
<1> QED BY <1>3, <1>4, <1>5, OffsetAnswered

LEMMA OffsetsHave ==
    ASSUME NEW offsets \in Seq(Offsets)
    PROVE  /\ Len(offsets) \in Nat /\ DOMAIN offsets = 1 .. Len(offsets)
           /\ offsets # <<>> => Len(offsets) # 0
           /\ \A i \in 1 .. Len(offsets) : offsets[i].partition \in Int
<1>1. Len(offsets) \in Nat /\ DOMAIN offsets = 1 .. Len(offsets) /\ (offsets # <<>> => Len(offsets) # 0)
  BY LenProperties, EmptySeq
<1>2. \A i \in 1 .. Len(offsets) : offsets[i] \in Offsets
  BY ElementOfSeq
<1> QED BY <1>1, <1>2 DEF Offsets

LEMMA OffsetCommitComes ==
    ASSUME NEW correlation \in Int, NEW offsets \in Seq(Offsets), offsets # <<>>,
           NEW generation, NEW member,
           NEW body \in OffsetCommitAnswers(OffsetCommitRequest(generation, member, offsets))
    PROVE  ComesOf("OffsetCommit", correlation, body) = "response"
<1> DEFINE r == OffsetCommitRequest(generation, member, offsets)
           n == Len(offsets)
           parts == r.topic_partitions_[1].partitions_
<1>1. n \in Nat /\ n # 0 /\ DOMAIN offsets = 1 .. n /\ \A i \in 1 .. n : offsets[i].partition \in Int
  BY OffsetsHave
<1>2. parts = [i \in 1 .. n |-> PartitionOM(offsets[i])]
  BY <1>1 DEF OffsetCommitRequest, TopicPartitionOM
<1>3. About(parts, n)
  BY <1>1, <1>2 DEF About, PartitionOM
<1>4. PICK error \in ErrorCodes : body = CommitsAnswered(parts, error)
  <2>1. OffsetCommitAnswers(r) = {CommitsAnswered(parts, error) : error \in ErrorCodes}
    BY DEF OffsetCommitAnswers, CommitsAnswered, ByTopic, Array
  <2> HIDE DEF parts, r
  <2> QED BY <2>1 DEF r
<1>5. error \in Int
  BY ProtocolAssumption
<1> HIDE DEF parts, n
<1> QED BY <1>3, <1>4, <1>5, OffsetCommitAnswered

LEMMA FetchAnswersAre ==
    ASSUME NEW r
    PROVE  FetchAnswers(r) = {Int32(0) \o SetsAnswered(r.topic_partitions_[1].partitions_, error, size) :
                                error \in ErrorCodes, size \in MessageSetSizes}
BY DEF FetchAnswers, SetsAnswered, ByTopic, Array

LEMMA FetchComes ==
    ASSUME NEW correlation \in Int, NEW offsets \in Seq(Offsets),
           NEW body \in FetchAnswers(FetchRequest(offsets))
    PROVE  \/ ComesOf("Fetch", correlation, body) = "response"
           \/ Len(offsets) = 0 /\ ComesOf("Fetch", correlation, body) = "overread"
<1> DEFINE r == FetchRequest(offsets)
           n == Len(offsets)
           parts == r.topic_partitions_[1].partitions_
<1>1. n \in Nat /\ DOMAIN offsets = 1 .. n /\ \A i \in 1 .. n : offsets[i].partition \in Int
  BY OffsetsHave
<1>2. parts = [i \in 1 .. n |-> PartitionFM(offsets[i])]
  BY <1>1 DEF FetchRequest, TopicPartitionFM
<1>3. (n # 0 => About(parts, n)) /\ (n = 0 => parts = <<>>)
  BY <1>1, <1>2 DEF About, PartitionFM
<1>4. PICK error \in ErrorCodes, size \in MessageSetSizes :
        body = Int32(0) \o SetsAnswered(parts, error, size)
  <2> HIDE DEF parts, r
  <2> QED BY FetchAnswersAre DEF r, parts
<1>5. error \in Int /\ size \in Nat
  BY ProtocolAssumption
<1>6. CASE n # 0
  <2> HIDE DEF parts, n
  <2> QED BY <1>3, <1>4, <1>5, <1>6, FetchAnswered
<1>7. CASE n = 0
  <2> DEFINE topics == IF parts = <<>> THEN <<>> ELSE <<Topic>>
             all == Int32(Len(parts)) \o FlattenSeq([i \in DOMAIN parts |->
                        Int32(parts[i].partition_) \o Int16(error) \o Int64(100) \o Int32(size)
                            \o Field(size, size)])
  <2>1. SetsAnswered(parts, error, size)
          = Int32(Len(topics)) \o FlattenSeq([i \in DOMAIN topics |-> String(topics[i]) \o all])
    BY DEF SetsAnswered, ByTopic, Array
  <2>2. topics = <<>>
    BY <1>3, <1>7
  <2> HIDE DEF topics, all, parts
  <2>3. Len(<<>>) = 0 /\ [i \in DOMAIN <<>> |-> String(<<>>[i]) \o all] = <<>>
    OBVIOUS
  <2>4. body = Int32(0) \o (Int32(0) \o FlattenSeq(<<>>))
    BY <1>4, <2>1, <2>2, <2>3
  <2> QED BY <1>7, <2>4, NothingFetched
<1> QED BY <1>6, <1>7

-----------------------------------------------------------------------------
(* The answers to each request, with the correlation id it was sent with. *)
LEMMA BodiesOf ==
    ASSUME NEW request
    PROVE  /\ request.type = "Metadata" => AnswerBodies(request) = MetadataAnswers
           /\ request.type = "GroupCoordinator" => AnswerBodies(request) = CoordinatorAnswers
           /\ request.type = "JoinGroup" => AnswerBodies(request) = JoinGroupAnswers(request.body)
           /\ request.type = "SyncGroup" => AnswerBodies(request) = SyncGroupAnswers
           /\ request.type = "Heartbeat" => AnswerBodies(request) = {Int16(error) : error \in ErrorCodes}
           /\ request.type = "OffsetFetch" => AnswerBodies(request) = OffsetFetchAnswers(request.body)
           /\ request.type = "Offset" => AnswerBodies(request) = OffsetAnswers(request.body)
           /\ request.type = "OffsetCommit" => AnswerBodies(request) = OffsetCommitAnswers(request.body)
           /\ request.type = "Fetch" => AnswerBodies(request) = FetchAnswers(request.body)
BY Zenon DEF AnswerBodies

LEMMA CorrelationsAre ==
    ASSUME NEW request, CountsBody(request)
    PROVE  /\ Object(RequestHead)[Package(request)].value.correlation = ApiKey[request.type]
           /\ ApiKey[request.type] \in Int
<1> DEFINE size == CountSize(request)
           type == request.type
           body == PackageBody(request)
           front == PackageHead(type, size)
           value == [size |-> size, key |-> ApiKey[type], version |-> ApiVersion[type],
                     correlation |-> ApiKey[type], client |-> 10]
<1>1. type \in DOMAIN ApiKey /\ size \in Nat
  BY SizesAre DEF CountsBody
<1>2. Reads(Object(RequestHead), front, value)
  <2> HIDE DEF size, type
  <2> QED BY <1>1, HeadReads
<1>3. body \in Wires
  BY DEF CountsBody, Takes
<1>4. Package(request) = front \o body
  BY DEF Package
<1>5. value.correlation = ApiKey[type] /\ ApiKey[type] \in Int
  BY <1>1 DEF ApiKey
<1> HIDE DEF front, value, body
<1>6. Object(RequestHead)[front \o body] = Got(value, body)
  BY <1>2, <1>3 DEF Reads
<1> QED BY <1>4, <1>5, <1>6 DEF Got

(* What receiving an answer to a request may come to. *)
Known(request, comes) ==
    \/ comes = "response"
    \/ request.type = "SyncGroup" /\ comes \in {"error", "overread"}
    \/ request.type \in {"OffsetFetch", "Fetch"} /\ Entries(request) = 0 /\ comes = "overread"

LEMMA AboutOne ==
    /\ \A partitions \in Seq(Int) :
        Entries(Of("OffsetFetch", OffsetFetchRequest(partitions))) = Len(partitions)
    /\ \A offsets \in Seq(Offsets) : Entries(Of("Fetch", FetchRequest(offsets))) = Len(offsets)
<1>1. <<>> \in Seq(Int) /\ <<>> \in Seq(Offsets)
  OBVIOUS
<1>2. ASSUME NEW partitions \in Seq(Int), NEW offsets \in Seq(Offsets)
      PROVE  /\ Entries(Of("OffsetFetch", OffsetFetchRequest(partitions))) = Len(partitions)
             /\ Entries(Of("Fetch", FetchRequest(offsets))) = Len(offsets)
  <2> DEFINE Kept(generation, member) ==
        /\ Entries(Of("OffsetFetch", OffsetFetchRequest(partitions))) = Len(partitions)
        /\ Entries(Of("Offset", OffsetRequest(partitions))) = Len(partitions)
        /\ Entries(Of("OffsetCommit", OffsetCommitRequest(generation, member, offsets))) = Len(offsets)
        /\ Entries(Of("Fetch", FetchRequest(offsets))) = Len(offsets)
  <2>1. \A generation, member : Kept(generation, member)
    BY EntriesOf
  <2>2. Kept(0, 0)
    BY <2>1
  <2> QED BY <2>2
<1> QED BY <1>1, <1>2

LEMMA BodiesCome ==
    ASSUME NEW request \in WireRequests, NEW correlation \in Int, NEW body \in AnswerBodies(request)
    PROVE  Known(request, ComesOf(request.type, correlation, body))
<1>1. CASE request = Of("Metadata", MetadataRequest)
  <2>1. request.type = "Metadata"
    BY <1>1 DEF Of
  <2>2. body \in MetadataAnswers
    BY <2>1, BodiesOf
  <2> QED BY <2>1, <2>2, MetadataComes DEF Known
<1>2. CASE request = Of("GroupCoordinator", GroupCoordinatorRequest)
  <2>1. request.type = "GroupCoordinator"
    BY <1>2 DEF Of
  <2>2. body \in CoordinatorAnswers
    BY <2>1, BodiesOf
  <2> QED BY <2>1, <2>2, CoordinatorComes DEF Known
<1>3. CASE \E member \in {0} \cup MemberIds : request = Of("JoinGroup", JoinGroupRequest(member))
  <2>1. PICK member \in {0} \cup MemberIds : request = Of("JoinGroup", JoinGroupRequest(member))
    BY <1>3
  <2>2. request.type = "JoinGroup" /\ request.body = JoinGroupRequest(member)
    BY <2>1 DEF Of
  <2>3. request.body.member_id_ \in Nat
    <3>1. member \in Nat
      BY ListsAssumption
    <3> QED BY <2>2, <3>1 DEF JoinGroupRequest
  <2>4. body \in JoinGroupAnswers(request.body)
    BY <2>2, BodiesOf
  <2>5. ComesOf("JoinGroup", correlation, body) = "response"
    <3> DEFINE r == request.body
    <3>1. r.member_id_ \in Nat /\ body \in JoinGroupAnswers(r)
      BY <2>3, <2>4
    <3> HIDE DEF r
    <3> QED BY <3>1, JoinGroupComes
  <2> QED BY <2>2, <2>5 DEF Known
<1>4. CASE \E generation \in Generations, member \in MemberIds, assignment \in Assignments :
                request = Of("SyncGroup", SyncGroupRequest(generation, member, assignment))
  <2>1. request.type = "SyncGroup"
    BY <1>4 DEF Of
  <2>2. body \in SyncGroupAnswers
    BY <2>1, BodiesOf
  <2> QED BY <2>1, <2>2, SyncGroupComes DEF Known
<1>5. CASE \E generation \in Generations, member \in MemberIds :
                request = Of("Heartbeat", HeartbeatRequest(generation, member))
  <2>1. request.type = "Heartbeat"
    BY <1>5 DEF Of
  <2>2. body \in {Int16(error) : error \in ErrorCodes}
    BY <2>1, BodiesOf
  <2> QED BY <2>1, <2>2, HeartbeatComes DEF Known
<1>6. CASE \E partitions \in PartitionLists : request = Of("OffsetFetch", OffsetFetchRequest(partitions))
  <2>1. PICK partitions \in PartitionLists : request = Of("OffsetFetch", OffsetFetchRequest(partitions))
    BY <1>6
  <2>2. request.type = "OffsetFetch" /\ request.body = OffsetFetchRequest(partitions)
        /\ partitions \in Seq(Int)
    BY <2>1, ListsInts DEF Of
  <2>3. body \in OffsetFetchAnswers(OffsetFetchRequest(partitions))
    BY <2>2, BodiesOf
  <2>4. Entries(request) = Len(partitions)
    <3>1. Entries(Of("OffsetFetch", OffsetFetchRequest(partitions))) = Len(partitions)
      BY <2>2, AboutOne
    <3> QED BY <2>1, <3>1
  <2>5. \/ ComesOf("OffsetFetch", correlation, body) = "response"
        \/ Len(partitions) = 0 /\ ComesOf("OffsetFetch", correlation, body) = "overread"
    BY <2>2, <2>3, OffsetFetchComes
  <2> QED BY <2>2, <2>4, <2>5 DEF Known
<1>7. CASE \E partitions \in PartitionLists \ {<<>>} : request = Of("Offset", OffsetRequest(partitions))
  <2>1. PICK partitions \in PartitionLists \ {<<>>} : request = Of("Offset", OffsetRequest(partitions))
    BY <1>7
  <2>2. request.type = "Offset" /\ request.body = OffsetRequest(partitions)
        /\ partitions \in Seq(Int) /\ partitions # <<>>
    BY <2>1, ListsInts DEF Of
  <2>3. body \in OffsetAnswers(OffsetRequest(partitions))
    BY <2>2, BodiesOf
  <2>4. ComesOf("Offset", correlation, body) = "response"
    BY <2>2, <2>3, OffsetComes
  <2> QED BY <2>2, <2>4 DEF Known
<1>8. CASE \E generation \in Generations, member \in MemberIds, offsets \in OffsetLists \ {<<>>} :
                request = Of("OffsetCommit", OffsetCommitRequest(generation, member, offsets))
  <2>1. PICK generation \in Generations, member \in MemberIds, offsets \in OffsetLists \ {<<>>} :
            request = Of("OffsetCommit", OffsetCommitRequest(generation, member, offsets))
    BY <1>8
  <2>2. request.type = "OffsetCommit"
        /\ request.body = OffsetCommitRequest(generation, member, offsets)
        /\ offsets \in Seq(Offsets) /\ offsets # <<>>
    BY <2>1, ListsAssumption DEF Of
  <2>3. body \in OffsetCommitAnswers(OffsetCommitRequest(generation, member, offsets))
    BY <2>2, BodiesOf
  <2>4. ComesOf("OffsetCommit", correlation, body) = "response"
    BY <2>2, <2>3, OffsetCommitComes
  <2> QED BY <2>2, <2>4 DEF Known
<1>9. CASE \E offsets \in OffsetLists : request = Of("Fetch", FetchRequest(offsets))
  <2>1. PICK offsets \in OffsetLists : request = Of("Fetch", FetchRequest(offsets))
    BY <1>9
  <2>2. request.type = "Fetch" /\ request.body = FetchRequest(offsets) /\ offsets \in Seq(Offsets)
    BY <2>1, ListsAssumption DEF Of
  <2>3. body \in FetchAnswers(FetchRequest(offsets))
    BY <2>2, BodiesOf
  <2>4. Entries(request) = Len(offsets)
    <3>1. Entries(Of("Fetch", FetchRequest(offsets))) = Len(offsets)
      BY <2>2, AboutOne
    <3> QED BY <2>1, <3>1
  <2>5. \/ ComesOf("Fetch", correlation, body) = "response"
        \/ Len(offsets) = 0 /\ ComesOf("Fetch", correlation, body) = "overread"
    BY <2>2, <2>3, FetchComes
  <2> QED BY <2>2, <2>4, <2>5 DEF Known
<1> QED BY <1>1, <1>2, <1>3, <1>4, <1>5, <1>6, <1>7, <1>8, <1>9, SentAre

(* Whatever a broker may answer to a request, the constructor reads a      *)
(* response of the size that was announced, in which the handler finds     *)
(* what it looks for, unless the answer is an error of a SyncGroupResponse,*)
(* or there is nothing in it for the member: no assignment, no partitions. *)
THEOREM AnswersAreRead ==
    \A request \in WireRequests : \A wire \in BrokerAnswers(request) :
        Known(request, Comes(request.type, wire))
<1> SUFFICES ASSUME NEW request \in WireRequests, NEW wire \in BrokerAnswers(request)
             PROVE  Known(request, Comes(request.type, wire))
  OBVIOUS
<1> DEFINE correlation == Object(RequestHead)[Package(request)].value.correlation
<1>1. PICK body \in AnswerBodies(request) : wire = AnswerWire(correlation, body)
  BY DEF BrokerAnswers, AnswerWire
<1>2. correlation \in Int
  <2>1. CountsBody(request)
    BY SentAreBuilt, BodiesCounted
  <2>2. correlation = ApiKey[request.type] /\ ApiKey[request.type] \in Int
    BY <2>1, CorrelationsAre
  <2> QED BY <2>2
<1> HIDE DEF correlation
<1>3. Known(request, ComesOf(request.type, correlation, body))
  BY <1>1, <1>2, BodiesCome
<1> QED BY <1>1, <1>3 DEF ComesOf

(* What an answer announces is the first number of it. *)
LEMMA AnnouncedFirst ==
    ASSUME NEW number \in Int, NEW correlation \in Int, NEW body \in Wires
    PROVE  ((Int32(number) \o Int32(correlation)) \o body)[1].number = number
<1> DEFINE rest == Int32(correlation) \o body
           wire == Field(4, number) \o rest
<1>1. Int32(number) \in Wires /\ Int32(correlation) \in Wires
  BY FieldTakes DEF Takes, Int32
<1>2. rest \in Wires
  BY <1>1, ConcatProperties
<1>3. (Int32(number) \o Int32(correlation)) \o body = wire
  BY <1>1, ConcatAssociative DEF Int32
<1>4. StartsWith(wire, 4) /\ Head(wire).number = number
  <2>1. 4 \in Nat \ {0} /\ number \in Int
    OBVIOUS
  <2> HIDE DEF rest
  <2> QED BY <1>2, <2>1, FieldFirst
<1>5. wire[1] = Head(wire)
  <2> HIDE DEF wire
  <2> QED BY <1>4 DEF StartsWith
<1> HIDE DEF wire
<1> QED BY <1>3, <1>4, <1>5

(* Of the answers to a SyncGroupRequest, only the one that stops where the *)
(* assignment should be is read past its end.                              *)
LEMMA OverreadStops ==
    ASSUME NEW request \in WireRequests, request.type = "SyncGroup",
           NEW wire \in BrokerAnswers(request), Comes(request.type, wire) = "overread"
    PROVE  wire[1].number = NoAssignment
<1> DEFINE correlation == Object(RequestHead)[Package(request)].value.correlation
<1>1. PICK body \in AnswerBodies(request) : wire = AnswerWire(correlation, body)
  BY DEF BrokerAnswers, AnswerWire
<1>2. body \in SyncGroupAnswers
  BY BodiesOf
<1>3. correlation \in Int
  <2>1. CountsBody(request)
    BY SentAreBuilt, BodiesCounted
  <2>2. correlation = ApiKey[request.type] /\ ApiKey[request.type] \in Int
    BY <2>1, CorrelationsAre
  <2> QED BY <2>2
<1> HIDE DEF correlation
<1>4. ComesOf("SyncGroup", correlation, body) = "overread"
  BY <1>1 DEF ComesOf
<1>5. Takes(body, 6)
  BY <1>2, <1>3, <1>4, SyncGroupOverread
<1>6. body \in Wires /\ ByteCount(body) = 6
  BY <1>5 DEF Takes
<1>7. wire = (Int32(4 + ByteCount(body)) \o Int32(correlation)) \o body
  BY <1>1 DEF AnswerWire
<1> DEFINE number == 4 + ByteCount(body)
<1>8. number \in Int /\ number = NoAssignment
  BY <1>6 DEF NoAssignment
<1>9. wire = (Int32(number) \o Int32(correlation)) \o body
  BY <1>7
<1> HIDE DEF number
<1>10. wire[1].number = number
  <2>1. body \in Wires
    BY <1>6
  <2>2. ((Int32(number) \o Int32(correlation)) \o body)[1].number = number
    BY <1>3, <1>8, <2>1, AnnouncedFirst
  <2> QED BY <1>9, <2>2
<1> QED BY <1>8, <1>10

(* The exchange: its answers are those. *)
LEMMA AnswersKnown ==
    ASSUME NEW request \in RequestsSent, NEW answer \in Answers(request)
    PROVE  /\ Known(request, answer.comes)
           /\ request.type = "SyncGroup" /\ answer.comes = "overread" =>
                answer.announced = NoAssignment
<1>1. request \in WireRequests /\ answer \in WireAnswers(request)
  BY WireAssumption
<1>2. request \in Fitting /\ answer \in AnsweredBy[request]
  BY <1>1 DEF WireAnswers
<1>3. PICK wire \in BrokerAnswers(request) :
        answer.comes = Comes(request.type, wire) /\ answer.announced = wire[1].number
  <2>1. AnsweredBy[request] = {[size |-> ByteCount(wire), announced |-> wire[1].number,
            correlation_id |-> wire[2].number, comes |-> Comes(request.type, wire)] :
                wire \in BrokerAnswers(request)}
    BY <1>2 DEF AnsweredBy
  <2> QED BY <1>2, <2>1
<1> QED BY <1>1, <1>3, AnswersAreRead, OverreadStops

(* No exchange ends the process on a size that differs, on an answer past  *)
(* its end other than a SyncGroupResponse that stops where the assignment  *)
(* should be and an answer about no partition, or on a request too long    *)
(* for the buffer other than one about many partitions or members, given   *)
(* names and ids of ordinary lengths.                                      *)
THEOREM EndingsAreKnown == ASSUME ShortNames, ShortIds PROVE Spec => []EndingsKnown
<1>1. ASSUME Endings PROVE EndingsKnown
  <2>1. EndedBy
    BY <1>1 DEF Endings
  <2>2. end_ \in {"overread", "terminate"} =>
            /\ Known(request_, end_)
            /\ request_.type = "SyncGroup" /\ end_ = "overread" => total_len = NoAssignment
    <3> SUFFICES ASSUME end_ \in {"overread", "terminate"}
                 PROVE  /\ Known(request_, end_)
                        /\ request_.type = "SyncGroup" /\ end_ = "overread" =>
                                total_len = NoAssignment
      OBVIOUS
    <3>1. request_ \in RequestsSent
      BY <2>1 DEF EndedBy
    <3>2. PICK answer \in Answers(request_) :
            answer.comes = end_ /\ answer.announced = total_len
      BY <2>1 DEF EndedBy
    <3> QED BY <3>1, <3>2, AnswersKnown
  <2>3. end_ = "overflow" => Many120(request_)
    <3> SUFFICES ASSUME end_ = "overflow" PROVE Many120(request_)
      OBVIOUS
    <3>1. request_ \in RequestsSent /\ PacketSize(request_) > 2048
      BY <2>1 DEF EndedBy, TooLong, BufferSize
    <3>2. request_ \in WireRequests /\ CountSize(request_) + 4 > 2048
      BY <3>1, WireAssumption DEF WirePacketSize
    <3> QED BY <3>2, LongAreMany
  <2>4. end_ # "terminate"
    BY <2>2 DEF Known
  <2>5. end_ = "overread" =>
            \/ request_.type = "SyncGroup" /\ total_len = NoAssignment
            \/ request_.type \in {"OffsetFetch", "Fetch"} /\ Entries(request_) = 0
    BY <2>2 DEF Known
  <2> QED BY <2>3, <2>4, <2>5 DEF EndingsKnown, Many120
<1>2. []Endings => []EndingsKnown
  BY <1>1, PTL
<1> QED BY <1>2, SpecEndings, PTL
=============================================================================
