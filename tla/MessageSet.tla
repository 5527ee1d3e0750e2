----------------------------- MODULE MessageSet ------------------------------
(***************************************************************************)
(* Parsing the message sets of a fetch response: PartitionInfo, the loop   *)
(* of MessageSet::MessageSet and the constructor OffsetAndMessage, up to   *)
(* the size check of FetchResponse and the last offsets FetchMessage asks  *)
(* for.                                                                    *)
(*                                                                         *)
(* The broker cuts a set off at the bytes it may send, so the last message *)
(* of a set may be incomplete, anywhere.  Bytes are counted, not read: the *)
(* state is the position buf in the response, and a message is its size.   *)
(***************************************************************************)
EXTENDS Integers, SequencesExt, Sums

CONSTANTS MessageSizes,   \* sizes of a Message on the wire
          MaxMessages,    \* bound on the messages of a set
          MaxPartitions   \* bound on the partitions of a response

ASSUME SizesAssumption == MessageSizes \subseteq Nat \ {0}
ASSUME BoundsAssumption == MaxMessages \in Nat /\ MaxPartitions \in Nat

VARIABLES sets,            \* the response: messages and message_set_size_ by partition
          p,               \* the partition being parsed
          step_,           \* what is read next
          buf,             \* position in the response
          sum,             \* MessageSet: bytes of the set it has passed
          offset_message_, \* by partition, the sizes of the messages pushed
          invalid_bytes_

vars == <<sets, p, step_, buf, sum, offset_message_, invalid_bytes_>>

HeaderSize == 18   \* partition, error code, high water mark, message_set_size_
OffsetSize == 8
SizeSize   == 4

(* The bytes of the first n messages, each with its offset and its size. *)
BytesOf(messages, n) ==
    SumOfFirst([i \in DOMAIN messages |-> OffsetSize + SizeSize + messages[i]], n)

(* CountSize of the messages of a set. *)
CountSize(messages) == BytesOf(messages, Len(messages))

(* Sets a broker sends: all messages but the last are complete. *)
Sets ==
    UNION {{[messages |-> m, size |-> s] : s \in
                IF m = <<>> THEN {0} ELSE (CountSize(Front(m)) + 1) .. CountSize(m)} :
           m \in BoundedSeq(MessageSizes, MaxMessages)}

size == sets[p].size

(* Position of the header of a partition. *)
HeaderAt(q) ==
    SumOfFirst([i \in DOMAIN sets |-> HeaderSize + sets[i].size], q - 1)

-----------------------------------------------------------------------------
Init ==
    /\ sets \in BoundedSeq(Sets, MaxPartitions) \ {<<>>}
    /\ p = 1
    /\ step_ = "header"
    /\ buf = 0
    /\ sum = 0
    /\ offset_message_ = [q \in 1 .. Len(sets) |-> <<>>]
    /\ invalid_bytes_ = 0

(* PartitionInfo::PartitionInfo.  An empty set is not constructed. *)
Header ==
    /\ step_ = "header" /\ p <= Len(sets)
    /\ buf' = buf + HeaderSize
    /\ sum' = 0
    /\ IF size = 0
       THEN p' = p + 1 /\ UNCHANGED step_
       ELSE step_' = "message" /\ UNCHANGED p
    /\ UNCHANGED <<sets, offset_message_, invalid_bytes_>>

(* The message whose bytes begin at buf. *)
MessageAt(message) ==
    \E i \in 1 .. Len(sets[p].messages) :
        /\ buf = HeaderAt(p) + HeaderSize + BytesOf(sets[p].messages, i - 1)
        /\ message = sets[p].messages[i]

(* Fault: a message that ends with its set is taken for a cut-off one. *)
FitsStrictly(message) ==
    /\ sum + OffsetSize < size
    /\ sum + OffsetSize + SizeSize + message < size

(* OffsetAndMessage::OffsetAndMessage does not throw. *)
Fits(message) ==
    /\ sum + OffsetSize < size
    /\ sum + OffsetSize + SizeSize + message <= size

(* Fault: sum is not advanced over the message. *)
SumStays(message) ==
    /\ step_ = "message" /\ sum # size
    /\ MessageAt(message)
    /\ Fits(message)
    /\ buf' = buf + OffsetSize + SizeSize + message
    /\ offset_message_' = [offset_message_ EXCEPT ![p] = Append(@, message)]
    /\ UNCHANGED <<sets, p, step_, sum, invalid_bytes_>>

(* A message is pushed.  Its Message takes the bytes message_size_ says. *)
Message(message) ==
    /\ step_ = "message" /\ sum # size
    /\ MessageAt(message)
    /\ Fits(message)
    /\ buf' = buf + OffsetSize + SizeSize + message
    /\ sum' = sum + OffsetSize + SizeSize + message
    /\ offset_message_' = [offset_message_ EXCEPT ![p] = Append(@, message)]
    /\ UNCHANGED <<sets, p, step_, invalid_bytes_>>

(* What the constructor has passed when it throws: the offset, or the      *)
(* offset and the size.                                                    *)
Passed == IF sum + OffsetSize >= size THEN OffsetSize ELSE OffsetSize + SizeSize

(* Fault: buf is not moved when the constructor has thrown. *)
CutStays(message) ==
    /\ step_ = "message" /\ sum # size
    /\ MessageAt(message)
    /\ ~Fits(message)
    /\ invalid_bytes_' = invalid_bytes_ + (size - sum)
    /\ buf' = buf + Passed
    /\ p' = p + 1
    /\ step_' = "header"
    /\ sum' = 0
    /\ UNCHANGED <<sets, offset_message_>>

(* Fault: what the constructor has passed is not counted as invalid. *)
CutCountsRest(message) ==
    /\ step_ = "message" /\ sum # size
    /\ MessageAt(message)
    /\ ~Fits(message)
    /\ invalid_bytes_' = invalid_bytes_ + (size - (sum + Passed))
    /\ buf' = buf + Passed + (size - (sum + Passed))
    /\ p' = p + 1
    /\ step_' = "header"
    /\ sum' = 0
    /\ UNCHANGED <<sets, offset_message_>>

(* It throws.  All that the set had left is invalid, what the constructor  *)
(* passed included, and the catch of MessageSet moves buf, possibly back,  *)
(* to the end of the set.                                                  *)
Cut(message) ==
    /\ step_ = "message" /\ sum # size
    /\ MessageAt(message)
    /\ ~Fits(message)
    /\ invalid_bytes_' = invalid_bytes_ + (size - sum)
    /\ buf' = buf + Passed + (size - (sum + Passed))
    /\ p' = p + 1
    /\ step_' = "header"
    /\ sum' = 0
    /\ UNCHANGED <<sets, offset_message_>>

EndOfSet ==
    /\ step_ = "message" /\ sum = size
    /\ p' = p + 1
    /\ step_' = "header"
    /\ UNCHANGED <<sets, buf, sum, offset_message_, invalid_bytes_>>

(* FetchResponse::CountSize and GetTotalSize, without what is the same in  *)
(* both: topic, array sizes and throttle time.                             *)
Counted ==
    SumOfFirst([i \in DOMAIN sets |-> HeaderSize + CountSize(offset_message_[i])], Len(sets))
TotalSize == HeaderAt(Len(sets) + 1)

(* Partitions whose GetLastOffset takes the element before the first. *)
WithoutLast == {q \in 1 .. Len(sets) : sets[q].size # 0 /\ offset_message_[q] = <<>>}

(* FetchResponse::FetchResponse compares the sizes, and FetchMessage asks  *)
(* for the last offset of each partition.                                  *)
Finish ==
    /\ step_ = "header" /\ p = Len(sets) + 1
    /\ step_' = CASE TotalSize - invalid_bytes_ # Counted -> "sizes_differ"
                  [] TotalSize - invalid_bytes_ = Counted /\ WithoutLast # {} -> "no_last"
                  [] OTHER -> "parsed"
    /\ UNCHANGED <<sets, p, buf, sum, offset_message_, invalid_bytes_>>

Finished == step_ \in {"sizes_differ", "no_last", "parsed"}

Next ==
    \/ Header
    \/ \E message \in MessageSizes : Message(message) \/ Cut(message)
    \/ EndOfSet
    \/ Finish
    \/ Finished /\ UNCHANGED vars

Spec == Init /\ [][Next]_vars /\ WF_vars(Next)

-----------------------------------------------------------------------------
TypeOK ==
    /\ p \in 1 .. Len(sets) + 1
    /\ step_ \in {"header", "message", "sizes_differ", "no_last", "parsed"}
    /\ buf \in 0 .. TotalSize
    /\ sum \in 0 .. TotalSize
    /\ \A q \in 1 .. Len(sets) : offset_message_[q] \in BoundedSeq(MessageSizes, MaxMessages)
    /\ invalid_bytes_ \in 0 .. TotalSize

(* However a set was cut off, the header of the next partition is read     *)
(* where it is.                                                            *)
HeadersFound == (step_ = "header" /\ p <= Len(sets)) => buf = HeaderAt(p)

(* invalid_bytes, added up over the partitions, is just what the check of  *)
(* FetchResponse needs: it never rejects a response that was cut off.      *)
SizesAgree == step_ # "sizes_differ"

(* A partition that has been parsed has all messages that are complete in  *)
(* its set, and no other: none is lost, and none is printed in part.       *)
CompleteMessages ==
    \A q \in 1 .. p - 1 :
        LET all == sets[q].messages
        IN  offset_message_[q] = IF CountSize(all) = sets[q].size THEN all ELSE Front(all)

(* The element before the first is taken in one case only: a first message *)
(* that is larger than the set may be.                                     *)
OnlyCutFirst ==
    step_ = "no_last" <=>
        /\ Finished
        /\ \E q \in 1 .. Len(sets) :
              Len(sets[q].messages) = 1 /\ CountSize(sets[q].messages) > sets[q].size

(* The loop, whose test is sum # message_set_size, ends. *)
Ends == <>Finished
=============================================================================
