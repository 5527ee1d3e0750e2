--------------------------- MODULE MessageSetProofs ---------------------------
(***************************************************************************)
(* Parsing message sets, for all sizes of messages and any number of       *)
(* messages and partitions.                                                *)
(*                                                                         *)
(* Everything rests on where the parser is: in front of the message after  *)
(* those it has pushed, or of the header after the sets it has parsed      *)
(* (InSet, AtHeader), and on what is pushed and what is counted as invalid *)
(* making up the sets (Accounted).                                         *)
(***************************************************************************)
EXTENDS MessageSet, WireProofs, TLAPS, SequenceTheorems

(* What should be pushed for a partition: the complete messages. *)
Kept(q) ==
    IF CountSize(sets[q].messages) = sets[q].size
    THEN sets[q].messages ELSE Front(sets[q].messages)

(* The bytes of the partitions before q, with what is complete of them. *)
KeptBefore(q) ==
    SumOfFirst([i \in DOMAIN sets |-> HeaderSize + CountSize(Kept(i))], q - 1)

(* Messages are pushed in the order of the sets, and only complete ones. *)
Pushed ==
    /\ offset_message_ \in [1 .. Len(sets) -> Seq(MessageSizes)]
    /\ \A q \in 1 .. Len(sets) :
          /\ q < p => offset_message_[q] = Kept(q)
          /\ q > p \/ (q = p /\ step_ = "header") => offset_message_[q] = <<>>

(* Inside a set, the messages pushed are what the parser has passed. *)
InSet ==
    step_ = "message" =>
        /\ p <= Len(sets) /\ size # 0
        /\ \E k \in 0 .. Len(sets[p].messages) :
              /\ offset_message_[p] = SubSeq(sets[p].messages, 1, k)
              /\ sum = BytesOf(sets[p].messages, k) /\ sum <= size
              /\ buf = HeaderAt(p) + HeaderSize + sum

AtHeader ==
    step_ # "message" => buf = HeaderAt(p)

(* What is invalid and what is kept make up what the parser has passed. *)
Accounted ==
    /\ invalid_bytes_ \in Nat
    /\ invalid_bytes_ + KeptBefore(p) = HeaderAt(p)

AtEnd ==
    /\ step_ # "sizes_differ"
    /\ Finished => p = Len(sets) + 1 /\ (step_ = "no_last" <=> WithoutLast # {})

IInv ==
    /\ sets \in Seq(Sets)
    /\ p \in 1 .. Len(sets) + 1
    /\ step_ \in {"header", "message", "sizes_differ", "no_last", "parsed"}
    /\ sum \in 0 .. TotalSize
    /\ Pushed /\ InSet /\ AtHeader /\ Accounted /\ AtEnd

-----------------------------------------------------------------------------
(* The messages of one set. *)

LEMMA BytesNext ==
    ASSUME NEW messages \in Seq(MessageSizes)
    PROVE  /\ BytesOf(messages, 0) = 0
           /\ \A n \in 0 .. Len(messages) - 1 :
                 BytesOf(messages, n + 1) = BytesOf(messages, n) + 12 + messages[n + 1]
           /\ \A n \in 0 .. Len(messages) :
                 /\ BytesOf(messages, n) \in Nat
                 /\ \A k \in 0 .. n : k < n => BytesOf(messages, k) < BytesOf(messages, n)
<1> DEFINE f == [i \in DOMAIN messages |-> OffsetSize + SizeSize + messages[i]]
<1>1. Len(messages) \in Nat /\ DOMAIN messages = 1 .. Len(messages)
      /\ \A i \in 1 .. Len(messages) : messages[i] \in Nat \ {0}
  BY SizesAssumption, LenProperties, ElementOfSeq
<1>2. \A i \in 1 .. Len(messages) : f[i] = 12 + messages[i] /\ f[i] \in Nat \ {0}
  BY <1>1 DEF OffsetSize, SizeSize
<1>3. \A n : BytesOf(messages, n) = SumOfFirst(f, n)
  BY DEF BytesOf
<1> HIDE DEF f
<1>4. \A n \in 0 .. Len(messages) - 1 : n \in Nat /\ n + 1 \in 1 .. Len(messages)
  BY <1>1
<1>5. \A m \in 0 .. Len(messages) :
         /\ SumOfFirst(f, m) \in Nat
         /\ \A k \in 0 .. m : k < m => SumOfFirst(f, k) < SumOfFirst(f, m)
  BY <1>1, <1>2, SumIncreases
<1>6. ASSUME NEW n \in 0 .. Len(messages) - 1
      PROVE  BytesOf(messages, n + 1) = BytesOf(messages, n) + 12 + messages[n + 1]
  <2>1. SumOfFirst(f, n + 1) = SumOfFirst(f, n) + f[n + 1]
    BY <1>4, SumOfFirstNext
  <2>2. SumOfFirst(f, n) \in Nat /\ messages[n + 1] \in Nat /\ f[n + 1] = 12 + messages[n + 1]
    BY <1>1, <1>2, <1>4, <1>5
  <2> QED BY <1>3, <2>1, <2>2
<1> QED BY <1>3, <1>5, <1>6, SumOfFirstNext

LEMMA CountOfPrefix ==
    ASSUME NEW messages \in Seq(MessageSizes), NEW n \in 0 .. Len(messages)
    PROVE  /\ SubSeq(messages, 1, n) \in Seq(MessageSizes)
           /\ Len(SubSeq(messages, 1, n)) = n
           /\ CountSize(SubSeq(messages, 1, n)) = BytesOf(messages, n)
<1> DEFINE first == SubSeq(messages, 1, n)
<1>1. first \in Seq(MessageSizes) /\ Len(first) = n
      /\ \A i \in 1 .. n : first[i] = messages[i]
  BY SubSeqProperties
<1> HIDE DEF first
<1>2. /\ \A i \in 1 .. n : [j \in DOMAIN first |-> OffsetSize + SizeSize + first[j]][i]
                          = [j \in DOMAIN messages |-> OffsetSize + SizeSize + messages[j]][i]
      /\ n \in Nat
  BY <1>1
<1>3. BytesOf(first, n) = BytesOf(messages, n)
  BY <1>2, SumSame DEF BytesOf
<1> QED BY <1>1, <1>3 DEF CountSize, first

LEMMA OneSet ==
    ASSUME NEW set \in Sets
    PROVE  /\ set.messages \in Seq(MessageSizes) /\ Len(set.messages) \in 0 .. MaxMessages
           /\ set.size \in Nat /\ set.size <= CountSize(set.messages)
           /\ set.messages = <<>> => set.size = 0
           /\ set.messages # <<>> => BytesOf(set.messages, Len(set.messages) - 1) < set.size
<1>1. PICK m \in BoundedSeq(MessageSizes, MaxMessages) :
        \E s \in IF m = <<>> THEN {0} ELSE (CountSize(Front(m)) + 1) .. CountSize(m) :
            set = [messages |-> m, size |-> s]
  BY DEF Sets
<1>2. m \in Seq(MessageSizes) /\ Len(m) \in 0 .. MaxMessages
  <2>1. PICK n \in 0 .. MaxMessages : m \in [1 .. n -> MessageSizes]
    BY DEF BoundedSeq, SeqOf
  <2>2. n \in Nat
    BY <2>1
  <2>3. m \in Seq(MessageSizes)
    BY <2>1, <2>2, SeqDef
  <2>4. Len(m) = n
    BY <2>1, <2>2, <2>3, LenProperties
  <2> QED BY <2>3, <2>4
<1>3. PICK s \in IF m = <<>> THEN {0} ELSE (CountSize(Front(m)) + 1) .. CountSize(m) :
            set.messages = m /\ set.size = s
  BY <1>1
<1>4. CASE m = <<>>
  <2>1. CountSize(m) = 0
    BY <1>2, <1>4, BytesNext DEF CountSize
  <2> QED BY <1>2, <1>3, <1>4, <2>1
<1>5. CASE m # <<>>
  <2>1. Len(m) # 0 /\ Len(m) \in Nat
    BY <1>2, <1>5, EmptySeq
  <2>2. CountSize(Front(m)) = BytesOf(m, Len(m) - 1) /\ BytesOf(m, Len(m) - 1) \in Nat
        /\ CountSize(m) \in Nat
    BY <1>2, <2>1, CountOfPrefix, BytesNext DEF Front, CountSize
  <2> QED BY <1>2, <1>3, <1>5, <2>2
<1> QED BY <1>4, <1>5

(* Only the last message of a set does not fit into it. *)
LEMMA NextFits ==
    ASSUME NEW set \in Sets, NEW k \in 0 .. Len(set.messages),
           BytesOf(set.messages, k) <= set.size
    PROVE  /\ BytesOf(set.messages, k) = set.size => k = Len(set.messages)
           /\ BytesOf(set.messages, k) # set.size => k < Len(set.messages)
           /\ k + 1 < Len(set.messages) => BytesOf(set.messages, k + 1) < set.size
<1> DEFINE m == set.messages
           at(n) == BytesOf(m, n)
<1>1. m \in Seq(MessageSizes) /\ Len(m) \in Nat /\ set.size \in Nat /\ set.size <= at(Len(m))
      /\ (Len(m) # 0 => at(Len(m) - 1) < set.size)
  BY OneSet, EmptySeq DEF CountSize
<1>2. \A n \in 0 .. Len(m) : at(n) \in Nat /\ \A i \in 0 .. n : i < n => at(i) < at(n)
  BY <1>1, BytesNext
<1>3. ASSUME NEW n \in 0 .. Len(m), n < Len(m) PROVE at(n) < set.size
  <2>1. n = Len(m) - 1 \/ n < Len(m) - 1
    BY <1>1, <1>3
  <2>2. Len(m) - 1 \in 0 .. Len(m) /\ Len(m) # 0
    BY <1>1, <1>3
  <2>3. at(n) <= at(Len(m) - 1) /\ at(n) \in Nat /\ at(Len(m) - 1) \in Nat
    <3> HIDE DEF at
    <3>1. CASE n = Len(m) - 1
      BY <1>2, <3>1, <2>2
    <3>2. CASE n < Len(m) - 1
      BY <1>2, <3>2, <2>2
    <3> QED BY <2>1, <3>1, <3>2
  <2> HIDE DEF at
  <2> QED BY <1>1, <2>2, <2>3
<1> HIDE DEF at
<1>4. (at(k) = set.size => k = Len(m)) /\ (at(k) # set.size => k < Len(m))
      /\ (k + 1 < Len(m) => at(k + 1) < set.size)
  <2>1. at(k) \in Nat /\ at(Len(m)) \in Nat /\ at(k) <= set.size
    BY <1>1, <1>2 DEF at
  <2>2. at(k) = set.size => k = Len(m)
    BY <1>1, <1>3, <2>1
  <2>3. at(k) # set.size => k < Len(m)
    BY <1>1, <2>1
  <2>4. k + 1 < Len(m) => at(k + 1) < set.size
    BY <1>1, <1>3
  <2> QED BY <2>2, <2>3, <2>4
<1> QED BY <1>4 DEF at

-----------------------------------------------------------------------------
(* The partitions of the response. *)

LEMMA SetsOK ==
    ASSUME sets \in Seq(Sets)
    PROVE  /\ Len(sets) \in Nat /\ DOMAIN sets = 1 .. Len(sets)
           /\ \A q \in 1 .. Len(sets) : sets[q] \in Sets
BY LenProperties, ElementOfSeq

LEMMA KeptOK ==
    ASSUME sets \in Seq(Sets), NEW q \in 1 .. Len(sets)
    PROVE  /\ Kept(q) \in Seq(MessageSizes) /\ Len(Kept(q)) \in 0 .. MaxMessages
           /\ CountSize(Kept(q)) \in Nat /\ CountSize(Kept(q)) <= sets[q].size
           /\ sets[q].size = 0 => Kept(q) = <<>>
<1> DEFINE m == sets[q].messages
<1>1. /\ m \in Seq(MessageSizes) /\ Len(m) \in 0 .. MaxMessages
      /\ sets[q].size \in Nat /\ sets[q].size <= CountSize(m)
      /\ m = <<>> => sets[q].size = 0
      /\ m # <<>> => BytesOf(m, Len(m) - 1) < sets[q].size
  BY SetsOK, OneSet
<1>2. CountSize(m) \in Nat
  BY <1>1, BytesNext DEF CountSize
<1>3. CASE CountSize(m) = sets[q].size
  <2>1. Kept(q) = m
    BY <1>3 DEF Kept
  <2>2. m # <<>> => BytesOf(m, Len(m) - 1) \in Nat
    BY <1>1, BytesNext, EmptySeq
  <2> QED BY <1>1, <1>2, <1>3, <2>1, <2>2
<1>4. CASE CountSize(m) # sets[q].size
  <2>1. m # <<>>
    BY <1>1, <1>4, BytesNext, EmptySeq DEF CountSize
  <2>2. Len(m) - 1 \in 0 .. Len(m) /\ Kept(q) = SubSeq(m, 1, Len(m) - 1)
    BY <1>1, <1>4, <2>1, EmptySeq DEF Kept, Front
  <2>3. /\ Kept(q) \in Seq(MessageSizes) /\ Len(Kept(q)) = Len(m) - 1
        /\ CountSize(Kept(q)) = BytesOf(m, Len(m) - 1) /\ BytesOf(m, Len(m) - 1) \in Nat
    BY <1>1, <2>2, CountOfPrefix, BytesNext
  <2>4. Len(m) - 1 \in 0 .. MaxMessages
    BY <1>1, <2>2, BoundsAssumption
  <2>5. BytesOf(m, Len(m) - 1) < sets[q].size /\ sets[q].size # 0
    BY <1>1, <2>1, <2>3
  <2> QED BY <1>1, <2>3, <2>4, <2>5
<1> QED BY <1>3, <1>4

LEMMA HeadersNext ==
    ASSUME sets \in Seq(Sets)
    PROVE  /\ HeaderAt(1) = 0
           /\ \A q \in 1 .. Len(sets) : HeaderAt(q + 1) = HeaderAt(q) + HeaderSize + sets[q].size
           /\ \A q \in 1 .. Len(sets) + 1 : HeaderAt(q) \in 0 .. TotalSize
           /\ TotalSize \in Nat
<1> DEFINE f == [i \in DOMAIN sets |-> HeaderSize + sets[i].size]
           n == Len(sets)
<1>1. \A q : HeaderAt(q) = SumOfFirst(f, q - 1)
  BY DEF HeaderAt
<1>2. n \in Nat /\ \A i \in 1 .. n : f[i] = HeaderSize + sets[i].size /\ f[i] \in Nat \ {0}
  BY SetsOK, OneSet DEF HeaderSize
<1> HIDE DEF f
<1>3. \A m \in 0 .. n :
         /\ SumOfFirst(f, m) \in Nat
         /\ \A k \in 0 .. m : k < m => SumOfFirst(f, k) < SumOfFirst(f, m)
  BY <1>2, SumIncreases
<1>4. HeaderAt(1) = 0
  BY <1>1, SumOfFirstNext
<1>5. TotalSize = SumOfFirst(f, n)
  BY <1>1, <1>2 DEF TotalSize
<1>6. ASSUME NEW q \in 1 .. n
      PROVE  HeaderAt(q + 1) = HeaderAt(q) + HeaderSize + sets[q].size
  <2>1. SumOfFirst(f, q) = SumOfFirst(f, q - 1) + f[q] /\ SumOfFirst(f, q - 1) \in Nat
    <3>1. q - 1 \in Nat /\ q - 1 \in 0 .. n /\ (q - 1) + 1 = q
      BY <1>2
    <3> QED BY <3>1, <1>3, SumOfFirstNext
  <2>2. HeaderAt(q + 1) = SumOfFirst(f, q) /\ HeaderAt(q) = SumOfFirst(f, q - 1)
    BY <1>1, <1>2
  <2>3. sets[q].size \in Nat /\ f[q] = HeaderSize + sets[q].size
    BY <1>2, SetsOK, OneSet
  <2> QED BY <2>1, <2>2, <2>3 DEF HeaderSize
<1>7. ASSUME NEW q \in 1 .. n + 1 PROVE HeaderAt(q) \in 0 .. TotalSize
  <2>1. q - 1 \in 0 .. n
    BY <1>2
  <2> QED BY <1>1, <1>2, <1>3, <1>5, <2>1
<1> QED BY <1>2, <1>3, <1>4, <1>5, <1>6, <1>7

LEMMA KeptNext ==
    ASSUME sets \in Seq(Sets)
    PROVE  /\ KeptBefore(1) = 0
           /\ \A q \in 1 .. Len(sets) :
                 KeptBefore(q + 1) = KeptBefore(q) + HeaderSize + CountSize(Kept(q))
           /\ \A q \in 1 .. Len(sets) + 1 : KeptBefore(q) \in Nat
<1> DEFINE f == [i \in DOMAIN sets |-> HeaderSize + CountSize(Kept(i))]
           n == Len(sets)
<1>1. \A q : KeptBefore(q) = SumOfFirst(f, q - 1)
  BY DEF KeptBefore
<1>2. n \in Nat /\ \A i \in 1 .. n : f[i] = HeaderSize + CountSize(Kept(i)) /\ f[i] \in Nat \ {0}
  BY SetsOK, KeptOK DEF HeaderSize
<1> HIDE DEF f
<1>3. \A m \in 0 .. n : SumOfFirst(f, m) \in Nat
  BY <1>2, SumIncreases
<1>4. KeptBefore(1) = 0
  BY <1>1, SumOfFirstNext
<1>5. ASSUME NEW q \in 1 .. n
      PROVE  KeptBefore(q + 1) = KeptBefore(q) + HeaderSize + CountSize(Kept(q))
  <2>1. SumOfFirst(f, q) = SumOfFirst(f, q - 1) + f[q] /\ SumOfFirst(f, q - 1) \in Nat
    <3>1. q - 1 \in Nat /\ q - 1 \in 0 .. n /\ (q - 1) + 1 = q
      BY <1>2
    <3> QED BY <3>1, <1>3, SumOfFirstNext
  <2>2. KeptBefore(q + 1) = SumOfFirst(f, q) /\ KeptBefore(q) = SumOfFirst(f, q - 1)
    BY <1>1, <1>2
  <2>3. CountSize(Kept(q)) \in Nat
    BY KeptOK
  <2> QED BY <1>2, <2>1, <2>2, <2>3 DEF HeaderSize
<1>6. ASSUME NEW q \in 1 .. n + 1 PROVE KeptBefore(q) \in Nat
  <2>1. q - 1 \in 0 .. n
    BY <1>2
  <2> QED BY <1>1, <1>3, <2>1
<1> QED BY <1>4, <1>5, <1>6

LEMMA SetsStay ==
    ASSUME UNCHANGED sets
    PROVE  /\ \A q : Kept(q)' = Kept(q)
           /\ TotalSize' = TotalSize
           /\ \A q : p' = q => HeaderAt(p)' = HeaderAt(q) /\ KeptBefore(p)' = KeptBefore(q)
BY DEF HeaderAt, KeptBefore, Kept, TotalSize

(* What is read next is the message after those that were pushed. *)
LEMMA NextMessage ==
    ASSUME IInv, step_ = "message", NEW message, MessageAt(message)
    PROVE  \E k \in 0 .. Len(sets[p].messages) - 1 :
              /\ message = sets[p].messages[k + 1] /\ message \in MessageSizes
              /\ message \in Nat \ {0}
              /\ offset_message_[p] = SubSeq(sets[p].messages, 1, k)
              /\ sum = BytesOf(sets[p].messages, k) /\ sum <= size
              /\ buf = HeaderAt(p) + HeaderSize + sum
<1> DEFINE m == sets[p].messages
<1>1. p \in 1 .. Len(sets) /\ sets \in Seq(Sets)
  BY SetsOK DEF IInv, InSet
<1>2. m \in Seq(MessageSizes) /\ Len(m) \in Nat /\ HeaderAt(p) \in Nat
  BY <1>1, SetsOK, OneSet, HeadersNext
<1>3. PICK k \in 0 .. Len(m) :
              /\ offset_message_[p] = SubSeq(m, 1, k)
              /\ sum = BytesOf(m, k) /\ sum <= size
              /\ buf = HeaderAt(p) + HeaderSize + sum
  BY DEF IInv, InSet
<1>4. PICK i \in 1 .. Len(m) :
              buf = HeaderAt(p) + HeaderSize + BytesOf(m, i - 1) /\ message = m[i]
  BY DEF MessageAt
<1>5. \A n \in 0 .. Len(m) : BytesOf(m, n) \in Nat
                             /\ \A j \in 0 .. n : j < n => BytesOf(m, j) < BytesOf(m, n)
  BY <1>2, BytesNext
<1> HIDE DEF m
<1>6. i - 1 \in 0 .. Len(m) /\ i - 1 < Len(m) /\ i = (i - 1) + 1
  BY <1>2
<1>7. BytesOf(m, i - 1) = BytesOf(m, k)
  <2>1. BytesOf(m, i - 1) \in Nat /\ BytesOf(m, k) \in Nat
    BY <1>5, <1>6
  <2> QED BY <1>2, <1>3, <1>4, <2>1 DEF HeaderSize
<1>8. i - 1 = k
  <2>1. ~(k < i - 1)
    BY <1>2, <1>5, <1>6, <1>7
  <2>2. ~(i - 1 < k)
    BY <1>2, <1>5, <1>6, <1>7
  <2> QED BY <1>2, <1>6, <2>1, <2>2
<1>9. k \in 0 .. Len(m) - 1 /\ message = m[k + 1]
  BY <1>2, <1>4, <1>6, <1>8
<1>10. message \in MessageSizes /\ message \in Nat \ {0}
  BY <1>2, <1>4, ElementOfSeq, SizesAssumption
<1> QED BY <1>3, <1>9, <1>10 DEF m

-----------------------------------------------------------------------------
LEMMA InitIInv == Init => IInv
<1> SUFFICES ASSUME Init PROVE IInv
  OBVIOUS
<1>1. sets \in Seq(Sets) /\ Len(sets) \in Nat \ {0}
  <2>1. PICK n \in 0 .. MaxPartitions : sets \in [1 .. n -> Sets] /\ sets # <<>>
    BY DEF Init, BoundedSeq, SeqOf
  <2>2. n \in Nat
    BY <2>1
  <2> QED BY <2>1, <2>2, SeqDef, EmptySeq
<1>2. Pushed
  BY <1>1, EmptySeq DEF Init, Pushed
<1>3. Accounted /\ AtHeader
  BY <1>1, HeadersNext, KeptNext DEF Init, Accounted, AtHeader
<1>4. sum \in 0 .. TotalSize
  BY <1>1, HeadersNext DEF Init
<1> QED BY <1>1, <1>2, <1>3, <1>4 DEF Init, IInv, InSet, AtEnd, Finished

LEMMA StaysInSet ==
    ASSUME UNCHANGED <<sets, p>>, p <= Len(sets), size # 0,
           NEW k \in 0 .. Len(sets[p].messages),
           offset_message_'[p] = SubSeq(sets[p].messages, 1, k),
           sum' = BytesOf(sets[p].messages, k), sum' <= size,
           buf' = HeaderAt(p) + HeaderSize + sum'
    PROVE  InSet'
<1>1. HeaderAt(p)' = HeaderAt(p) /\ size' = size
  BY SetsStay DEF size
<1>2. sets'[p'].messages = sets[p].messages
  OBVIOUS
<1>3. \E j \in 0 .. Len(sets'[p'].messages) :
        /\ offset_message_'[p'] = SubSeq(sets'[p'].messages, 1, j)
        /\ sum' = BytesOf(sets'[p'].messages, j) /\ sum' <= size'
        /\ buf' = HeaderAt(p)' + HeaderSize + sum'
  BY <1>1, <1>2
<1>4. p' <= Len(sets') /\ size' # 0
  BY <1>1
<1> QED BY <1>3, <1>4 DEF InSet

LEMMA HeaderKeeps == ASSUME IInv, Header PROVE IInv'
<1>1. p \in 1 .. Len(sets) /\ sets \in Seq(Sets) /\ Len(sets) \in Nat /\ step_ = "header"
      /\ UNCHANGED <<sets, offset_message_, invalid_bytes_>>
  BY SetsOK DEF IInv, Header
<1>2. /\ HeaderAt(p + 1) = HeaderAt(p) + HeaderSize + size
      /\ HeaderAt(p) \in Nat /\ size \in Nat /\ TotalSize \in Nat
      /\ KeptBefore(p + 1) = KeptBefore(p) + HeaderSize + CountSize(Kept(p))
      /\ KeptBefore(p) \in Nat
  BY <1>1, HeadersNext, KeptNext, SetsOK, OneSet DEF size
<1>3. /\ \A q : Kept(q)' = Kept(q)
      /\ TotalSize' = TotalSize
      /\ \A q : p' = q => HeaderAt(p)' = HeaderAt(q) /\ KeptBefore(p)' = KeptBefore(q)
  BY <1>1, SetsStay
<1>4. sum' = 0 /\ buf' = buf + HeaderSize /\ buf = HeaderAt(p) /\ sum' \in 0 .. TotalSize'
  BY <1>1, <1>2, <1>3 DEF Header, IInv, AtHeader
<1>5. offset_message_[p] = <<>>
  BY <1>1 DEF IInv, Pushed
<1>6. CASE size = 0
  <2>1. p' = p + 1 /\ step_' = "header"
    BY <1>1, <1>6 DEF Header
  <2>2. Kept(p) = <<>> /\ CountSize(Kept(p)) = 0
    BY <1>1, <1>6, KeptOK DEF size
  <2>3. Pushed'
    BY <1>1, <1>3, <1>5, <2>1, <2>2 DEF IInv, Pushed
  <2>4. HeaderAt(p)' = HeaderAt(p + 1) /\ KeptBefore(p)' = KeptBefore(p + 1)
    BY <1>3, <2>1
  <2>5. AtHeader' /\ Accounted'
    BY <1>1, <1>2, <1>4, <1>6, <2>1, <2>2, <2>4 DEF IInv, AtHeader, Accounted, HeaderSize
  <2> QED BY <1>1, <1>4, <2>1, <2>3, <2>5 DEF IInv, InSet, AtEnd, Finished
<1>7. CASE size # 0
  <2>1. p' = p /\ step_' = "message"
    BY <1>1, <1>7 DEF Header
  <2>2. Pushed'
    BY <1>1, <1>3, <2>1 DEF IInv, Pushed
  <2>3. InSet'
    <3>1. sets[p].messages \in Seq(MessageSizes) /\ 0 \in 0 .. Len(sets[p].messages)
      BY <1>1, SetsOK, OneSet
    <3>2. SubSeq(sets[p].messages, 1, 0) = <<>> /\ BytesOf(sets[p].messages, 0) = 0
      BY <3>1, SubSeqEmpty, BytesNext
    <3>3. sum' <= size /\ buf' = HeaderAt(p) + HeaderSize + sum' /\ sum' = 0
      BY <1>2, <1>4 DEF HeaderSize
    <3> QED BY <1>1, <1>5, <1>7, <2>1, <3>1, <3>2, <3>3, StaysInSet
  <2>4. Accounted'
    BY <1>1, <1>3, <2>1 DEF IInv, Accounted
  <2> QED BY <1>1, <1>4, <2>1, <2>2, <2>3, <2>4 DEF IInv, AtHeader, AtEnd, Finished
<1> QED BY <1>6, <1>7

LEMMA MessageKeeps == ASSUME IInv, NEW message, Message(message) PROVE IInv'
<1> DEFINE m == sets[p].messages
<1>1. PICK k \in 0 .. Len(m) - 1 :
              /\ message = m[k + 1] /\ message \in MessageSizes /\ message \in Nat \ {0}
              /\ offset_message_[p] = SubSeq(m, 1, k)
              /\ sum = BytesOf(m, k) /\ sum <= size
              /\ buf = HeaderAt(p) + HeaderSize + sum
  BY NextMessage DEF Message
<1>2. /\ p \in 1 .. Len(sets) /\ sets \in Seq(Sets) /\ Len(sets) \in Nat /\ size # 0
      /\ step_ = "message" /\ UNCHANGED <<sets, p, step_, invalid_bytes_>>
  BY SetsOK DEF IInv, InSet, Message
<1>3. m \in Seq(MessageSizes) /\ Len(m) \in Nat /\ size \in Nat /\ HeaderAt(p) \in Nat
  BY <1>2, SetsOK, OneSet, HeadersNext DEF size
<1>4. k \in Nat /\ k + 1 \in 0 .. Len(m) /\ k \in 0 .. Len(m)
  BY <1>3
<1>5. /\ BytesOf(m, k + 1) = BytesOf(m, k) + 12 + message
      /\ BytesOf(m, k + 1) \in Nat /\ BytesOf(m, k) \in Nat
  BY <1>1, <1>3, <1>4, BytesNext
<1>6. /\ sum' = sum + 12 + message /\ buf' = buf + 12 + message /\ sum + 12 + message <= size
      /\ offset_message_' = [offset_message_ EXCEPT ![p] = Append(SubSeq(m, 1, k), message)]
  BY <1>1, <1>3, <1>5 DEF Message, Fits, OffsetSize, SizeSize
<1>7. Append(SubSeq(m, 1, k), message) = SubSeq(m, 1, k + 1)
  <2> DEFINE s == Append(SubSeq(m, 1, k), message)
             t == SubSeq(m, 1, k + 1)
  <2>1. SubSeq(m, 1, k) \in Seq(MessageSizes) /\ Len(SubSeq(m, 1, k)) = k
        /\ \A i \in 1 .. k : SubSeq(m, 1, k)[i] = m[i]
    BY <1>3, <1>4, CountOfPrefix, SubSeqProperties
  <2>2. s \in Seq(MessageSizes) /\ Len(s) = k + 1 /\ s[k + 1] = message
        /\ \A i \in 1 .. k : s[i] = m[i]
    BY <1>1, <2>1, AppendProperties
  <2>3. t \in Seq(MessageSizes) /\ Len(t) = k + 1 /\ \A i \in 1 .. k + 1 : t[i] = m[i]
    BY <1>3, <1>4, CountOfPrefix, SubSeqProperties
  <2> HIDE DEF s, t
  <2>4. \A i \in 1 .. k + 1 : s[i] = t[i]
    <3> SUFFICES ASSUME NEW i \in 1 .. k + 1 PROVE s[i] = t[i]
      OBVIOUS
    <3>1. t[i] = m[i]
      BY <2>3
    <3>2. CASE i = k + 1
      BY <1>1, <2>2, <3>1, <3>2
    <3>3. CASE i # k + 1
      BY <1>4, <2>2, <3>1, <3>3
    <3> QED BY <3>2, <3>3
  <2>5. s = t
    BY <2>2, <2>3, <2>4, SeqEqual
  <2> QED BY <2>5 DEF s, t
<1>8. offset_message_ \in [1 .. Len(sets) -> Seq(MessageSizes)]
  BY DEF IInv, Pushed
<1>9. InSet'
  <2>1. offset_message_'[p] = SubSeq(m, 1, k + 1)
    BY <1>2, <1>6, <1>7, <1>8
  <2>2. sum' = BytesOf(m, k + 1) /\ sum' <= size
    BY <1>1, <1>5, <1>6
  <2>3. buf' = HeaderAt(p) + HeaderSize + sum'
    <3>1. sum \in Nat /\ message \in Nat /\ buf = HeaderAt(p) + HeaderSize + sum
      BY <1>1, <1>5
    <3> QED BY <1>3, <1>6, <3>1 DEF HeaderSize
  <2> QED BY <1>2, <1>4, <2>1, <2>2, <2>3, StaysInSet
<1>10. Pushed'
  <2>1. SubSeq(m, 1, k + 1) \in Seq(MessageSizes)
    BY <1>3, <1>4, CountOfPrefix
  <2>2. offset_message_' \in [1 .. Len(sets) -> Seq(MessageSizes)]
    BY <1>6, <1>7, <1>8, <2>1
  <2>3. \A q \in 1 .. Len(sets) : q # p => offset_message_'[q] = offset_message_[q]
    BY <1>6, <1>8
  <2> QED BY <1>2, <2>2, <2>3, SetsStay DEF IInv, Pushed
<1>11. sum' \in 0 .. TotalSize'
  <2>1. HeaderAt(p + 1) = HeaderAt(p) + HeaderSize + size /\ HeaderAt(p + 1) \in 0 .. TotalSize
        /\ TotalSize \in Nat
    BY <1>2, HeadersNext DEF size
  <2>2. size <= TotalSize
    BY <1>3, <2>1 DEF HeaderSize
  <2> QED BY <1>1, <1>2, <1>3, <1>5, <1>6, <2>1, <2>2, SetsStay
<1>12. Accounted'
  BY <1>2, SetsStay DEF IInv, Accounted
<1> QED BY <1>2, <1>9, <1>10, <1>11, <1>12 DEF IInv, AtHeader, AtEnd, Finished

(* When the parser leaves a set, it has pushed what it should, and is at   *)
(* the next header.                                                        *)
LEMMA LeavesSet ==
    ASSUME IInv, step_ = "message", UNCHANGED <<sets, offset_message_>>,
           p' = p + 1, step_' = "header", sum' \in 0 .. TotalSize,
           offset_message_[p] = Kept(p),
           buf' = HeaderAt(p) + HeaderSize + size,
           invalid_bytes_' = invalid_bytes_ + (size - CountSize(Kept(p)))
    PROVE  IInv'
<1>1. p \in 1 .. Len(sets) /\ sets \in Seq(Sets) /\ Len(sets) \in Nat
  BY SetsOK DEF IInv, InSet
<1>2. /\ HeaderAt(p + 1) = HeaderAt(p) + HeaderSize + size
      /\ HeaderAt(p) \in Nat /\ size \in Nat
      /\ KeptBefore(p + 1) = KeptBefore(p) + HeaderSize + CountSize(Kept(p))
      /\ KeptBefore(p) \in Nat
      /\ CountSize(Kept(p)) \in Nat /\ CountSize(Kept(p)) <= size
  BY <1>1, HeadersNext, KeptNext, KeptOK, SetsOK, OneSet DEF size
<1>3. HeaderAt(p)' = HeaderAt(p + 1) /\ KeptBefore(p)' = KeptBefore(p + 1)
      /\ TotalSize' = TotalSize /\ \A q : Kept(q)' = Kept(q)
  BY SetsStay
<1>4. Pushed'
  BY <1>1, <1>3 DEF IInv, Pushed
<1>5. AtHeader'
  BY <1>2, <1>3 DEF AtHeader
<1>6. Accounted'
  <2>1. invalid_bytes_ \in Nat /\ invalid_bytes_ + KeptBefore(p) = HeaderAt(p)
    BY DEF IInv, Accounted
  <2> QED BY <1>2, <1>3, <2>1 DEF Accounted, HeaderSize
<1> QED BY <1>1, <1>3, <1>4, <1>5, <1>6 DEF IInv, InSet, AtEnd, Finished

LEMMA CutKeeps == ASSUME IInv, NEW message, Cut(message) PROVE IInv'
<1> DEFINE m == sets[p].messages
<1>1. PICK k \in 0 .. Len(m) - 1 :
              /\ message = m[k + 1] /\ message \in MessageSizes /\ message \in Nat \ {0}
              /\ offset_message_[p] = SubSeq(m, 1, k)
              /\ sum = BytesOf(m, k) /\ sum <= size
              /\ buf = HeaderAt(p) + HeaderSize + sum
  BY NextMessage DEF Cut
<1>2. /\ p \in 1 .. Len(sets) /\ sets \in Seq(Sets) /\ Len(sets) \in Nat
      /\ step_ = "message" /\ UNCHANGED <<sets, offset_message_>>
      /\ p' = p + 1 /\ step_' = "header" /\ sum' = 0 /\ sum # size /\ ~Fits(message)
  BY SetsOK DEF IInv, InSet, Cut
<1>3. m \in Seq(MessageSizes) /\ Len(m) \in Nat /\ size \in Nat /\ HeaderAt(p) \in Nat
      /\ TotalSize \in Nat /\ sets[p] \in Sets
  BY <1>2, SetsOK, OneSet, HeadersNext DEF size
<1>4. k \in 0 .. Len(m) /\ k + 1 \in 0 .. Len(m) /\ k \in Nat
  BY <1>3
<1>5. /\ BytesOf(m, k + 1) = BytesOf(m, k) + 12 + message
      /\ BytesOf(m, k + 1) \in Nat /\ BytesOf(m, k) \in Nat
  BY <1>1, <1>3, <1>4, BytesNext
<1>6. ~(BytesOf(m, k + 1) <= size)
  <2>1. sum = BytesOf(m, k) /\ sum \in Nat /\ message \in Nat \ {0}
    BY <1>1, <1>5
  <2>2. ~(sum + 8 < size) \/ ~(sum + 8 + 4 + message <= size)
    BY <1>2 DEF Fits, OffsetSize, SizeSize
  <2> QED BY <1>3, <1>5, <2>1, <2>2
<1>7. k = Len(m) - 1
  <2>1. k + 1 < Len(m) => BytesOf(m, k + 1) < size
    BY <1>1, <1>3, <1>4, NextFits DEF size
  <2> QED BY <1>3, <1>4, <1>5, <1>6, <2>1
<1>8. CountSize(m) # size
  <2>1. CountSize(m) = BytesOf(m, k + 1)
    BY <1>3, <1>7 DEF CountSize
  <2> QED BY <1>3, <1>5, <1>6, <2>1
<1>9. Kept(p) = SubSeq(m, 1, k) /\ CountSize(Kept(p)) = sum
  BY <1>1, <1>3, <1>4, <1>7, <1>8, CountOfPrefix DEF Kept, Front, size
<1>10. buf' = HeaderAt(p) + HeaderSize + size
  <2>1. sum \in Nat /\ buf = HeaderAt(p) + HeaderSize + sum
    BY <1>1, <1>5
  <2>2. Passed \in {8, 12}
    BY DEF Passed, OffsetSize, SizeSize
  <2>3. buf' = buf + Passed + (size - (sum + Passed))
    BY DEF Cut
  <2> QED BY <1>3, <2>1, <2>2, <2>3 DEF HeaderSize
<1>11. invalid_bytes_' = invalid_bytes_ + (size - CountSize(Kept(p)))
  BY <1>9 DEF Cut
<1> QED BY <1>1, <1>2, <1>3, <1>9, <1>10, <1>11, LeavesSet

LEMMA EndOfSetKeeps == ASSUME IInv, EndOfSet PROVE IInv'
<1> DEFINE m == sets[p].messages
<1>1. /\ p \in 1 .. Len(sets) /\ sets \in Seq(Sets) /\ Len(sets) \in Nat
      /\ step_ = "message" /\ UNCHANGED <<sets, offset_message_, sum, buf, invalid_bytes_>>
      /\ p' = p + 1 /\ step_' = "header" /\ sum = size /\ sum \in 0 .. TotalSize
  BY SetsOK DEF IInv, InSet, EndOfSet
<1>2. PICK k \in 0 .. Len(m) :
              /\ offset_message_[p] = SubSeq(m, 1, k)
              /\ sum = BytesOf(m, k) /\ sum <= size
              /\ buf = HeaderAt(p) + HeaderSize + sum
  BY <1>1 DEF IInv, InSet
<1>3. m \in Seq(MessageSizes) /\ Len(m) \in Nat /\ size \in Nat /\ sets[p] \in Sets
  BY <1>1, SetsOK, OneSet DEF size
<1>4. k = Len(m)
  BY <1>1, <1>2, <1>3, NextFits DEF size
<1>5. Kept(p) = m /\ CountSize(Kept(p)) = size
  BY <1>1, <1>2, <1>4 DEF Kept, CountSize, size
<1>6. offset_message_[p] = m
  BY <1>2, <1>3, <1>4, SubSeqFull
<1>7. invalid_bytes_' = invalid_bytes_ + (size - CountSize(Kept(p)))
  BY <1>1, <1>3, <1>5 DEF IInv, Accounted
<1> QED BY <1>1, <1>2, <1>5, <1>6, <1>7, LeavesSet

(* When all partitions have been parsed, what was pushed is what is        *)
(* complete, and with the invalid bytes it is the whole response.          *)
LEMMA SizesMatch ==
    ASSUME IInv, p = Len(sets) + 1
    PROVE  TotalSize - invalid_bytes_ = Counted
<1>1. sets \in Seq(Sets) /\ Len(sets) \in Nat /\ DOMAIN sets = 1 .. Len(sets)
  BY SetsOK DEF IInv
<1> DEFINE f == [i \in DOMAIN sets |-> HeaderSize + CountSize(offset_message_[i])]
           g == [i \in DOMAIN sets |-> HeaderSize + CountSize(Kept(i))]
<1>2. \A i \in 1 .. Len(sets) : offset_message_[i] = Kept(i)
  BY <1>1 DEF IInv, Pushed
<1>3. \A i \in 1 .. Len(sets) : f[i] = g[i]
  BY <1>1, <1>2
<1>4. Counted = SumOfFirst(f, Len(sets)) /\ KeptBefore(p) = SumOfFirst(g, p - 1)
  BY DEF Counted, KeptBefore
<1> HIDE DEF f, g
<1>5. Counted = KeptBefore(p)
  <2>1. SumOfFirst(f, Len(sets)) = SumOfFirst(g, Len(sets))
    BY <1>1, <1>3, SumSame
  <2>2. p - 1 = Len(sets)
    BY <1>1
  <2> QED BY <1>4, <2>1, <2>2
<1>6. KeptBefore(p) \in Nat /\ TotalSize = HeaderAt(p) /\ TotalSize \in Nat
  BY <1>1, KeptNext, HeadersNext DEF IInv, TotalSize
<1>7. invalid_bytes_ \in Nat /\ invalid_bytes_ + KeptBefore(p) = HeaderAt(p)
  BY DEF IInv, Accounted
<1> QED BY <1>5, <1>6, <1>7

LEMMA FinishKeeps == ASSUME IInv, Finish PROVE IInv'
<1>1. /\ p = Len(sets) + 1 /\ step_ = "header" /\ sets \in Seq(Sets) /\ Len(sets) \in Nat
      /\ UNCHANGED <<sets, p, buf, sum, offset_message_, invalid_bytes_>>
  BY SetsOK DEF IInv, Finish
<1>2. TotalSize - invalid_bytes_ = Counted
  BY <1>1, SizesMatch
<1>3. step_' = IF WithoutLast # {} THEN "no_last" ELSE "parsed"
  BY <1>2 DEF Finish
<1>4. WithoutLast' = WithoutLast
  BY <1>1 DEF WithoutLast
<1>5. HeaderAt(p)' = HeaderAt(p) /\ KeptBefore(p)' = KeptBefore(p) /\ TotalSize' = TotalSize
      /\ \A q : Kept(q)' = Kept(q)
  BY <1>1, SetsStay
<1>6. Pushed'
  BY <1>1, <1>3, <1>5 DEF IInv, Pushed
<1>7. AtHeader' /\ Accounted'
  BY <1>1, <1>5 DEF IInv, AtHeader, Accounted
<1>8. InSet' /\ AtEnd'
  BY <1>1, <1>3, <1>4 DEF InSet, AtEnd, Finished
<1> QED BY <1>1, <1>3, <1>5, <1>6, <1>7, <1>8 DEF IInv

LEMMA NothingKeeps == ASSUME IInv, UNCHANGED vars PROVE IInv'
<1>1. UNCHANGED <<sets, p, step_, buf, sum, offset_message_, invalid_bytes_>>
  BY DEF vars
<1>2. HeaderAt(p)' = HeaderAt(p) /\ KeptBefore(p)' = KeptBefore(p) /\ TotalSize' = TotalSize
      /\ (\A q : Kept(q)' = Kept(q)) /\ WithoutLast' = WithoutLast
  BY <1>1, SetsStay DEF WithoutLast
<1>3. Pushed' /\ AtHeader' /\ Accounted' /\ AtEnd'
  BY <1>1, <1>2 DEF IInv, Pushed, AtHeader, Accounted, AtEnd, Finished
<1>4. InSet'
  BY <1>1, <1>2 DEF IInv, InSet, size
<1> QED BY <1>1, <1>2, <1>3, <1>4 DEF IInv

LEMMA NextKeeps == IInv /\ [Next]_vars => IInv'
<1> SUFFICES ASSUME IInv, [Next]_vars PROVE IInv'
  OBVIOUS
<1>1. CASE Header
  BY <1>1, HeaderKeeps
<1>2. CASE \E message \in MessageSizes : Message(message) \/ Cut(message)
  BY <1>2, MessageKeeps, CutKeeps
<1>3. CASE EndOfSet
  BY <1>3, EndOfSetKeeps
<1>4. CASE Finish
  BY <1>4, FinishKeeps
<1>5. CASE UNCHANGED vars
  BY <1>5, NothingKeeps
<1> QED BY <1>1, <1>2, <1>3, <1>4, <1>5 DEF Next

LEMMA Inductive == Spec => []IInv
BY InitIInv, NextKeeps, PTL DEF Spec

-----------------------------------------------------------------------------
(* Sequences of sizes of at most MaxMessages elements. *)
LEMMA Bounded ==
    ASSUME NEW s \in Seq(MessageSizes), Len(s) <= MaxMessages
    PROVE  s \in BoundedSeq(MessageSizes, MaxMessages)
<1>1. Len(s) \in 0 .. MaxMessages /\ s \in [1 .. Len(s) -> MessageSizes]
  BY LenProperties, BoundsAssumption
<1> QED BY <1>1 DEF BoundedSeq, SeqOf

(* Whatever a set contains and wherever it is cut off, the parser stays    *)
(* inside the response, and pushes no more messages than were sent.        *)
THEOREM TypeCorrect == Spec => []TypeOK
<1>1. ASSUME IInv PROVE TypeOK
  <2>1. sets \in Seq(Sets) /\ Len(sets) \in Nat /\ p \in 1 .. Len(sets) + 1
        /\ HeaderAt(p) \in 0 .. TotalSize /\ TotalSize \in Nat /\ KeptBefore(p) \in Nat
    BY <1>1, SetsOK, HeadersNext, KeptNext DEF IInv
  <2>2. invalid_bytes_ \in 0 .. TotalSize
    BY <1>1, <2>1 DEF IInv, Accounted
  <2>3. buf \in 0 .. TotalSize
    <3>1. CASE step_ = "message"
      <4>1. p \in 1 .. Len(sets) /\ sum <= size /\ sum \in Nat /\ buf = HeaderAt(p) + HeaderSize + sum
        BY <1>1, <2>1, <3>1 DEF IInv, InSet
      <4>2. HeaderAt(p + 1) = HeaderAt(p) + HeaderSize + size /\ HeaderAt(p + 1) \in 0 .. TotalSize
            /\ size \in Nat
        BY <2>1, <4>1, HeadersNext, SetsOK, OneSet DEF size
      <4> QED BY <2>1, <4>1, <4>2 DEF HeaderSize
    <3>2. CASE step_ # "message"
      BY <1>1, <2>1, <3>2 DEF IInv, AtHeader
    <3> QED BY <3>1, <3>2
  <2>4. ASSUME NEW q \in 1 .. Len(sets)
        PROVE  offset_message_[q] \in BoundedSeq(MessageSizes, MaxMessages)
    <3>1. offset_message_[q] \in Seq(MessageSizes)
      BY <1>1 DEF IInv, Pushed
    <3>2. CASE q < p
      BY <1>1, <2>1, <3>1, <3>2, KeptOK, Bounded DEF IInv, Pushed
    <3>3. CASE q > p \/ (q = p /\ step_ # "message")
      <4>1. offset_message_[q] = <<>>
        BY <1>1, <2>1, <3>3 DEF IInv, Pushed, AtEnd, Finished
      <4>2. Len(offset_message_[q]) = 0
        BY <4>1, EmptySeq
      <4>3. Len(offset_message_[q]) <= MaxMessages
        BY <4>2, BoundsAssumption
      <4> QED BY <3>1, <4>3, Bounded
    <3>4. CASE q = p /\ step_ = "message"
      <4>1. PICK k \in 0 .. Len(sets[q].messages) :
              offset_message_[q] = SubSeq(sets[q].messages, 1, k)
        BY <1>1, <3>4 DEF IInv, InSet
      <4>2. sets[q].messages \in Seq(MessageSizes) /\ Len(sets[q].messages) \in 0 .. MaxMessages
        BY <2>1, SetsOK, OneSet
      <4>3. Len(offset_message_[q]) = k /\ k <= MaxMessages
        BY <4>1, <4>2, CountOfPrefix, BoundsAssumption
      <4> QED BY <3>1, <4>3, Bounded
    <3> QED BY <2>1, <3>2, <3>3, <3>4
  <2> QED BY <1>1, <2>1, <2>2, <2>3, <2>4 DEF IInv, TypeOK
<1> QED BY <1>1, Inductive, PTL

(* The header of the next partition is read where it is: MessageSet leaves *)
(* buf at the end of its set, moving it back when it was cut off inside an *)
(* offset or a size.                                                       *)
THEOREM FindsHeaders == Spec => []HeadersFound
<1>1. IInv => HeadersFound
  BY DEF IInv, AtHeader, HeadersFound
<1> QED BY <1>1, Inductive, PTL

(* The check of FetchResponse never rejects a response that was cut off.   *)
THEOREM SizesDoAgree == Spec => []SizesAgree
<1>1. IInv => SizesAgree
  BY DEF IInv, AtEnd, SizesAgree
<1> QED BY <1>1, Inductive, PTL

(* A partition that has been parsed has its complete messages, and no other. *)
THEOREM MessagesComplete == Spec => []CompleteMessages
<1>1. ASSUME IInv PROVE CompleteMessages
  <2>1. p \in 1 .. Len(sets) + 1 /\ Len(sets) \in Nat
    BY <1>1, SetsOK DEF IInv
  <2>2. \A q \in 1 .. p - 1 : q \in 1 .. Len(sets) /\ q < p
    BY <2>1
  <2>3. \A q \in 1 .. p - 1 : offset_message_[q] = Kept(q)
    BY <1>1, <2>2 DEF IInv, Pushed
  <2> QED BY <2>3 DEF CompleteMessages, Kept
<1> QED BY <1>1, Inductive, PTL

(* GetLastOffset takes the element before the first for a set that is one  *)
(* cut-off message, and for no other.                                      *)
THEOREM CutFirstOnly == Spec => []OnlyCutFirst
<1>1. ASSUME IInv PROVE OnlyCutFirst
  <2>1. sets \in Seq(Sets) /\ Len(sets) \in Nat
    BY <1>1, SetsOK DEF IInv
  <2>2. ASSUME Finished, NEW q \in 1 .. Len(sets)
        PROVE  q \in WithoutLast <=>
                 Len(sets[q].messages) = 1 /\ CountSize(sets[q].messages) > sets[q].size
    <3> DEFINE m == sets[q].messages
    <3>1. offset_message_[q] = Kept(q)
      BY <1>1, <2>1, <2>2 DEF IInv, AtEnd, Pushed
    <3>2. /\ m \in Seq(MessageSizes) /\ Len(m) \in Nat /\ CountSize(m) \in Nat
          /\ sets[q].size \in Nat /\ sets[q].size <= CountSize(m)
          /\ m = <<>> => sets[q].size = 0
          /\ m # <<>> => BytesOf(m, Len(m) - 1) < sets[q].size
      BY <2>1, SetsOK, OneSet, BytesNext, EmptySeq DEF CountSize
    <3>3. m # <<>> <=> Len(m) # 0
      BY <3>2, EmptySeq
    <3>4. CASE CountSize(m) = sets[q].size
      <4>1. Kept(q) = m
        BY <3>4 DEF Kept
      <4> QED BY <3>1, <3>2, <3>4, <4>1 DEF WithoutLast
    <3>5. CASE CountSize(m) # sets[q].size
      <4>1. m # <<>>
        BY <3>2, <3>5, BytesNext, EmptySeq DEF CountSize
      <4>2. Len(m) - 1 \in 0 .. Len(m) /\ Kept(q) = SubSeq(m, 1, Len(m) - 1)
        BY <3>2, <3>3, <3>5, <4>1 DEF Kept, Front
      <4>3. Kept(q) \in Seq(MessageSizes) /\ Len(Kept(q)) = Len(m) - 1
            /\ BytesOf(m, Len(m) - 1) \in Nat
        BY <3>2, <4>2, CountOfPrefix, BytesNext
      <4>4. sets[q].size # 0 /\ CountSize(m) > sets[q].size
        BY <3>2, <3>5, <4>1, <4>3
      <4>5. Kept(q) = <<>> <=> Len(m) = 1
        <5>1. Kept(q) = <<>> => Len(Kept(q)) = 0
          BY EmptySeq
        <5>2. Kept(q) # <<>> => Len(Kept(q)) # 0
          BY <4>3, EmptySeq
        <5> QED BY <3>2, <4>3, <5>1, <5>2
      <4> QED BY <3>1, <4>4, <4>5 DEF WithoutLast
    <3> QED BY <3>4, <3>5
  <2>3. Finished => (step_ = "no_last" <=> WithoutLast # {})
    BY <1>1 DEF IInv, AtEnd
  <2>4. WithoutLast \subseteq 1 .. Len(sets) /\ (step_ = "no_last" => Finished)
    BY DEF WithoutLast, Finished
  <2> QED BY <2>2, <2>3, <2>4 DEF OnlyCutFirst
<1> QED BY <1>1, Inductive, PTL
=============================================================================
