------------------------------ MODULE Formats --------------------------------
(***************************************************************************)
(* Reading what is on the wire, the way the constructors of the responses  *)
(* and a broker do: one item after the other, each of the width the reader *)
(* expects there, until something does not fit.                            *)
(*                                                                         *)
(* A reader is a function of a wire: the value it gets off its front, what *)
(* is left, and how it went: "read", "thrown", or "lost", once it is past  *)
(* the end or in the middle of a field.  An item is a reader with the name *)
(* of what it reads, a format a sequence of items.  Readers are made of    *)
(* readers, so nested formats need no recursion; the repetitions within    *)
(* one are a recursive function of their number.                           *)
(***************************************************************************)
EXTENDS Wire

Fields == [bytes : Nat, number : Int]
Wires  == Seq(Fields)

Got(value, rest) == [value |-> value, rest |-> rest, how |-> "read"]
Stops(how)       == [value |-> <<>>, rest |-> <<>>, how |-> how]

-----------------------------------------------------------------------------
(* NetBytesToShort, NetBytesToInt and be64toh at the current position. *)
StartsWith(wire, bytes) == wire # <<>> /\ Head(wire).bytes = bytes

Number(bytes) ==
    [wire \in Wires |->
        IF StartsWith(wire, bytes) THEN Got(Head(wire).number, Tail(wire)) ELSE Stops("lost")]

(* An error code that makes the constructor throw at once. *)
ErrorCode ==
    [wire \in Wires |->
        IF StartsWith(wire, 2) /\ Head(wire).number # 0 THEN Stops("thrown") ELSE Number(2)[wire]]

(* Characters, after their number. *)
Characters(bytes) ==
    [wire \in Wires |->
        LET length == Head(wire).number
            after  == Tail(wire)
        IN  IF ~StartsWith(wire, bytes) THEN Stops("lost")
            ELSE IF length = 0 THEN Got(0, after)
            ELSE IF StartsWith(after, length) THEN Got(length, Tail(after))
            ELSE Stops("lost")]

(* One reader after the other, as long as they read. *)
Then(reader, before) ==
    LET next == reader[before.rest]
    IN  IF before.how # "read" THEN before
        ELSE IF next.how # "read" THEN Stops(next.how)
        ELSE Got(Append(before.value, next.value), next.rest)

FirstInTurn(readers, n, wire) ==
    LET got[i \in Nat] ==
            IF i = 0 THEN Got(<<>>, wire) ELSE Then(readers[i], got[i - 1])
    IN  got[n]

InTurn(readers, wire) == FirstInTurn(readers, Len(readers), wire)

(* Elements, after their number. *)
Elements(reader) ==
    [wire \in Wires |->
        IF StartsWith(wire, 4)
        THEN InTurn([i \in 1 .. Head(wire).number |-> reader], Tail(wire))
        ELSE Stops("lost")]

(* An object: its values, by name. *)
Named(format, values) ==
    [name \in {format[i].name : i \in DOMAIN format} |->
        values[CHOOSE i \in DOMAIN format : format[i].name = name]]
Object(format) ==
    [wire \in Wires |->
        LET got == InTurn([i \in DOMAIN format |-> format[i].reader], wire)
        IN  IF got.how = "read" THEN Got(Named(format, got.value), got.rest) ELSE got]

(* The same in a number of bytes that is checked. *)
Counting(reader) ==
    [wire \in Wires |->
        LET got == reader[Tail(wire)]
        IN  IF StartsWith(wire, 4) /\ got.how = "read"
               /\ ByteCount(Tail(wire)) - ByteCount(got.rest) = Head(wire).number
            THEN got
            ELSE Stops("lost")]

-----------------------------------------------------------------------------
(* The items of a format. *)
Item(name, reader) == [name |-> name, reader |-> reader]

Read16(name)        == Item(name, Number(2))
Read32(name)        == Item(name, Number(4))
Read64(name)        == Item(name, Number(8))
Throwing(name)      == Item(name, ErrorCode)
Text(name)          == Item(name, Characters(2))
Bytes(name)         == Item(name, Characters(4))
Ints(name)          == Item(name, Elements(Number(4)))
Longs(name)         == Item(name, Elements(Number(8)))
Many(name, format)  == Item(name, Elements(Object(format)))
One(name, format)   == Item(name, Object(format))
Sized(name, format) == Item(name, Counting(Object(format)))
=============================================================================
