-------------------------------- MODULE Wire ---------------------------------
(***************************************************************************)
(* What is written to and read from a connection, as a sequence of fields: *)
(* how many bytes a field has, and the number in it.  A string is known by *)
(* its length.                                                             *)
(***************************************************************************)
EXTENDS Integers, SequencesExt, Sums

Field(bytes, number) == IF bytes = 0 THEN <<>> ELSE <<[bytes |-> bytes, number |-> number]>>

(* htons, htonl and htobe64, and the memcpy of the result. *)
Int16(number) == Field(2, number)
Int32(number) == Field(4, number)
Int64(number) == Field(8, number)

(* A length as a short, and the characters. *)
String(length) == Int16(length) \o Field(length, length)

(* The number of elements as an int, and each of them. *)
Array(elements, Package(_)) ==
    Int32(Len(elements)) \o FlattenSeq([i \in DOMAIN elements |-> Package(elements[i])])

SumOf(elements, Size(_)) ==
    SumOfFirst([i \in DOMAIN elements |-> Size(elements[i])], Len(elements))

ByteCount(wire) == SumOf(wire, LAMBDA field : field.bytes)
=============================================================================
