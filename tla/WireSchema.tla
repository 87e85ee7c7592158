----------------------------- MODULE WireSchema -----------------------------
(***************************************************************************)
(* What encode and decode of include/proto/codec.hpp share: schema_t and   *)
(* the integers.  A double or a float is its memory image, a byte string   *)
(* of 8 or 4, which memcpy moves as it is.                                 *)
(***************************************************************************)
EXTENDS Integers, Sequences

CONSTANTS Types,   \* Types[m]: the field types of message type m, in order
          Modulus, \* 2^width of uint64_t
          Widen(_) \* a float as a double

Strings == "string"
Bool == "bool"
Double == "double"
Float == "float"
Integer == "int32"   \* and every other name

\* The types that are names, not objects.
Primitive == {Strings, Bool, Double, Float, Integer}

Message == DOMAIN Types

Byte == 0..255

ASSUME SchemaAssumption ==
  \A m \in Message : m \notin Primitive /\ Types[m] \in Seq(Message \cup Primitive)

ASSUME ModulusAssumption == Modulus \in Nat \ {0}

Int64 == {i \in Int : -Modulus <= 2 * i /\ 2 * i < Modulus}

\* static_cast<int64_t> of a uint64_t.
Signed(v) == IF 2 * v < Modulus THEN v ELSE v - Modulus
=============================================================================
