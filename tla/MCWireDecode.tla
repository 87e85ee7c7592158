---------------------------- MODULE MCWireDecode ----------------------------
(***************************************************************************)
(* WireDecode for TLC: every string of up to MaxLen bytes over an alphabet *)
(* that holds all wire types, known and unknown field numbers, small       *)
(* lengths, the two-byte tag of a field number that wraps to 1 and bytes   *)
(* that never end a varint.  The widths are scaled so that MaxGroups bytes *)
(* (14 bits) do not fit uint64_t (13 bits), and tag >> 3 (10 bits) does    *)
(* not fit int (8 bits), as 10 bytes and 61 bits do not in the code.       *)
(***************************************************************************)
EXTENDS WireDecode, FloatingPoint

CONSTANTS MaxLen, Alphabet

UpTo(n) == UNION {[1..k -> Alphabet] : k \in 0..n}
MCInputs == UpTo(MaxLen)

\* The outer message has a primitive field and a message field; the inner one
\* has itself as a field.
MCTypes == [outer |-> <<"int32", "inner">>, inner |-> <<"bool", "inner">>]
MCSizeModulus == 2^16
MCModulus == 2^13
MCIntModulus == 2^8
=============================================================================
