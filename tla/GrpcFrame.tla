------------------------------ MODULE GrpcFrame ------------------------------
(***************************************************************************)
(* grpc_frame and grpc_unframe of include/proto/codec.hpp: a flag byte, a  *)
(* four-byte big-endian length, the body.  A digit of the length is a      *)
(* byte; Base is 256 in the code, so that the length is computed in        *)
(* uint32_t, modulo Base^4.                                                *)
(***************************************************************************)
EXTENDS Integers, Sequences

CONSTANT Base

ASSUME BaseAssumption == Base \in Nat \ {0, 1}

\* v >> 8 and v & 0xFF.
High(v) == v \div Base
Low(v) == v % Base

\* write_be32.
WriteBe32(v) ==
  <<Low(High(High(High(v)))), Low(High(High(v))), Low(High(v)), Low(v)>>

\* read_be32.
ReadBe32(s) == ((s[1] * Base + s[2]) * Base + s[3]) * Base + s[4]

Word == Base * Base * Base * Base

grpc_frame(body) == <<0>> \o WriteBe32(Len(body)) \o body

----------------------------------------------------------------------------
(* grpc_unframe. *)

\* The length the header announces.
Announced(raw) == ReadBe32(SubSeq(raw, 2, 5))

\* 5 + len is computed in uint32_t, before the cast to size_t.
Needed(raw) == (5 + Announced(raw)) % Word

\* The two failures.
TooShort(raw) == Len(raw) < 5
Truncated(raw) == ~TooShort(raw) /\ Len(raw) < Needed(raw)

Rejected(raw) == TooShort(raw) \/ Truncated(raw)

\* raw.substr(5, len): len bytes, or those that are left.
grpc_unframe(raw) ==
  LET last == 5 + Announced(raw)
  IN  SubSeq(raw, 6, IF last <= Len(raw) THEN last ELSE Len(raw))

----------------------------------------------------------------------------
\* A body whose length fits the header is accepted again and comes back whole.
FramesBack(body) ==
  ~Rejected(grpc_frame(body)) /\ grpc_unframe(grpc_frame(body)) = body
=============================================================================
