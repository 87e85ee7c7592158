----------------------------- MODULE WireDecode -----------------------------
(***************************************************************************)
(* ProtoCodec::decode of include/proto/codec.hpp, one step per byte of a   *)
(* varint and one per field: where the decoder stands, which bytes it may  *)
(* touch, and when it gives up.                                            *)
(*                                                                         *)
(* decode calls itself on a copy of a sub-message.  The copy is a range of *)
(* the input, so an activation is a frame with its own bounds lo and hi,   *)
(* and positions count bytes of the whole input.  A failure (PROTO_FAIL)   *)
(* aborts the module: nothing runs after it.                               *)
(*                                                                         *)
(* The widths are constants: MaxGroups is 10, Modulus 2^64, IntModulus and *)
(* SizeModulus 2^32 in the code.                                           *)
(***************************************************************************)
EXTENDS WireSchema, FiniteSets

CONSTANTS Inputs,       \* the byte strings handed to decode
          Root,         \* the message type decode is called with
          MaxGroups,    \* bytes after which a varint overflows
          IntModulus,   \* 2^width of int
          SizeModulus   \* 2^width of size_t

Uint64 == 0..(Modulus - 1)

WT_VARINT == 0
WT_I64 == 1
WT_LEN == 2
WT_I32 == 5

ASSUME InputsAssumption == Inputs \subseteq Seq(Byte)
ASSUME RootAssumption == Root \in Message
ASSUME WidthsAssumption ==
  /\ MaxGroups \in Nat \ {0}
  /\ IntModulus \in Nat \ {0} /\ SizeModulus \in Nat \ {0}
  /\ \A s \in Inputs : Len(s) < SizeModulus

\* 2^shift after k bytes of a varint.
Capacity[k \in Nat] == IF k = 0 THEN 1 ELSE 128 * Capacity[k - 1]

\* shift < 64 before the last byte that fits.
ASSUME GroupsAssumption == \A k \in 0..(MaxGroups - 1) : Capacity[k] < Modulus

\* What a varint is read for.
Goal == {"tag", "value", "len", "skip_len", "sub_len"}

VARIABLES bytes,   \* the input
          stack,   \* the activations of decode, innermost last
          objs,    \* their result objects: the decoded fields, in order
          pc,      \* "loop", "varint", "skip_varint", a Goal, "done" or "abort"
          goal,    \* what the varint being read is for
          acc,     \* its value so far
          groups,  \* how many of its bytes are read
          weight,  \* 2^shift, what its next byte counts
          over     \* a read went beyond the end of its string

varint == <<goal, acc, groups, weight>>
vars == <<bytes, stack, objs, pc, varint, over>>

\* field is the number of the field being decoded.
Frame == [lo : Nat, hi : Nat, pos : Nat, msg : Message, field : Int]

----------------------------------------------------------------------------
Cur == stack[Len(stack)]

InString == Cur.pos < Cur.hi

NextByte == bytes[Cur.pos + 1]

\* The n bytes from the current position on.
Slice(n) == SubSeq(bytes, Cur.pos + 1, Cur.pos + n)

\* A read that does not consume what it reads.
AdvanceMutant(n) == stack' = stack

\* data[pos++] followed by another increment.
AdvanceTwice(n) == stack' = [stack EXCEPT ![Len(stack)].pos = @ + n + 1]

\* pos += n.
Advance(n) == stack' = [stack EXCEPT ![Len(stack)].pos = @ + n]

\* static_cast<int>(tag >> 3): a large number wraps to a negative or a small one.
FieldNumber(tag) ==
  LET n == (tag \div 8) % IntModulus
  IN  IF 2 * n >= IntModulus THEN n - IntModulus ELSE n

\* sz - pos, in size_t.
Room == (Cur.hi - Cur.pos) % SizeModulus

\* The next seven bits, added up in a wider type.
GatheredMutant == acc + (NextByte % 128) * weight

\* val |= uint64_t(byte & 0x7F) << shift: bits beyond the width are lost.
Gathered == (acc + (NextByte % 128) * weight) % Modulus

StartVarint(g) ==
  /\ pc' = "varint" /\ goal' = g
  /\ acc' = 0 /\ groups' = 0 /\ weight' = 1

\* The decoded value joins the result: the first under a name stands alone,
\* later ones make it an array.  Here: the values in the order they came.
Found(v) ==
  objs' = [objs EXCEPT ![Len(objs)] = Append(@, [field |-> Cur.field, val |-> v])]

\* PROTO_FAIL.
Fail == pc' = "abort" /\ UNCHANGED <<bytes, stack, objs, varint, over>>

----------------------------------------------------------------------------
(* The loop of decode. *)

NextField ==
  /\ pc = "loop" /\ InString
  /\ StartVarint("tag")
  /\ UNCHANGED <<bytes, stack, objs, over>>

\* The outer activation returns its result.
Done ==
  /\ pc = "loop" /\ ~InString /\ Len(stack) = 1
  /\ pc' = "done"
  /\ UNCHANGED <<bytes, stack, objs, varint, over>>

\* The field the returning activation itself decoded last.
OwnField == Cur.field

\* The field_name of the activation that called this one.
CallerField == stack[Len(stack) - 1].field

\* A nested activation returns: its result is a value of the outer one.
SubDone ==
  /\ pc = "loop" /\ ~InString /\ Len(stack) > 1
  /\ LET n == Len(stack) - 1
         sub == [field |-> CallerField, val |-> objs[n + 1]]
     IN  /\ stack' = SubSeq(stack, 1, n)
         /\ objs' = [SubSeq(objs, 1, n) EXCEPT ![n] = Append(@, sub)]
  /\ UNCHANGED <<bytes, pc, varint, over>>

\* A byte more than fit.
OverflowsLate(k) == k > MaxGroups

\* shift >= 64 after k bytes.
Overflows(k) == k >= MaxGroups

\* read_varint: one byte; MaxGroups of them without an end overflow.
ReadByte ==
  /\ pc = "varint" /\ InString
  /\ acc' = Gathered
  /\ weight' = weight * 128
  /\ groups' = groups + 1
  /\ pc' = IF NextByte < 128 THEN goal
           ELSE IF Overflows(groups') THEN "abort" ELSE "varint"
  /\ Advance(1)
  /\ UNCHANGED <<bytes, objs, goal, over>>

TruncatedVarint == pc = "varint" /\ ~InString /\ Fail

----------------------------------------------------------------------------
(* What a tag leads to. *)

Number == FieldNumber(acc)
WireType == acc % 8
Known == Number \in DOMAIN Types[Cur.msg]
Type == Types[Cur.msg][Number]

\* The tag names a field of the message and the branch for its type has a
\* case for the wire type; otherwise the field is skipped.
Decodes ==
  /\ Known
  /\ \/ Type \in Primitive /\ WireType \in {WT_VARINT, WT_I64, WT_LEN, WT_I32}
     \/ Type \in Message /\ WireType = WT_LEN

BeginValue(g) ==
  /\ pc' = "varint" /\ goal' = g
  /\ acc' = 0 /\ groups' = 0 /\ weight' = 1
  /\ stack' = [stack EXCEPT ![Len(stack)].field = Number]
  /\ UNCHANGED <<bytes, objs, over>>

Scalar ==
  /\ pc = "tag" /\ Decodes /\ WireType = WT_VARINT
  /\ BeginValue("value")

Text ==
  /\ pc = "tag" /\ Decodes /\ WireType = WT_LEN /\ Type \in Primitive
  /\ BeginValue("len")

SubMessage ==
  /\ pc = "tag" /\ Decodes /\ WireType = WT_LEN /\ Type \in Message
  /\ BeginValue("sub_len")

Width == IF WireType = WT_I64 THEN 8 ELSE 4

\* A double, and a float as the double it becomes.
FixedValue == IF WireType = WT_I64 THEN Slice(8) ELSE Widen(Slice(4))

\* double and float: a memcpy with no look at the size.  What it reads beyond
\* the string is whatever lies there.
Fixed ==
  /\ pc = "tag" /\ Decodes /\ WireType \in {WT_I64, WT_I32}
  /\ pc' = "loop"
  /\ over' = (over \/ Cur.pos + Width > Cur.hi)
  /\ stack' = [stack EXCEPT ![Len(stack)].field = Number, ![Len(stack)].pos = @ + Width]
  /\ objs' = [objs EXCEPT ![Len(objs)] =
                Append(@, [field |-> Number,
                           val |-> IF Cur.pos + Width > Cur.hi THEN <<>> ELSE FixedValue])]
  /\ UNCHANGED <<bytes, varint>>

\* skip_field: eight or four bytes ahead, beyond the end if need be.
SkipFixed ==
  /\ pc = "tag" /\ ~Decodes /\ WireType \in {WT_I64, WT_I32}
  /\ pc' = "loop" /\ Advance(Width)
  /\ UNCHANGED <<bytes, objs, varint, over>>

SkipVarint ==
  /\ pc = "tag" /\ ~Decodes /\ WireType = WT_VARINT
  /\ pc' = "skip_varint"
  /\ UNCHANGED <<bytes, stack, objs, varint, over>>

SkipLen ==
  /\ pc = "tag" /\ ~Decodes /\ WireType = WT_LEN
  /\ StartVarint("skip_len")
  /\ UNCHANGED <<bytes, stack, objs, over>>

UnknownWireType ==
  /\ pc = "tag" /\ ~Decodes /\ WireType \notin {WT_VARINT, WT_I64, WT_LEN, WT_I32}
  /\ Fail

\* Any number of bytes up to one without the high bit, or up to the end.
SkipByte ==
  /\ pc = "skip_varint" /\ InString
  /\ pc' = IF NextByte < 128 THEN "loop" ELSE "skip_varint"
  /\ Advance(1)
  /\ UNCHANGED <<bytes, objs, varint, over>>

SkipEnds ==
  /\ pc = "skip_varint" /\ ~InString
  /\ pc' = "loop"
  /\ UNCHANGED <<bytes, stack, objs, varint, over>>

----------------------------------------------------------------------------
(* What follows the varint of a value or a length. *)

\* The cast to a signed type forgotten.
UnsignedValue == IF Types[Cur.msg][Cur.field] = Bool THEN acc # 0 ELSE acc

\* v != 0 in a bool field, and in any other static_cast<int64_t>(v).
ScalarValue == IF Types[Cur.msg][Cur.field] = Bool THEN acc # 0 ELSE Signed(acc)

TakeScalar ==
  /\ pc = "value"
  /\ pc' = "loop" /\ Found(<<ScalarValue>>)
  /\ UNCHANGED <<bytes, stack, varint, over>>

LengthExceeds == pc \in {"len", "skip_len", "sub_len"} /\ acc > Room /\ Fail

TakeText ==
  /\ pc = "len" /\ acc <= Room
  /\ pc' = "loop" /\ Found(Slice(acc)) /\ Advance(acc)
  /\ UNCHANGED <<bytes, varint, over>>

SkipText ==
  /\ pc = "skip_len" /\ acc <= Room
  /\ pc' = "loop" /\ Advance(acc)
  /\ UNCHANGED <<bytes, objs, varint, over>>

\* A sub-message decoded in place, up to the end of the string around it.
SliceEndMutant == Cur.hi

\* The end of substr(pos, len).
SliceEnd == Cur.pos + acc

\* decode(sub, ti) on a copy of the bytes.
DecodeSub ==
  /\ pc = "sub_len" /\ acc <= Room
  /\ pc' = "loop"
  /\ stack' = Append([stack EXCEPT ![Len(stack)].pos = @ + acc],
                     [lo |-> Cur.pos, hi |-> SliceEnd, pos |-> Cur.pos,
                      msg |-> Types[Cur.msg][Cur.field], field |-> 0])
  /\ objs' = Append(objs, <<>>)
  /\ UNCHANGED <<bytes, varint, over>>

----------------------------------------------------------------------------
Init ==
  /\ bytes \in Inputs
  /\ stack = <<[lo |-> 0, hi |-> Len(bytes), pos |-> 0, msg |-> Root, field |-> 0]>>
  /\ objs = <<<<>>>>
  /\ pc = "loop" /\ goal = "tag"
  /\ acc = 0 /\ groups = 0 /\ weight = 1
  /\ over = FALSE

Next ==
  \/ NextField \/ Done \/ SubDone
  \/ ReadByte \/ TruncatedVarint
  \/ Scalar \/ Text \/ SubMessage \/ Fixed
  \/ SkipFixed \/ SkipVarint \/ SkipLen \/ UnknownWireType \/ SkipByte \/ SkipEnds
  \/ TakeScalar \/ LengthExceeds \/ TakeText \/ SkipText \/ DecodeSub

\* decode is a sequential function: it keeps running until it returns or fails.
Spec == Init /\ [][Next]_vars /\ WF_vars(Next)

----------------------------------------------------------------------------
(* Properties. *)

TypeOK ==
  /\ bytes \in Seq(Byte)
  /\ stack \in Seq(Frame) /\ stack # <<>>
  /\ pc \in Goal \cup {"loop", "varint", "skip_varint", "done", "abort"}
  /\ goal \in Goal
  /\ acc \in Uint64 /\ groups \in Nat /\ weight \in Nat \ {0}
  /\ over \in BOOLEAN

\* The string an activation decodes lies in the input, in the part its caller
\* has already stepped over: no byte is decoded twice at one level, and no
\* length field makes an activation see more than it was given.
SlicesNest ==
  /\ \A i \in DOMAIN stack :
       stack[i].lo <= stack[i].pos /\ stack[i].lo <= stack[i].hi /\ stack[i].hi <= Len(bytes)
  /\ \A i \in DOMAIN stack : i < Len(stack) =>
       /\ stack[i].lo <= stack[i + 1].lo
       /\ stack[i + 1].hi <= stack[i].pos
       /\ stack[i].pos <= stack[i].hi

\* However many bytes with the high bit there are, read_varint shifts none of them
\* by the width of uint64_t or more, which would be undefined: the check comes in
\* time for the next byte.
ShiftDefined == pc = "varint" => weight < Modulus

\* Fixed-width fields may leave pos beyond sz.  Nothing subtracts one from the
\* other then: whenever a length is checked, sz - pos is the number of bytes
\* that are left, not a wrapped size_t.
RoomIsExact ==
  pc \in {"len", "skip_len", "sub_len"} => Room = Cur.hi - Cur.pos /\ Cur.pos <= Cur.hi

\* A field that is cut off costs at most eight bytes beyond its string, and is
\* the last thing the innermost activation looks at: nothing is read or checked
\* from out there, and no caller stands beyond its own string meanwhile.
OverrunEnds ==
  \A i \in DOMAIN stack : stack[i].pos > stack[i].hi =>
    i = Len(stack) /\ pc \in {"loop", "done"} /\ stack[i].pos <= stack[i].hi + 8

\* The bytes, counted from 1, that the activations have not stepped over.
ToDo == UNION {(stack[i].pos + 1)..stack[i].hi : i \in DOMAIN stack}

\* No byte of the input is decoded twice, at the same level or at another:
\* what an activation of decode has read or skipped, none will come back to.
EachByteOnce ==
  [][/\ ToDo' \subseteq ToDo
     /\ Len(stack') = Len(stack) =>
          \A b \in ToDo' : ~(Cur.pos < b /\ b <= Cur'.pos /\ b <= Cur.hi)]_vars

\* What is left to do after the bytes: to leave the loop or go through it once
\* more, and what follows a varint.
Rank ==
  CASE pc \in {"done", "abort"} -> 0
    [] pc = "varint"            -> 1
    [] pc = "loop"              -> 2
    [] pc = "skip_varint"       -> 3
    [] OTHER                    -> 4

Work == 4 * Cardinality(ToDo) + Len(stack) + Rank

\* No step of decode is without effect, on any input: what is left to do, at
\* most four steps for a byte, becomes less with each, so that no malformed
\* message keeps the module busy.
Progress == [][Work' < Work]_vars

\* Whatever the input, the object decode returns is one of the schema: results are
\* only added to, in the order of the input, under a field the message declares;
\* the object of a nested activation goes to a field of the type it was decoded
\* with, and anything else to a field that is no message.
ResultsFollowSchema ==
  [][\A i \in DOMAIN objs \cap DOMAIN objs' : objs'[i] # objs[i] =>
       LET added == objs'[i][Len(objs'[i])]
           types == Types[stack[i].msg]
       IN  /\ objs'[i] = Append(objs[i], added)
           /\ added.field \in DOMAIN types
           /\ IF Len(stack') < Len(stack)
              THEN types[added.field] = Cur.msg /\ added.val = objs[Len(objs)]
              ELSE types[added.field] \in Primitive]_vars

\* docs/en.md, Common pitfalls: the codec "aborts (VM trap) on malformed
\* input".  It does not read on beyond the end of its input instead.
NoOverread == ~over

\* Every input, however malformed, is decoded or rejected in the end.
Terminates == <>(pc \in {"done", "abort"})
=============================================================================
