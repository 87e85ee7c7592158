-------------------------- MODULE WireDecodeProofs --------------------------
(***************************************************************************)
(* The bounds of ProtoCodec::decode for inputs of any length, any schema   *)
(* and the widths of any platform: an activation never gets a slice that   *)
(* is not inside its caller's string, and the size_t subtraction of every  *)
(* length check is exact.                                                  *)
(***************************************************************************)
EXTENDS WireDecode, SequenceTheorems, FiniteSetTheorems, TLAPS

\* The current position is beyond the end of the string between two fields at
\* the most: whoever reads a varint or checks a length starts inside.
Within == pc \notin {"loop", "done"} => Cur.pos <= Cur.hi

\* The length being read for a sub-message belongs to a field of message type.
SubField ==
  /\ pc \in Goal => pc = goal
  /\ pc \in {"varint", "sub_len"} /\ goal = "sub_len" =>
       Cur.field \in DOMAIN Types[Cur.msg] /\ Types[Cur.msg][Cur.field] \in Message

Input == bytes \in Seq(Byte) /\ Len(bytes) < SizeModulus

IInv == TypeOK /\ Input /\ SlicesNest /\ Within /\ SubField

----------------------------------------------------------------------------
LEMMA ModNat == \A a \in Int, m \in Nat \ {0} : a % m \in 0..(m - 1)
OBVIOUS

LEMMA ModSmall == \A a \in Nat, m \in Nat \ {0} : a < m => a % m = a
OBVIOUS

\* A field number is an int, whatever the tag.
LEMMA FieldNumberIsInt == ASSUME NEW t \in Nat PROVE FieldNumber(t) \in Int
<1> DEFINE n == (t \div 8) % IntModulus
<1>1. t \div 8 \in Nat
  OBVIOUS
<1>2. n \in Nat
  BY <1>1, ModNat, WidthsAssumption, ModulusAssumption
<1> HIDE DEF n
<1>3. (IF 2 * n >= IntModulus THEN n - IntModulus ELSE n) \in Int
  BY <1>2, WidthsAssumption, ModulusAssumption
<1> QED BY <1>3 DEF FieldNumber, n

\* The innermost activation is a frame.
LEMMA CurIsFrame ==
  ASSUME TypeOK
  PROVE  /\ Len(stack) \in Nat \ {0}
         /\ DOMAIN stack = 1..Len(stack)
         /\ stack \in Seq(Frame)
         /\ Cur = stack[Len(stack)] /\ Cur \in Frame
         /\ Cur.lo \in Nat /\ Cur.hi \in Nat /\ Cur.pos \in Nat /\ Cur.field \in Int
         /\ Cur.msg \in Message
<1>1. stack \in Seq(Frame) /\ Len(stack) \in Nat \ {0}
  BY DEF TypeOK
<1>2. Cur \in Frame
  BY <1>1 DEF Cur
<1> QED BY <1>1, <1>2 DEF Cur, Frame

\* Where an activation stands inside its string, sz - pos does not wrap.
LEMMA RoomExact ==
  ASSUME TypeOK, Input, SlicesNest, Cur.pos <= Cur.hi
  PROVE  Room = Cur.hi - Cur.pos
<1>1. Cur.hi <= Len(bytes)
  <2>1. Len(stack) \in DOMAIN stack /\ Cur = stack[Len(stack)]
    BY CurIsFrame
  <2> QED BY <2>1 DEF SlicesNest
<1>2. Cur.hi - Cur.pos \in Nat /\ Cur.hi - Cur.pos < SizeModulus
  <2>1. Len(bytes) \in Nat /\ SizeModulus \in Nat /\ Len(bytes) < SizeModulus
    BY WidthsAssumption, ModulusAssumption DEF Input
  <2> QED BY <1>1, <2>1, CurIsFrame
<1>3. SizeModulus \in Nat \ {0}
  BY WidthsAssumption, ModulusAssumption
<1> QED BY <1>2, <1>3, ModSmall DEF Room

\* Another last element leaves the others as they are.
LEMMA ReplaceLast ==
  ASSUME NEW S, NEW s \in Seq(S), s # <<>>, NEW e \in S, NEW t,
         t = [s EXCEPT ![Len(s)] = e]
  PROVE  /\ t \in Seq(S) /\ Len(t) = Len(s) /\ DOMAIN t = 1..Len(s)
         /\ t[Len(s)] = e
         /\ \A i \in 1..Len(s) : i < Len(s) => t[i] = s[i]
<1>1. Len(s) \in 1..Len(s)
  OBVIOUS
<1>2. t \in Seq(S) /\ Len(t) = Len(s)
  BY <1>1, ExceptSeq
<1>3. t[Len(s)] = e /\ \A i \in 1..Len(s) : i < Len(s) => t[i] = s[i]
  BY <1>1
<1>4. DOMAIN t = 1..Len(s)
  BY <1>2
<1> QED BY <1>2, <1>3, <1>4

\* The current activation advances to q and may note a field number: the
\* bounds of all activations stay.
LEMMA AdvanceKeeps ==
  ASSUME TypeOK, Input, SlicesNest, NEW q \in Nat, NEW f \in Int, Cur.pos <= q,
         stack' = [stack EXCEPT ![Len(stack)].pos = q, ![Len(stack)].field = f],
         bytes' = bytes
  PROVE  /\ stack' \in Seq(Frame) /\ stack' # <<>> /\ Len(stack') = Len(stack)
         /\ Cur'.lo = Cur.lo /\ Cur'.hi = Cur.hi /\ Cur'.msg = Cur.msg
         /\ Cur'.pos = q /\ Cur'.field = f
         /\ SlicesNest'
<1> DEFINE n == Len(stack)
           g == [Cur EXCEPT !.pos = q, !.field = f]
<1>1. n \in Nat \ {0} /\ DOMAIN stack = 1..n /\ stack \in Seq(Frame) /\ Cur = stack[n]
  BY CurIsFrame
<1>2. /\ g \in Frame /\ g.lo = Cur.lo /\ g.hi = Cur.hi /\ g.msg = Cur.msg
      /\ g.pos = q /\ g.field = f
  BY CurIsFrame DEF Frame
<1>3. stack' = [stack EXCEPT ![n] = g]
  BY <1>1
<1> HIDE DEF n, g
<1>4. /\ stack' \in Seq(Frame) /\ Len(stack') = n /\ DOMAIN stack' = 1..n
      /\ stack'[n] = g
      /\ \A i \in 1..n : i < n => stack'[i] = stack[i]
  <2>1. g \in Frame /\ stack # <<>> /\ n = Len(stack)
    BY <1>2 DEF n, TypeOK
  <2>2. stack \in Seq(Frame) /\ stack' = [stack EXCEPT ![Len(stack)] = g]
    BY <1>1, <1>3, <2>1
  <2>3. /\ stack' \in Seq(Frame) /\ Len(stack') = Len(stack) /\ DOMAIN stack' = 1..Len(stack)
        /\ stack'[Len(stack)] = g
        /\ \A i \in 1..Len(stack) : i < Len(stack) => stack'[i] = stack[i]
    BY ONLY <2>1, <2>2, ReplaceLast
  <2> QED BY ONLY <2>3 DEF n
<1>5. Cur' = g /\ n = Len(stack)
  BY <1>4 DEF Cur, n
<1>6. \A i \in 1..n : stack'[i].lo = stack[i].lo /\ stack'[i].hi = stack[i].hi
  <2> SUFFICES ASSUME NEW i \in 1..n
               PROVE  stack'[i].lo = stack[i].lo /\ stack'[i].hi = stack[i].hi
    OBVIOUS
  <2>1. i < n \/ i = n
    BY <1>1
  <2> QED BY <1>1, <1>2, <1>4, <2>1
<1>7. SlicesNest'
  <2>1. ASSUME NEW i \in 1..n
        PROVE  /\ stack'[i].lo <= stack'[i].pos
               /\ stack'[i].lo <= stack'[i].hi /\ stack'[i].hi <= Len(bytes)
    <3>1. stack'[i].lo <= stack'[i].hi /\ stack'[i].hi <= Len(bytes)
      BY <1>1, <1>6 DEF SlicesNest
    <3>2. CASE i < n
      BY <1>1, <1>4, <3>1, <3>2 DEF SlicesNest
    <3>3. CASE i = n
      <4>1. Cur.lo <= Cur.pos /\ Cur.lo \in Nat /\ Cur.pos \in Nat
        <5>1. Len(stack) \in DOMAIN stack /\ Cur = stack[Len(stack)]
          BY CurIsFrame
        <5> QED BY <5>1, CurIsFrame DEF SlicesNest
      <4>2. stack'[i] = g /\ g.lo = Cur.lo /\ g.pos = q
        BY <1>2, <1>4, <3>3
      <4>3. Cur.lo <= q
        BY <4>1
      <4>4. stack'[i].lo <= stack'[i].pos
        BY <4>2, <4>3
      <4> QED BY <3>1, <4>4
    <3> QED BY <1>1, <3>2, <3>3
  <2>2. ASSUME NEW i \in 1..n, i < n
        PROVE  /\ stack'[i].lo <= stack'[i + 1].lo
               /\ stack'[i + 1].hi <= stack'[i].pos
               /\ stack'[i].pos <= stack'[i].hi
    <3>1. i + 1 \in 1..n
      BY <1>1, <2>2
    <3>2. stack'[i] = stack[i]
      BY <1>4, <2>2
    <3>3. stack'[i + 1].lo = stack[i + 1].lo /\ stack'[i + 1].hi = stack[i + 1].hi
      BY <1>6, <3>1
    <3> QED BY <1>1, <1>5, <2>2, <3>2, <3>3 DEF SlicesNest
  <2> QED BY <1>4, <2>1, <2>2 DEF SlicesNest
<1> QED BY <1>1, <1>2, <1>4, <1>5, <1>7

----------------------------------------------------------------------------
(* The inductive invariant. *)

LEMMA InitInv == Init => IInv
<1> SUFFICES ASSUME Init PROVE IInv
  OBVIOUS
<1> DEFINE f == [lo |-> 0, hi |-> Len(bytes), pos |-> 0, msg |-> Root, field |-> 0]
<1>1. bytes \in Seq(Byte) /\ Len(bytes) \in Nat /\ Len(bytes) < SizeModulus
  BY InputsAssumption, WidthsAssumption, ModulusAssumption DEF Init
<1>2. f \in Frame
  BY <1>1, RootAssumption DEF Frame
<1>3. stack = <<f>> /\ Len(stack) = 1 /\ DOMAIN stack = {1} /\ stack[1] = f
  BY DEF Init
<1>4. stack \in Seq(Frame)
  BY <1>2, <1>3
<1>5. TypeOK
  <2>1. stack # <<>>
    BY <1>3
  <2>2. /\ pc \in Goal \cup {"loop", "varint", "skip_varint", "done", "abort"}
        /\ goal \in Goal
    BY DEF Init, Goal
  <2>3. acc = 0 /\ groups = 0 /\ weight = 1 /\ over = FALSE
    BY DEF Init
  <2>4. acc \in Uint64 /\ groups \in Nat /\ weight \in Nat \ {0}
    BY <2>3, WidthsAssumption, ModulusAssumption DEF Uint64
  <2>5. over \in BOOLEAN
    BY <2>3
  <2> QED BY <1>1, <1>4, <2>1, <2>2, <2>4, <2>5 DEF TypeOK
<1>6. SlicesNest
  BY <1>1, <1>3 DEF SlicesNest
<1> QED BY <1>1, <1>5, <1>6 DEF Init, IInv, Input, Within, SubField, Goal

\* A step that moves the current activation (or leaves it) and ends at pc'.
LEMMA MoveInv ==
  ASSUME IInv, NEW q \in Nat, NEW f \in Int, Cur.pos <= q,
         stack' = [stack EXCEPT ![Len(stack)].pos = q, ![Len(stack)].field = f],
         bytes' = bytes,
         pc' \in Goal \cup {"loop", "varint", "skip_varint", "done", "abort"},
         goal' \in Goal, acc' \in Uint64, groups' \in Nat, weight' \in Nat \ {0},
         over' \in BOOLEAN,
         pc' \notin {"loop", "done"} => q <= Cur.hi,
         pc' \in Goal => pc' = goal',
         pc' \in {"varint", "sub_len"} /\ goal' = "sub_len" =>
           f \in DOMAIN Types[Cur.msg] /\ Types[Cur.msg][f] \in Message
  PROVE  IInv'
<1>1. /\ stack' \in Seq(Frame) /\ stack' # <<>>
      /\ Cur'.hi = Cur.hi /\ Cur'.msg = Cur.msg
      /\ Cur'.pos = q /\ Cur'.field = f
      /\ SlicesNest'
  BY AdvanceKeeps DEF IInv
<1>2. TypeOK'
  BY <1>1 DEF IInv, TypeOK
<1>3. Input' /\ Within' /\ SubField'
  BY <1>1 DEF IInv, Input, Within, SubField
<1> QED BY <1>1, <1>2, <1>3 DEF IInv

\* The same for a step that leaves every activation where it is.
LEMMA StayInv ==
  ASSUME IInv, UNCHANGED <<bytes, stack>>,
         pc' \in Goal \cup {"loop", "varint", "skip_varint", "done", "abort"},
         goal' \in Goal, acc' \in Uint64, groups' \in Nat, weight' \in Nat \ {0},
         over' \in BOOLEAN,
         pc' \notin {"loop", "done"} => Cur.pos <= Cur.hi,
         pc' \in Goal => pc' = goal',
         pc' \in {"varint", "sub_len"} => goal' # "sub_len"
  PROVE  IInv'
<1>1. TypeOK' /\ SlicesNest'
  BY DEF IInv, TypeOK, SlicesNest
<1>2. Input' /\ Within' /\ SubField'
  BY DEF IInv, Input, Within, SubField, Cur
<1> QED BY <1>1, <1>2 DEF IInv

\* EXCEPT on one field of the last frame, as the actions write it.
LEMMA AdvanceIsMove ==
  ASSUME TypeOK, NEW k \in Nat
  PROVE  [stack EXCEPT ![Len(stack)].pos = @ + k] =
         [stack EXCEPT ![Len(stack)].pos = Cur.pos + k, ![Len(stack)].field = Cur.field]
<1> DEFINE n == Len(stack)
<1>1. n \in DOMAIN stack /\ Cur = stack[n] /\ Cur \in Frame
  BY CurIsFrame
<1>2. [Cur EXCEPT !.pos = @ + k] = [Cur EXCEPT !.pos = Cur.pos + k, !.field = Cur.field]
  BY <1>1 DEF Frame
<1>3. [stack EXCEPT ![n].pos = @ + k] = [stack EXCEPT ![n] = [Cur EXCEPT !.pos = @ + k]]
  BY <1>1
<1>4. [stack EXCEPT ![n].pos = Cur.pos + k, ![n].field = Cur.field]
        = [stack EXCEPT ![n] = [Cur EXCEPT !.pos = Cur.pos + k, !.field = Cur.field]]
  BY <1>1
<1> QED BY <1>2, <1>3, <1>4

\* Noting the field number of a tag.
LEMMA NoteIsMove ==
  ASSUME TypeOK, NEW k \in Nat, NEW f \in Int
  PROVE  /\ [stack EXCEPT ![Len(stack)].field = f] =
            [stack EXCEPT ![Len(stack)].pos = Cur.pos, ![Len(stack)].field = f]
         /\ [stack EXCEPT ![Len(stack)].field = f, ![Len(stack)].pos = @ + k] =
            [stack EXCEPT ![Len(stack)].pos = Cur.pos + k, ![Len(stack)].field = f]
<1> DEFINE n == Len(stack)
<1>1. n \in DOMAIN stack /\ Cur = stack[n] /\ Cur \in Frame
  BY CurIsFrame
<1>2. /\ [Cur EXCEPT !.field = f] = [Cur EXCEPT !.pos = Cur.pos, !.field = f]
      /\ [Cur EXCEPT !.field = f, !.pos = @ + k] = [Cur EXCEPT !.pos = Cur.pos + k, !.field = f]
  BY <1>1 DEF Frame
<1>3. /\ [stack EXCEPT ![n].field = f] = [stack EXCEPT ![n] = [Cur EXCEPT !.field = f]]
      /\ [stack EXCEPT ![n].field = f, ![n].pos = @ + k]
           = [stack EXCEPT ![n] = [Cur EXCEPT !.field = f, !.pos = @ + k]]
  BY <1>1
<1>4. \A p \in Nat : [stack EXCEPT ![n].pos = p, ![n].field = f]
        = [stack EXCEPT ![n] = [Cur EXCEPT !.pos = p, !.field = f]]
  BY <1>1
<1>5. Cur.pos \in Nat /\ Cur.pos + k \in Nat
  BY CurIsFrame
<1> QED BY <1>2, <1>3, <1>4, <1>5

\* What the invariant says of the current activation.
LEMMA CurFacts ==
  ASSUME IInv
  PROVE  /\ TypeOK /\ Cur \in Frame /\ Cur.pos \in Nat /\ Cur.hi \in Nat /\ Cur.field \in Int
         /\ pc \notin {"loop", "done"} => Cur.pos <= Cur.hi
         /\ goal \in Goal /\ acc \in Uint64 /\ groups \in Nat /\ weight \in Nat \ {0}
         /\ acc \in Nat /\ over \in BOOLEAN
<1>1. acc \in Uint64 => acc \in Nat
  BY WidthsAssumption, ModulusAssumption DEF Uint64
<1> QED BY <1>1, CurIsFrame DEF IInv, TypeOK, Within

\* A varint byte is one step on; its value stays a natural number.
LEMMA ReadByteInv == IInv /\ ReadByte => IInv'
<1> SUFFICES ASSUME IInv, ReadByte PROVE IInv'
  OBVIOUS
<1>1. /\ TypeOK /\ pc = "varint" /\ Cur.pos \in Nat /\ Cur.hi \in Nat /\ Cur.pos < Cur.hi
      /\ Cur.field \in Int /\ goal \in Goal /\ acc \in Nat /\ groups \in Nat
      /\ weight \in Nat \ {0} /\ over \in BOOLEAN
  BY CurFacts DEF ReadByte, Overflows, InString
<1>2. NextByte \in Nat
  <2>1. Cur.hi <= Len(bytes)
    <3>1. Len(stack) \in DOMAIN stack /\ Cur = stack[Len(stack)]
      BY <1>1, CurIsFrame
    <3> QED BY <3>1 DEF IInv, SlicesNest
  <2>2. bytes \in Seq(Byte) /\ Len(bytes) \in Nat /\ DOMAIN bytes = 1..Len(bytes)
    BY DEF IInv, Input
  <2>3. Cur.pos + 1 \in DOMAIN bytes
    BY <1>1, <2>1, <2>2
  <2>4. bytes[Cur.pos + 1] \in Byte
    BY <2>2, <2>3, ElementOfSeq
  <2> QED BY <2>4 DEF NextByte, Byte
<1>3. acc' \in Uint64
  <2> DEFINE d == NextByte % 128
  <2>1. d \in Nat
    BY <1>2
  <2> HIDE DEF d
  <2>2. acc + d * weight \in Nat
    BY <1>1, <2>1
  <2>3. acc' = (acc + d * weight) % Modulus
    BY DEF ReadByte, Overflows, Gathered, d
  <2>4. \A a \in Nat : a % Modulus \in Uint64
    BY ModNat, WidthsAssumption, ModulusAssumption DEF Uint64
  <2> QED BY <2>2, <2>3, <2>4
<1>4. weight' \in Nat \ {0} /\ groups' \in Nat /\ goal' = goal /\ over' = over /\ bytes' = bytes
  BY <1>1 DEF ReadByte, Overflows
<1>5. stack' = [stack EXCEPT ![Len(stack)].pos = Cur.pos + 1, ![Len(stack)].field = Cur.field]
  BY <1>1, AdvanceIsMove DEF ReadByte, Overflows, Advance
<1>6. pc' \in {goal, "abort", "varint"}
  BY DEF ReadByte, Overflows
<1>7. Cur.pos + 1 \in Nat /\ Cur.pos + 1 <= Cur.hi /\ Cur.pos <= Cur.pos + 1
  BY <1>1
<1>8. goal = "sub_len" =>
        Cur.field \in DOMAIN Types[Cur.msg] /\ Types[Cur.msg][Cur.field] \in Message
  BY <1>1 DEF IInv, SubField
<1>9. /\ pc' \in Goal \cup {"loop", "varint", "skip_varint", "done", "abort"}
      /\ pc' \in Goal => pc' = goal'
  BY <1>1, <1>4, <1>6 DEF Goal
<1> HIDE DEF IInv
<1> QED BY <1>1, <1>3, <1>4, <1>5, <1>7, <1>8, <1>9, MoveInv

\* The tags that lead to a varint of a known field.
LEMMA BeginInv ==
  ASSUME IInv, pc = "tag", Known,
         NEW g \in {"value", "len", "sub_len"}, BeginValue(g),
         g = "sub_len" => Type \in Message
  PROVE  IInv'
<1>1. /\ TypeOK /\ Cur \in Frame /\ Cur.pos \in Nat /\ Cur.pos <= Cur.hi
      /\ acc \in Nat /\ over \in BOOLEAN
  BY CurFacts
<1>2. Number \in Int
  BY <1>1, FieldNumberIsInt DEF Number
<1>3. stack' = [stack EXCEPT ![Len(stack)].pos = Cur.pos, ![Len(stack)].field = Number]
  <2>1. stack' = [stack EXCEPT ![Len(stack)].field = Number]
    BY DEF BeginValue
  <2>2. 0 \in Nat
    OBVIOUS
  <2> QED BY <1>1, <1>2, <2>1, <2>2, NoteIsMove
<1>4. Number \in DOMAIN Types[Cur.msg] /\ Types[Cur.msg][Number] \in Message \cup Primitive
  <2>1. Cur.msg \in Message
    BY <1>1, CurIsFrame
  <2>2. Types[Cur.msg] \in Seq(Message \cup Primitive)
    BY <2>1, SchemaAssumption
  <2>3. Number \in DOMAIN Types[Cur.msg]
    BY DEF Known
  <2> QED BY <2>2, <2>3
<1>5. g = "sub_len" => Types[Cur.msg][Number] \in Message
  BY <1>4 DEF Type
<1>6. /\ pc' = "varint" /\ goal' = g /\ acc' = 0 /\ groups' = 0 /\ weight' = 1
      /\ over' = over /\ bytes' = bytes
  BY DEF BeginValue
<1>7. g \in Goal
  BY DEF Goal
<1>8. /\ pc' \in Goal \cup {"loop", "varint", "skip_varint", "done", "abort"}
      /\ pc' \notin Goal
      /\ acc' \in Uint64 /\ groups' \in Nat /\ weight' \in Nat \ {0} /\ over' \in BOOLEAN
  BY <1>1, <1>6, WidthsAssumption, ModulusAssumption DEF Goal, Uint64
<1>9. Cur.pos <= Cur.pos
  BY <1>1
<1> QED BY <1>1, <1>2, <1>3, <1>4, <1>5, <1>6, <1>7, <1>8, <1>9, MoveInv

\* The caller steps over the sub-message, and a nested activation starts on it.
LEMMA DecodeShape ==
  ASSUME IInv, DecodeSub
  PROVE  \E q \in Nat :
           /\ Len(stack) \in Nat \ {0} /\ DOMAIN stack = 1..Len(stack)
           /\ Cur.pos \in Nat /\ Cur.hi \in Nat /\ Cur.pos <= q /\ q <= Cur.hi
           /\ q = Cur.pos + acc
           /\ stack' \in Seq(Frame) /\ Len(stack') = Len(stack) + 1
           /\ DOMAIN stack' = 1..(Len(stack) + 1)
           /\ \A i \in 1..Len(stack) : i < Len(stack) => stack'[i] = stack[i]
           /\ stack'[Len(stack)].lo = Cur.lo /\ stack'[Len(stack)].hi = Cur.hi
           /\ stack'[Len(stack)].pos = q
           /\ stack'[Len(stack) + 1].lo = Cur.pos /\ stack'[Len(stack) + 1].hi = q
           /\ stack'[Len(stack) + 1].pos = Cur.pos
           /\ stack'[Len(stack)].msg = Cur.msg /\ stack'[Len(stack)].field = Cur.field
           /\ stack'[Len(stack) + 1].msg = Types[Cur.msg][Cur.field]
<1> DEFINE n == Len(stack)
           q == Cur.pos + acc
           mid == [stack EXCEPT ![n].pos = @ + acc]
           m == Types[Cur.msg][Cur.field]
           f == [lo |-> Cur.pos, hi |-> q, pos |-> Cur.pos, msg |-> m, field |-> 0]
<1>1. /\ TypeOK /\ Cur \in Frame /\ Cur.pos \in Nat /\ Cur.hi \in Nat /\ Cur.lo \in Nat
      /\ Cur.pos <= Cur.hi /\ acc \in Nat /\ pc = "sub_len"
      /\ n \in Nat \ {0} /\ DOMAIN stack = 1..n /\ Cur = stack[n] /\ stack \in Seq(Frame)
  BY CurFacts, CurIsFrame DEF DecodeSub
<1>2. acc <= Cur.hi - Cur.pos
  BY <1>1, RoomExact DEF DecodeSub, IInv
<1>3. q \in Nat /\ q <= Cur.hi
  BY <1>1, <1>2
<1>4. m \in Message
  <2>1. pc \in Goal /\ pc = goal
    BY <1>1 DEF IInv, SubField, Goal
  <2> QED BY <1>1, <2>1 DEF IInv, SubField
<1>5. f \in Frame
  BY <1>1, <1>3, <1>4 DEF Frame
<1>6. /\ mid \in Seq(Frame) /\ Len(mid) = n
      /\ \A i \in 1..n : i < n => mid[i] = stack[i]
      /\ mid[n].lo = Cur.lo /\ mid[n].hi = Cur.hi /\ mid[n].pos = q
      /\ mid[n].msg = Cur.msg /\ mid[n].field = Cur.field
  <2> DEFINE g == [Cur EXCEPT !.pos = @ + acc]
  <2>1. /\ g \in Frame /\ g.lo = Cur.lo /\ g.hi = Cur.hi /\ g.pos = q
        /\ g.msg = Cur.msg /\ g.field = Cur.field
    BY <1>1, <1>3 DEF Frame
  <2>2. mid = [stack EXCEPT ![n] = g]
    BY <1>1
  <2> HIDE DEF g, mid, q
  <2> QED BY <1>1, <2>1, <2>2
<1>7. stack' = Append(mid, f)
  BY DEF DecodeSub, SliceEnd
<1> HIDE DEF mid, f, q, m
<1>8. /\ stack' \in Seq(Frame) /\ Len(stack') = n + 1 /\ DOMAIN stack' = 1..(n + 1)
      /\ stack'[n + 1] = f
      /\ \A i \in 1..n : stack'[i] = mid[i]
  BY <1>1, <1>5, <1>6, <1>7
<1>9. f.lo = Cur.pos /\ f.hi = q /\ f.pos = Cur.pos /\ f.msg = Types[Cur.msg][Cur.field]
  BY DEF f, m
<1>10. /\ \A i \in 1..n : i < n => stack'[i] = stack[i]
       /\ stack'[n] = mid[n]
  BY <1>1, <1>6, <1>8
<1>11. Cur.pos <= q /\ q = Cur.pos + acc
  BY <1>1 DEF q
<1>12. n = Len(stack)
  OBVIOUS
<1> HIDE DEF n
<1> QED BY <1>1, <1>3, <1>6, <1>8, <1>9, <1>10, <1>11, <1>12

\* A nested activation starts inside the slice its length was checked against.
LEMMA DecodeSubInv == IInv /\ DecodeSub => IInv'
<1> SUFFICES ASSUME IInv, DecodeSub PROVE IInv'
  OBVIOUS
<1> DEFINE n == Len(stack)
<1>1. PICK q \in Nat :
        /\ n \in Nat \ {0} /\ DOMAIN stack = 1..n
        /\ Cur.pos \in Nat /\ Cur.hi \in Nat /\ Cur.pos <= q /\ q <= Cur.hi
        /\ stack' \in Seq(Frame) /\ Len(stack') = n + 1 /\ DOMAIN stack' = 1..(n + 1)
        /\ \A i \in 1..n : i < n => stack'[i] = stack[i]
        /\ stack'[n].lo = Cur.lo /\ stack'[n].hi = Cur.hi /\ stack'[n].pos = q
        /\ stack'[n + 1].lo = Cur.pos /\ stack'[n + 1].hi = q /\ stack'[n + 1].pos = Cur.pos
  BY DecodeShape
<1>2. Cur = stack[n] /\ Cur.lo \in Nat
  BY CurIsFrame DEF IInv
<1> HIDE DEF n
<1>3. /\ Cur.lo <= Cur.hi /\ Cur.hi <= Len(bytes) /\ Len(bytes) \in Nat
      /\ Cur.lo <= Cur.pos
  <2>1. n \in DOMAIN stack
    BY <1>1
  <2> QED BY <1>2, <2>1 DEF IInv, SlicesNest, Input
<1>4. ASSUME NEW i \in 1..(n + 1)
      PROVE  i < n \/ i = n \/ i = n + 1
  BY <1>1
<1>5. ASSUME NEW i \in 1..(n + 1), i < n
      PROVE  /\ i \in DOMAIN stack /\ i \in 1..n /\ i + 1 \in 1..n /\ i < Len(stack)
             /\ stack'[i] = stack[i]
  <2>1. i \in 1..n /\ i + 1 \in 1..n
    BY <1>1, <1>5
  <2> QED BY <1>1, <1>5, <2>1 DEF n
<1>6. ASSUME NEW i \in 1..(n + 1)
      PROVE  /\ stack'[i].lo <= stack'[i].pos
             /\ stack'[i].lo <= stack'[i].hi /\ stack'[i].hi <= Len(bytes)
  <2>1. CASE i < n
    BY <1>5, <2>1 DEF IInv, SlicesNest
  <2>2. CASE i = n
    BY <1>1, <1>2, <1>3, <2>2
  <2>3. CASE i = n + 1
    BY <1>1, <1>3, <2>3
  <2> QED BY <1>4, <2>1, <2>2, <2>3
<1>7. ASSUME NEW i \in 1..(n + 1), i < n + 1
      PROVE  /\ stack'[i].lo <= stack'[i + 1].lo
             /\ stack'[i + 1].hi <= stack'[i].pos
             /\ stack'[i].pos <= stack'[i].hi
  <2>1. CASE i < n
    <3>1. /\ i \in DOMAIN stack /\ i + 1 \in 1..n /\ i < Len(stack)
          /\ stack'[i] = stack[i]
      BY <1>5, <2>1
    <3>2. stack'[i + 1].lo = stack[i + 1].lo /\ stack'[i + 1].hi = stack[i + 1].hi
      <4>1. i + 1 < n \/ i + 1 = n
        BY <1>1, <3>1
      <4> QED BY <1>1, <1>2, <3>1, <4>1
    <3> QED BY <3>1, <3>2 DEF IInv, SlicesNest
  <2>2. CASE i = n
    <3>1. q <= q
      BY <1>1
    <3> QED BY <1>1, <1>3, <2>2, <3>1
  <2> QED BY <1>4, <1>7, <2>1, <2>2
<1>8. SlicesNest'
  <2>1. bytes' = bytes
    BY DEF DecodeSub
  <2> QED BY <1>1, <1>6, <1>7, <2>1 DEF SlicesNest
<1>9. TypeOK'
  <2>1. UNCHANGED <<bytes, varint, over>> /\ pc' = "loop"
    BY DEF DecodeSub
  <2>2. stack' # <<>>
    BY <1>1
  <2> QED BY <1>1, <2>1, <2>2 DEF TypeOK, varint, IInv
<1>10. Input' /\ Within' /\ SubField'
  BY DEF IInv, Input, Within, SubField, DecodeSub, Goal
<1> QED BY <1>8, <1>9, <1>10 DEF IInv

\* A nested activation ends; its caller stands beyond the slice already.
LEMMA SubDoneInv == IInv /\ SubDone => IInv'
<1> SUFFICES ASSUME IInv, SubDone PROVE IInv'
  OBVIOUS
<1> DEFINE n == Len(stack) - 1
<1>1. stack \in Seq(Frame) /\ Len(stack) \in Nat /\ n \in Nat \ {0} /\ DOMAIN stack = 1..(n + 1)
  BY CurIsFrame DEF SubDone, IInv
<1>2. stack' = SubSeq(stack, 1, n)
  BY DEF SubDone
<1>3. stack' = Restrict(stack, 1..n)
  BY <1>1, <1>2, SubSeqRestrict
<1>4. stack' = [i \in 1..n |-> stack[i]]
  BY <1>3 DEF Restrict
<1> HIDE DEF n
<1>5. /\ stack' \in Seq(Frame) /\ Len(stack') = n /\ DOMAIN stack' = 1..n /\ stack' # <<>>
      /\ \A i \in 1..n : stack'[i] = stack[i]
  BY <1>1, <1>4
<1>6. SlicesNest'
  <2>1. bytes' = bytes
    BY DEF SubDone
  <2>2. ASSUME NEW i \in 1..n, i < n PROVE i + 1 \in 1..n /\ i < Len(stack) /\ i \in DOMAIN stack
    BY <1>1, <2>2 DEF n
  <2>3. \A i \in 1..n : i \in DOMAIN stack
    BY <1>1
  <2> QED BY <1>5, <2>1, <2>2, <2>3 DEF SlicesNest, IInv
<1>7. TypeOK'
  BY <1>5 DEF SubDone, TypeOK, varint, IInv
<1>8. Input' /\ Within' /\ SubField'
  BY DEF IInv, Input, Within, SubField, SubDone, Goal, varint
<1> QED BY <1>6, <1>7, <1>8 DEF IInv
\* The steps that move the current activation by a known number of bytes.
LEMMA AdvanceInv ==
  ASSUME IInv, NEW k \in Nat, Advance(k), bytes' = bytes, UNCHANGED varint,
         pc' \in {"loop", "skip_varint"}, pc' = "skip_varint" => Cur.pos + k <= Cur.hi,
         over' = over
  PROVE  IInv'
<1>1. /\ TypeOK /\ Cur.pos \in Nat /\ Cur.field \in Int /\ goal \in Goal /\ acc \in Uint64
      /\ groups \in Nat /\ weight \in Nat \ {0} /\ over \in BOOLEAN
  BY CurFacts
<1>2. stack' = [stack EXCEPT ![Len(stack)].pos = Cur.pos + k, ![Len(stack)].field = Cur.field]
  BY <1>1, AdvanceIsMove DEF Advance
<1>3. Cur.pos + k \in Nat /\ Cur.pos <= Cur.pos + k
  BY <1>1
<1>4. goal' = goal /\ acc' = acc /\ groups' = groups /\ weight' = weight
  BY DEF varint
<1>5. /\ pc' \in Goal \cup {"loop", "varint", "skip_varint", "done", "abort"}
      /\ pc' \notin Goal /\ pc' # "varint" /\ pc' # "sub_len"
      /\ pc' \notin {"loop", "done"} => Cur.pos + k <= Cur.hi
  BY DEF Goal
<1> QED BY <1>1, <1>2, <1>3, <1>4, <1>5, MoveInv

LEMMA SkipByteInv == IInv /\ SkipByte => IInv'
<1> SUFFICES ASSUME IInv, SkipByte PROVE IInv'
  OBVIOUS
<1>1. Cur.pos \in Nat /\ Cur.hi \in Nat /\ Cur.pos < Cur.hi
  BY CurFacts DEF SkipByte, InString
<1>2. 1 \in Nat /\ Cur.pos + 1 <= Cur.hi
  BY <1>1
<1>3. Advance(1) /\ bytes' = bytes /\ UNCHANGED varint /\ over' = over
      /\ pc' \in {"loop", "skip_varint"}
  BY DEF SkipByte
<1> QED BY <1>2, <1>3, AdvanceInv

LEMMA SkipFixedInv == IInv /\ SkipFixed => IInv'
<1> SUFFICES ASSUME IInv, SkipFixed PROVE IInv'
  OBVIOUS
<1>1. Width \in Nat
  BY DEF Width
<1>2. Advance(Width) /\ bytes' = bytes /\ UNCHANGED varint /\ over' = over /\ pc' = "loop"
  BY DEF SkipFixed
<1> QED BY <1>1, <1>2, AdvanceInv

\* A text, taken or skipped: its length was checked, and the activation goes on
\* behind it.
LEMMA TextInv == IInv /\ (TakeText \/ SkipText) => IInv'
<1> SUFFICES ASSUME IInv, TakeText \/ SkipText PROVE IInv'
  OBVIOUS
<1>1. acc \in Nat
  BY CurFacts
<1>2. Advance(acc) /\ bytes' = bytes /\ UNCHANGED varint /\ over' = over /\ pc' = "loop"
  BY DEF TakeText, SkipText
<1> QED BY <1>1, <1>2, AdvanceInv

\* A fixed-width value may take the activation beyond its string: the next
\* thing it does is to leave the loop.
LEMMA FixedInv == IInv /\ Fixed => IInv'
<1> SUFFICES ASSUME IInv, Fixed PROVE IInv'
  OBVIOUS
<1>1. /\ TypeOK /\ Cur.pos \in Nat /\ Cur.hi \in Nat /\ goal \in Goal /\ acc \in Uint64
      /\ acc \in Nat /\ groups \in Nat /\ weight \in Nat \ {0} /\ over \in BOOLEAN
  BY CurFacts
<1>2. Width \in Nat
  BY DEF Width
<1>3. Number \in Int
  BY <1>1, FieldNumberIsInt DEF Number
<1>4. stack' = [stack EXCEPT ![Len(stack)].pos = Cur.pos + Width, ![Len(stack)].field = Number]
  BY <1>1, <1>2, <1>3, NoteIsMove DEF Fixed
<1>5. Cur.pos + Width \in Nat /\ Cur.pos <= Cur.pos + Width
  BY <1>1, <1>2
<1>6. over' \in BOOLEAN /\ pc' = "loop" /\ bytes' = bytes
  BY <1>1 DEF Fixed
<1>7. goal' = goal /\ acc' = acc /\ groups' = groups /\ weight' = weight
  BY DEF Fixed, varint
<1>8. /\ pc' \in Goal \cup {"loop", "varint", "skip_varint", "done", "abort"}
      /\ pc' \notin Goal /\ pc' # "varint" /\ pc' # "sub_len" /\ pc' \in {"loop", "done"}
  BY <1>6 DEF Goal
<1> QED BY <1>1, <1>3, <1>4, <1>5, <1>6, <1>7, <1>8, MoveInv

\* The steps that leave every activation where it is.
LEMMA StillInv ==
  IInv /\ (\/ NextField \/ Done \/ TruncatedVarint \/ SkipVarint \/ SkipLen
           \/ UnknownWireType \/ SkipEnds \/ TakeScalar \/ LengthExceeds) => IInv'
<1> SUFFICES ASSUME IInv,
                    \/ NextField \/ Done \/ TruncatedVarint \/ SkipVarint \/ SkipLen
                    \/ UnknownWireType \/ SkipEnds \/ TakeScalar \/ LengthExceeds
             PROVE  IInv'
  OBVIOUS
<1>1. /\ Cur.pos \in Nat /\ Cur.hi \in Nat
      /\ goal \in Goal /\ acc \in Uint64 /\ groups \in Nat /\ weight \in Nat \ {0}
      /\ over \in BOOLEAN /\ (pc \notin {"loop", "done"} => Cur.pos <= Cur.hi)
  BY CurFacts
<1>2. CASE NextField \/ SkipLen
  <2>1. /\ UNCHANGED <<bytes, stack, over>> /\ pc' = "varint" /\ goal' \in {"tag", "skip_len"}
        /\ acc' = 0 /\ groups' = 0 /\ weight' = 1
    BY <1>2 DEF NextField, SkipLen, StartVarint
  <2>2. Cur.pos <= Cur.hi
    BY <1>1, <1>2 DEF NextField, SkipLen, InString
  <2>3. /\ pc' \in Goal \cup {"loop", "varint", "skip_varint", "done", "abort"}
        /\ goal' \in Goal /\ pc' \notin Goal /\ goal' # "sub_len"
        /\ acc' \in Uint64 /\ groups' \in Nat /\ weight' \in Nat \ {0} /\ over' \in BOOLEAN
    BY <1>1, <2>1, WidthsAssumption, ModulusAssumption DEF Goal, Uint64
  <2> QED BY <2>1, <2>2, <2>3, StayInv
<1>3. CASE Done \/ SkipVarint \/ SkipEnds \/ TakeScalar
  <2>1. UNCHANGED <<bytes, stack, varint, over>> /\ pc' \in {"done", "skip_varint", "loop"}
    BY <1>3 DEF Done, SkipVarint, SkipEnds, TakeScalar
  <2>2. pc' \notin {"loop", "done"} => Cur.pos <= Cur.hi
    BY <1>1, <1>3 DEF Done, SkipVarint, SkipEnds, TakeScalar
  <2>3. /\ pc' \in Goal \cup {"loop", "varint", "skip_varint", "done", "abort"}
        /\ pc' \notin Goal /\ pc' \notin {"varint", "sub_len"}
    BY <2>1 DEF Goal
  <2>4. /\ goal' \in Goal /\ acc' \in Uint64 /\ groups' \in Nat /\ weight' \in Nat \ {0}
        /\ over' \in BOOLEAN
    BY <1>1, <2>1 DEF varint
  <2> QED BY <2>1, <2>2, <2>3, <2>4, StayInv
<1>4. CASE TruncatedVarint \/ UnknownWireType \/ LengthExceeds
  <2>1. UNCHANGED <<bytes, stack, varint, over>> /\ pc' = "abort"
    BY <1>4 DEF TruncatedVarint, UnknownWireType, LengthExceeds, Fail
  <2>2. Cur.pos <= Cur.hi
    BY <1>1, <1>4 DEF TruncatedVarint, UnknownWireType, LengthExceeds
  <2>3. /\ pc' \in Goal \cup {"loop", "varint", "skip_varint", "done", "abort"}
        /\ pc' \notin Goal /\ pc' \notin {"varint", "sub_len"}
    BY <2>1 DEF Goal
  <2>4. /\ goal' \in Goal /\ acc' \in Uint64 /\ groups' \in Nat /\ weight' \in Nat \ {0}
        /\ over' \in BOOLEAN
    BY <1>1, <2>1 DEF varint
  <2> QED BY <2>1, <2>2, <2>3, <2>4, StayInv
<1> QED BY <1>2, <1>3, <1>4

LEMMA TagInv == IInv /\ (Scalar \/ Text \/ SubMessage) => IInv'
<1> SUFFICES ASSUME IInv, Scalar \/ Text \/ SubMessage PROVE IInv'
  OBVIOUS
<1>1. pc = "tag" /\ Known
  BY DEF Scalar, Text, SubMessage, Decodes
<1>2. CASE Scalar
  BY <1>1, <1>2, BeginInv DEF Scalar
<1>3. CASE Text
  BY <1>1, <1>3, BeginInv DEF Text
<1>4. CASE SubMessage
  BY <1>1, <1>4, BeginInv DEF SubMessage
<1> QED BY <1>2, <1>3, <1>4

LEMMA StutterInv == IInv /\ UNCHANGED vars => IInv'
BY DEF IInv, TypeOK, Input, SlicesNest, Within, SubField, Cur, vars, varint

LEMMA StepInv == IInv /\ [Next]_vars => IInv'
BY StillInv, TagInv, ReadByteInv, SubDoneInv, FixedInv, SkipFixedInv, SkipByteInv, TextInv,
   DecodeSubInv, StutterInv DEF Next

LEMMA InvHolds == Spec => []IInv
BY InitInv, StepInv, PTL DEF Spec

----------------------------------------------------------------------------
(* Progress. *)

\* The strings of nested activations do not share a byte that is still to be
\* decoded.
Apart == \A i, j \in DOMAIN stack : i < j => stack[j].hi <= stack[i].pos

\* The current activation moves to q, or stays; the others stay.
MovesTo(q) ==
  /\ q \in Nat /\ Cur.pos <= q
  /\ Len(stack') = Len(stack) /\ DOMAIN stack' = 1..Len(stack)
  /\ \A i \in 1..Len(stack) : i < Len(stack) => stack'[i] = stack[i]
  /\ Cur' = stack'[Len(stack)] /\ Cur'.hi = Cur.hi /\ Cur'.pos = q
  /\ Cur'.msg = Cur.msg /\ Cur'.lo = Cur.lo

LEMMA StayMoves ==
  ASSUME IInv, stack' = stack
  PROVE  MovesTo(Cur.pos)
<1>1. Cur' = Cur
  BY DEF Cur
<1> QED BY <1>1, CurIsFrame DEF IInv, MovesTo

LEMMA ExceptMoves ==
  ASSUME IInv, NEW q \in Nat, NEW f \in Int, Cur.pos <= q,
         stack' = [stack EXCEPT ![Len(stack)].pos = q, ![Len(stack)].field = f]
  PROVE  MovesTo(q) /\ Cur'.field = f
<1> DEFINE g == [Cur EXCEPT !.pos = q, !.field = f]
<1>1. /\ Len(stack) \in Nat \ {0} /\ DOMAIN stack = 1..Len(stack) /\ stack \in Seq(Frame)
      /\ Cur = stack[Len(stack)] /\ stack # <<>>
  BY CurIsFrame DEF IInv, TypeOK
<1>2. /\ g \in Frame /\ g.hi = Cur.hi /\ g.pos = q /\ g.msg = Cur.msg /\ g.field = f
      /\ g.lo = Cur.lo
  BY CurIsFrame DEF Frame, IInv
<1>3. stack' = [stack EXCEPT ![Len(stack)] = g]
  BY <1>1
<1> HIDE DEF g
<1>4. /\ stack' \in Seq(Frame) /\ Len(stack') = Len(stack) /\ DOMAIN stack' = 1..Len(stack)
      /\ stack'[Len(stack)] = g
      /\ \A i \in 1..Len(stack) : i < Len(stack) => stack'[i] = stack[i]
  <2>1. g \in Frame /\ stack # <<>> /\ stack \in Seq(Frame)
    BY <1>1, <1>2
  <2> QED BY ONLY <2>1, <1>3, ReplaceLast
<1>5. Cur' = stack'[Len(stack)]
  BY <1>4 DEF Cur
<1> QED BY <1>2, <1>4, <1>5 DEF MovesTo

LEMMA AdvanceMoves ==
  ASSUME IInv, NEW k \in Nat, Advance(k)
  PROVE  MovesTo(Cur.pos + k) /\ Cur'.field = Cur.field
<1>1. stack' = [stack EXCEPT ![Len(stack)].pos = Cur.pos + k, ![Len(stack)].field = Cur.field]
  BY CurFacts, AdvanceIsMove DEF Advance
<1>2. Cur.pos + k \in Nat /\ Cur.pos <= Cur.pos + k /\ Cur.field \in Int
  BY CurFacts
<1> QED BY <1>1, <1>2, ExceptMoves

\* Every step but those into and out of a sub-message is such a move, and one
\* that reads a byte moves by that byte.
LEMMA OthersMove ==
  ASSUME IInv, Next, ~DecodeSub, ~SubDone
  PROVE  \E q : MovesTo(q) /\ (ReadByte \/ SkipByte => q = Cur.pos + 1)
<1>1. CASE ReadByte \/ SkipByte
  <2>1. Advance(1) /\ 1 \in Nat
    BY <1>1 DEF ReadByte, Overflows, SkipByte
  <2> QED BY <2>1, AdvanceMoves
<1>2. CASE ~(ReadByte \/ SkipByte)
  <2>1. CASE \/ NextField \/ Done \/ TruncatedVarint \/ SkipVarint \/ SkipLen
             \/ UnknownWireType \/ SkipEnds \/ TakeScalar \/ LengthExceeds
    <3>1. stack' = stack
      BY <2>1 DEF NextField, Done, TruncatedVarint, SkipVarint, SkipLen, UnknownWireType,
                  SkipEnds, TakeScalar, LengthExceeds, Fail
    <3> QED BY <1>2, <3>1, StayMoves
  <2>2. CASE Scalar \/ Text \/ SubMessage \/ Fixed
    <3>1. Number \in Int
      BY CurFacts, FieldNumberIsInt DEF Number
    <3>2. Width \in Nat /\ 0 \in Nat /\ Cur.pos \in Nat /\ TypeOK
      BY CurFacts DEF Width
    <3>3. CASE Scalar \/ Text \/ SubMessage
      <4>1. stack' = [stack EXCEPT ![Len(stack)].field = Number]
        BY <3>3 DEF Scalar, Text, SubMessage, BeginValue
      <4>2. stack' = [stack EXCEPT ![Len(stack)].pos = Cur.pos, ![Len(stack)].field = Number]
        BY <3>1, <3>2, <4>1, NoteIsMove
      <4>3. Cur.pos <= Cur.pos
        BY <3>2
      <4> QED BY <1>2, <3>1, <3>2, <4>2, <4>3, ExceptMoves
    <3>4. CASE Fixed
      <4>1. stack' = [stack EXCEPT ![Len(stack)].pos = Cur.pos + Width, ![Len(stack)].field = Number]
        BY <3>1, <3>2, <3>4, NoteIsMove DEF Fixed
      <4>2. Cur.pos + Width \in Nat /\ Cur.pos <= Cur.pos + Width
        BY <3>2
      <4> QED BY <1>2, <3>1, <4>1, <4>2, ExceptMoves
    <3> QED BY <2>2, <3>3, <3>4
  <2>3. CASE SkipFixed
    <3>1. Width \in Nat /\ Advance(Width)
      BY <2>3 DEF Width, SkipFixed
    <3> QED BY <1>2, <3>1, AdvanceMoves
  <2>4. CASE TakeText \/ SkipText
    <3>1. acc \in Nat /\ Advance(acc)
      BY <2>4, CurFacts DEF TakeText, SkipText
    <3> QED BY <1>2, <3>1, AdvanceMoves
  <2> QED BY <1>2, <2>1, <2>2, <2>3, <2>4 DEF Next
<1> QED BY <1>1, <1>2

\* A nested activation returns when its string is decoded.
LEMMA SubDoneShape ==
  ASSUME IInv, SubDone
  PROVE  /\ Len(stack) \in Nat /\ Len(stack) - 1 \in Nat /\ Len(stack') = Len(stack) - 1
         /\ DOMAIN stack = 1..Len(stack) /\ DOMAIN stack' = 1..(Len(stack) - 1)
         /\ \A i \in 1..(Len(stack) - 1) : i \in 1..Len(stack) /\ stack'[i] = stack[i]
<1> DEFINE n == Len(stack) - 1
<1>1. stack \in Seq(Frame) /\ Len(stack) \in Nat /\ n \in Nat \ {0} /\ DOMAIN stack = 1..Len(stack)
  BY CurIsFrame DEF SubDone, IInv
<1>2. stack' = SubSeq(stack, 1, n)
  BY DEF SubDone
<1>3. stack' = Restrict(stack, 1..n)
  BY <1>1, <1>2, SubSeqRestrict
<1>4. stack' = [i \in 1..n |-> stack[i]]
  BY <1>3 DEF Restrict
<1> QED BY <1>1, <1>4

LEMMA ApartInit ==
  ASSUME Init
  PROVE  Apart
BY DEF Init, Apart

LEMMA ApartStep ==
  ASSUME IInv, Apart, [Next]_vars
  PROVE  Apart'
<1>1. /\ Len(stack) \in Nat \ {0} /\ DOMAIN stack = 1..Len(stack)
      /\ Cur = stack[Len(stack)] /\ Cur.pos \in Nat /\ Cur.hi \in Nat
      /\ \A i \in 1..Len(stack) : stack[i].pos \in Nat /\ stack[i].hi \in Nat
  <2>1. \A i \in 1..Len(stack) : stack[i] \in Frame
    BY CurIsFrame DEF IInv
  <2> QED BY <2>1, CurIsFrame DEF IInv, Frame
<1>2. ASSUME NEW q, MovesTo(q)
      PROVE  Apart'
  <2> SUFFICES ASSUME NEW i \in 1..Len(stack), NEW j \in 1..Len(stack), i < j
               PROVE  stack'[j].hi <= stack'[i].pos
    BY <1>2 DEF Apart, MovesTo
  <2>1. i < Len(stack) /\ stack'[i] = stack[i]
    BY <1>1, <1>2 DEF MovesTo
  <2>2. stack'[j].hi = stack[j].hi
    BY <1>1, <1>2 DEF MovesTo
  <2> QED BY <1>1, <2>1, <2>2 DEF Apart
<1>3. CASE DecodeSub
  <2>1. PICK q \in Nat :
          /\ Cur.pos <= q /\ q <= Cur.hi /\ q = Cur.pos + acc
          /\ DOMAIN stack' = 1..(Len(stack) + 1)
          /\ \A i \in 1..Len(stack) : i < Len(stack) => stack'[i] = stack[i]
          /\ stack'[Len(stack)].hi = Cur.hi /\ stack'[Len(stack)].pos = q
          /\ stack'[Len(stack) + 1].hi = q /\ stack'[Len(stack) + 1].pos = Cur.pos
    <3>1. IInv
      OBVIOUS
    <3> QED BY ONLY <1>3, <3>1, DecodeShape
  <2> SUFFICES ASSUME NEW i \in 1..(Len(stack) + 1), NEW j \in 1..(Len(stack) + 1), i < j
               PROVE  stack'[j].hi <= stack'[i].pos
    BY <2>1 DEF Apart
  <2>1a. PICK m \in Nat \ {0} : m = Len(stack)
    BY <1>1
  <2>1b. i \in 1..(m + 1) /\ j \in 1..(m + 1) /\ i < j
    BY <2>1a
  <2>1c. /\ i \in 1..m /\ (i < m \/ i = m)
         /\ j \in 1..m \/ j = m + 1
    BY ONLY <2>1b, m \in Nat \ {0}
  <2>2. i \in 1..Len(stack) /\ (i < Len(stack) \/ i = Len(stack))
    BY <2>1a, <2>1c
  <2>3. j \in 1..Len(stack) \/ j = Len(stack) + 1
    BY <2>1a, <2>1c
  <2>4. CASE i = Len(stack)
    <3>1. j = Len(stack) + 1 /\ q <= q
      BY <1>1, <2>4
    <3> QED BY <2>1, <2>4, <3>1
  <2>5. CASE i < Len(stack)
    <3>1. stack'[i] = stack[i] /\ Cur.hi <= stack[i].pos
      <4>1. Len(stack) \in DOMAIN stack /\ i \in DOMAIN stack
        <5>1. Len(stack) \in DOMAIN stack
          BY CurIsFrame DEF IInv
        <5>2. i \in DOMAIN stack
          BY <1>1, <2>2
        <5> QED BY <5>1, <5>2
      <4>2. stack'[i] = stack[i]
        BY <2>1, <2>2, <2>5
      <4>3. stack[Len(stack)].hi <= stack[i].pos
        BY <2>5, <4>1 DEF Apart
      <4> QED BY <1>1, <4>2, <4>3
    <3>2. CASE j = Len(stack) + 1
      <4>1. stack'[j].hi = q /\ q <= Cur.hi
        BY <2>1, <3>2
      <4>2. PICK p \in Nat : p = stack[i].pos
        BY <1>1, <2>2
      <4>3. PICK h \in Nat : h = Cur.hi
        BY <1>1
      <4>4. q <= h /\ h <= p
        BY <3>1, <4>1, <4>2, <4>3
      <4>5. q <= p
        BY <4>4
      <4> QED BY <3>1, <4>1, <4>2, <4>5
    <3>3. CASE j \in 1..Len(stack)
      <4>1. stack'[j].hi = stack[j].hi
        BY <1>1, <2>1, <3>3
      <4> QED BY <1>1, <2>2, <3>1, <3>3, <4>1 DEF Apart
    <3> QED BY <2>3, <3>2, <3>3
  <2> QED BY <2>2, <2>4, <2>5
<1>4. CASE SubDone
  <2>1. /\ DOMAIN stack = 1..Len(stack) /\ DOMAIN stack' = 1..(Len(stack) - 1)
        /\ \A i \in 1..(Len(stack) - 1) : i \in 1..Len(stack) /\ stack'[i] = stack[i]
    BY <1>4, SubDoneShape
  <2> QED BY <2>1 DEF Apart
<1>5. CASE UNCHANGED vars
  BY <1>5 DEF vars, Apart
<1> QED BY <1>2, <1>3, <1>4, <1>5, OthersMove

----------------------------------------------------------------------------
LEMMA OneMore == \A n \in Nat : n + 1 # n /\ n - 1 # n
OBVIOUS

LEMMA ToDoMember ==
  ASSUME IInv
  PROVE  /\ \A b : b \in ToDo <=> b \in Nat /\ \E i \in DOMAIN stack : stack[i].pos < b /\ b <= stack[i].hi
         /\ ToDo \in SUBSET (1..Len(bytes)) /\ IsFiniteSet(ToDo) /\ Cardinality(ToDo) \in Nat
<1>1. ASSUME NEW i \in DOMAIN stack
      PROVE  /\ stack[i].pos \in Nat /\ stack[i].hi \in Nat /\ stack[i].hi <= Len(bytes)
             /\ \A b : b \in (stack[i].pos + 1)..stack[i].hi <=>
                         b \in Nat /\ stack[i].pos < b /\ b <= stack[i].hi
  <2>1. stack[i] \in Frame
    BY CurIsFrame DEF IInv
  <2>2. stack[i].pos \in Nat /\ stack[i].hi \in Nat
    BY <2>1 DEF Frame
  <2>3. stack[i].hi <= Len(bytes)
    BY DEF IInv, SlicesNest
  <2> QED BY <2>2, <2>3
<1>2. ASSUME NEW b
      PROVE  b \in ToDo <=> b \in Nat /\ \E i \in DOMAIN stack : stack[i].pos < b /\ b <= stack[i].hi
  BY <1>1 DEF ToDo
<1>3. Len(bytes) \in Nat
  BY DEF IInv, Input
<1>4. ToDo \in SUBSET (1..Len(bytes))
  <2> SUFFICES ASSUME NEW b \in ToDo PROVE b \in 1..Len(bytes)
    OBVIOUS
  <2>1. PICK i \in DOMAIN stack : b \in Nat /\ stack[i].pos < b /\ b <= stack[i].hi
    BY <1>2
  <2> QED BY <1>1, <1>3, <2>1
<1>5. IsFiniteSet(ToDo)
  <2>1. IsFiniteSet(1..Len(bytes))
    BY <1>3, FS_Interval
  <2> QED BY <1>4, <2>1, FS_Subset
<1> QED BY <1>2, <1>4, <1>5, FS_CardinalityType

\* What is left to do after a step.
LEMMA ToDoShrinks ==
  ASSUME IInv, IInv', Apart, Next
  PROVE  /\ ToDo' \subseteq ToDo
         /\ Len(stack') = Len(stack) =>
              \A b \in ToDo' : ~(Cur.pos < b /\ b <= Cur'.pos /\ b <= Cur.hi)
<1>1. /\ Len(stack) \in Nat \ {0} /\ DOMAIN stack = 1..Len(stack)
      /\ Cur = stack[Len(stack)] /\ Cur.pos \in Nat /\ Cur.hi \in Nat
  BY CurIsFrame DEF IInv
<1>2. \A b : b \in ToDo <=> b \in Nat /\ \E i \in DOMAIN stack : stack[i].pos < b /\ b <= stack[i].hi
  BY ToDoMember
<1>3. ASSUME NEW b
      PROVE  b \in ToDo' <=> b \in Nat /\ \E i \in DOMAIN stack' : stack'[i].pos < b /\ b <= stack'[i].hi
  <2>1. \A i \in DOMAIN stack' : stack'[i].pos \in Nat /\ stack'[i].hi \in Nat
    <3>1. stack' \in Seq(Frame)
      BY DEF IInv, TypeOK
    <3>2. \A i \in DOMAIN stack' : stack'[i] \in Frame
      BY <3>1
    <3> QED BY <3>2 DEF Frame
  <2>2. \A i \in DOMAIN stack' : b \in (stack'[i].pos + 1)..stack'[i].hi <=>
                                   b \in Nat /\ stack'[i].pos < b /\ b <= stack'[i].hi
    BY <2>1
  <2> QED BY <2>2 DEF ToDo
<1>4. ASSUME NEW q, MovesTo(q), NEW b \in ToDo'
      PROVE  b \in ToDo /\ ~(Cur.pos < b /\ b <= Cur'.pos /\ b <= Cur.hi)
  <2>1. PICK i \in DOMAIN stack' : b \in Nat /\ stack'[i].pos < b /\ b <= stack'[i].hi
    BY <1>3, <1>4
  <2>2. i \in DOMAIN stack /\ Cur.pos <= q /\ Cur'.pos = q /\ Cur'.hi = Cur.hi /\ q \in Nat
    BY <1>1, <1>4, <2>1 DEF MovesTo
  <2>3. CASE i = Len(stack)
    <3>1. q < b /\ b <= Cur.hi
      BY <1>4, <2>1, <2>2, <2>3 DEF MovesTo
    <3>2. Cur.pos < b
      BY <1>1, <2>1, <2>2, <3>1
    <3> QED BY <1>1, <1>2, <2>1, <2>2, <2>3, <3>1, <3>2
  <2>4. CASE i < Len(stack)
    <3>1. stack'[i] = stack[i] /\ Cur.hi <= stack[i].pos
      BY <1>1, <1>4, <2>2, <2>4 DEF Apart, MovesTo
    <3>2. stack[i].pos \in Nat
      <4>1. stack[i] \in Frame
        BY <2>2, CurIsFrame DEF IInv
      <4> QED BY <4>1 DEF Frame
    <3>3. ~(b <= Cur.hi)
      BY <1>1, <2>1, <3>1, <3>2
    <3> QED BY <1>2, <2>1, <2>2, <3>1, <3>3
  <2> QED BY <1>1, <2>2, <2>3, <2>4
<1>5. CASE DecodeSub
  <2>1. PICK q \in Nat :
          /\ Cur.pos <= q /\ q <= Cur.hi
          /\ Len(stack') = Len(stack) + 1 /\ DOMAIN stack' = 1..(Len(stack) + 1)
          /\ \A i \in 1..Len(stack) : i < Len(stack) => stack'[i] = stack[i]
          /\ stack'[Len(stack)].hi = Cur.hi /\ stack'[Len(stack)].pos = q
          /\ stack'[Len(stack) + 1].hi = q /\ stack'[Len(stack) + 1].pos = Cur.pos
    BY <1>5, DecodeShape
  <2>2. ASSUME NEW b \in ToDo'
        PROVE  b \in ToDo
    <3>1. PICK i \in DOMAIN stack' : b \in Nat /\ stack'[i].pos < b /\ b <= stack'[i].hi
      BY <1>3, <2>2
    <3>2. CASE i < Len(stack)
      <4>1. i \in DOMAIN stack /\ stack'[i] = stack[i]
        BY <1>1, <2>1, <3>1, <3>2
      <4> QED BY <1>2, <3>1, <4>1
    <3>3. CASE i = Len(stack) \/ i = Len(stack) + 1
      <4>1. Cur.pos < b /\ b <= Cur.hi
        BY <1>1, <2>1, <3>1, <3>3
      <4> QED BY <1>1, <1>2, <3>1, <4>1
    <3>4. i < Len(stack) \/ i = Len(stack) \/ i = Len(stack) + 1
      BY <1>1, <2>1
    <3> QED BY <3>2, <3>3, <3>4
  <2>3. Len(stack') # Len(stack)
    BY <1>1, <2>1, OneMore
  <2> QED BY <2>2, <2>3
<1>6. CASE SubDone
  <2>1. Len(stack') # Len(stack)
    BY <1>6, SubDoneShape, OneMore
  <2>2. ASSUME NEW b \in ToDo'
        PROVE  b \in ToDo
    <3>1. PICK i \in DOMAIN stack' : b \in Nat /\ stack'[i].pos < b /\ b <= stack'[i].hi
      BY <1>3, <2>2
    <3>2. i \in DOMAIN stack /\ stack'[i] = stack[i]
      BY <1>6, <3>1, SubDoneShape
    <3> QED BY <1>2, <3>1, <3>2
  <2> QED BY <2>1, <2>2
<1> QED BY <1>4, <1>5, <1>6, OthersMove

\* A byte that is read is not left to do.
LEMMA ReadShrinks ==
  ASSUME IInv, IInv', Apart, ReadByte \/ SkipByte
  PROVE  Cardinality(ToDo') + 1 <= Cardinality(ToDo) /\ Len(stack') = Len(stack)
<1> DEFINE b == Cur.pos + 1
<1>1. /\ Cur.pos \in Nat /\ Cur.hi \in Nat /\ Cur.pos < Cur.hi /\ Cur = stack[Len(stack)]
      /\ Len(stack) \in DOMAIN stack
  BY CurIsFrame DEF IInv, ReadByte, SkipByte, InString
<1>2. PICK q : MovesTo(q) /\ q = Cur.pos + 1
  BY OthersMove DEF Next, ReadByte, SkipByte, DecodeSub, SubDone
<1>3. Len(stack') = Len(stack) /\ Cur'.pos = b
  BY <1>2 DEF MovesTo
<1>4. b \in Nat /\ Cur.pos < b /\ b <= Cur.hi /\ b <= b
  BY <1>1
<1> HIDE DEF b
<1>5. b \in ToDo
  BY <1>1, <1>4, ToDoMember
<1>6. ToDo' \subseteq ToDo /\ b \notin ToDo'
  BY <1>3, <1>4, ToDoShrinks DEF Next
<1>7. ToDo' \in SUBSET (ToDo \ {b})
  BY <1>6
<1>8. IsFiniteSet(ToDo) /\ Cardinality(ToDo) \in Nat
  BY ToDoMember
<1>9. IsFiniteSet(ToDo \ {b}) /\ Cardinality(ToDo \ {b}) = Cardinality(ToDo) - 1
  BY <1>5, <1>8, FS_RemoveElement
<1>10. Cardinality(ToDo') <= Cardinality(ToDo) - 1 /\ Cardinality(ToDo') \in Nat
  BY <1>7, <1>9, FS_Subset, FS_CardinalityType
<1> QED BY <1>3, <1>8, <1>10

\* The rank of where decode stands, but for a byte, becomes less.
LEMMA RankShrinks ==
  ASSUME IInv, Next
  PROVE  /\ Rank \in 0..4 /\ Rank' \in 0..4
         /\ ReadByte \/ SkipByte => Rank' <= Rank + 3
         /\ DecodeSub => Rank' + 1 < Rank /\ Len(stack') = Len(stack) + 1
         /\ SubDone => Rank' = Rank /\ Len(stack') = Len(stack) - 1
         /\ ~(ReadByte \/ SkipByte \/ DecodeSub \/ SubDone) =>
              Rank' < Rank /\ Len(stack') = Len(stack)
<1>1. Rank \in 0..4 /\ Rank' \in 0..4
  BY DEF Rank
<1>2. ReadByte \/ SkipByte => Rank' <= Rank + 3
  BY <1>1 DEF ReadByte, Overflows, SkipByte, Rank
<1>3. DecodeSub => Rank' + 1 < Rank /\ Len(stack') = Len(stack) + 1
  BY DecodeShape DEF DecodeSub, Rank
<1>4. SubDone => Rank' = Rank /\ Len(stack') = Len(stack) - 1
  BY SubDoneShape DEF SubDone, Rank
<1>5. ASSUME ~(ReadByte \/ SkipByte \/ DecodeSub \/ SubDone)
      PROVE  Rank' < Rank /\ Len(stack') = Len(stack)
  <2>1. Len(stack') = Len(stack)
    <3>1. PICK q : MovesTo(q)
      BY <1>5, OthersMove
    <3> QED BY <3>1 DEF MovesTo
  <2>2. CASE \/ NextField \/ Done \/ SkipVarint \/ SkipLen \/ SkipEnds \/ Fixed
             \/ SkipFixed \/ TakeScalar \/ TakeText \/ SkipText
    <3>1. \/ pc = "loop" /\ pc' \in {"varint", "done"}
          \/ pc = "skip_varint" /\ pc' = "loop"
          \/ /\ pc \in {"tag", "value", "len", "skip_len"}
             /\ pc' \in {"loop", "varint", "skip_varint"}
      <4>1. NextField \/ Done \/ SkipEnds =>
              \/ pc = "loop" /\ pc' \in {"varint", "done"}
              \/ pc = "skip_varint" /\ pc' = "loop"
        BY DEF NextField, Done, SkipEnds, StartVarint
      <4>2. SkipVarint \/ SkipLen \/ Fixed \/ SkipFixed =>
              pc = "tag" /\ pc' \in {"loop", "varint", "skip_varint"}
        BY DEF SkipVarint, SkipLen, Fixed, SkipFixed, StartVarint
      <4>3. TakeScalar \/ TakeText \/ SkipText =>
              pc \in {"value", "len", "skip_len"} /\ pc' = "loop"
        BY DEF TakeScalar, TakeText, SkipText
      <4> QED BY <2>2, <4>1, <4>2, <4>3
    <3>2. CASE pc = "loop" /\ pc' \in {"varint", "done"}
      BY <2>1, <3>2 DEF Rank
    <3>3. CASE pc = "skip_varint" /\ pc' = "loop"
      BY <2>1, <3>3 DEF Rank
    <3>4. CASE /\ pc \in {"tag", "value", "len", "skip_len"}
               /\ pc' \in {"loop", "varint", "skip_varint"}
      <4>1. Rank = 4 /\ Rank' \in 1..3
        BY <3>4 DEF Rank
      <4> QED BY <2>1, <4>1
    <3> QED BY <3>1, <3>2, <3>3, <3>4
  <2>3. CASE TruncatedVarint \/ UnknownWireType \/ LengthExceeds
    BY <2>3 DEF TruncatedVarint, UnknownWireType, LengthExceeds, Fail, Rank
  <2>4. CASE Scalar \/ Text \/ SubMessage
    BY <2>4 DEF Scalar, Text, SubMessage, BeginValue, Rank
  <2> QED BY <1>5, <2>1, <2>2, <2>3, <2>4 DEF Next
<1> QED BY <1>1, <1>2, <1>3, <1>4, <1>5

LEMMA LessWork ==
  ASSUME NEW c \in Nat, NEW d \in Nat, NEW n \in Nat, NEW m \in Int, NEW r \in 0..4, NEW t \in 0..4,
         \/ d + 1 <= c /\ t <= r + 3 /\ m = n
         \/ d <= c /\ m = n + 1 /\ t + 1 < r
         \/ d <= c /\ m = n - 1 /\ t = r
         \/ d <= c /\ m = n /\ t < r
  PROVE  4 * c + n + r \in Nat /\ 4 * d + m + t < 4 * c + n + r
OBVIOUS

LEMMA WorkShrinks ==
  ASSUME IInv, IInv', Apart, Next
  PROVE  Work \in Nat /\ Work' < Work
<1>1. /\ IsFiniteSet(ToDo) /\ Cardinality(ToDo) \in Nat /\ ToDo' \subseteq ToDo
  BY ToDoMember, ToDoShrinks
<1>2. Cardinality(ToDo') \in Nat /\ Cardinality(ToDo') <= Cardinality(ToDo)
  BY <1>1, FS_Subset, FS_CardinalityType
<1>3. Len(stack) \in Nat
  BY CurIsFrame DEF IInv
<1>4. PICK c \in Nat, d \in Nat, n \in Nat :
        c = Cardinality(ToDo) /\ d = Cardinality(ToDo') /\ n = Len(stack) /\ d <= c
  BY <1>1, <1>2, <1>3
<1>5. PICK r \in 0..4, t \in 0..4 : r = Rank /\ t = Rank'
  BY RankShrinks
<1>6. PICK m \in Int : m = Len(stack')
  <2>1. n + 1 \in Int /\ n - 1 \in Int /\ n \in Int
    BY <1>4
  <2> QED BY <1>4, <2>1, ReadShrinks, RankShrinks
<1>7. \/ d + 1 <= c /\ t <= r + 3 /\ m = n
      \/ d <= c /\ m = n + 1 /\ t + 1 < r
      \/ d <= c /\ m = n - 1 /\ t = r
      \/ d <= c /\ m = n /\ t < r
  <2>1. CASE ReadByte \/ SkipByte
    <3>1. d + 1 <= c /\ m = n
      BY <1>4, <1>6, <2>1, ReadShrinks
    <3>2. t <= r + 3
      BY <1>5, <2>1, RankShrinks
    <3> QED BY <3>1, <3>2
  <2>2. CASE DecodeSub
    <3>1. t + 1 < r /\ m = n + 1
      <4>1. Rank' + 1 < Rank /\ Len(stack') = Len(stack) + 1
        BY <2>2, RankShrinks
      <4> QED BY <1>4, <1>5, <1>6, <4>1
    <3> QED BY <1>4, <1>5, <3>1
  <2>3. CASE SubDone
    <3>1. t = r /\ m = n - 1
      BY <1>4, <1>5, <1>6, <2>3, RankShrinks
    <3> QED BY <1>4, <1>5, <3>1
  <2>4. CASE ~(ReadByte \/ SkipByte \/ DecodeSub \/ SubDone)
    <3>1. t < r /\ m = n
      BY <1>4, <1>5, <1>6, <2>4, RankShrinks
    <3> QED BY <1>4, <1>5, <3>1
  <2> QED BY <2>1, <2>2, <2>3, <2>4
<1>8. 4 * c + n + r \in Nat /\ 4 * d + m + t < 4 * c + n + r
  BY <1>7, LessWork
<1>9. Work = 4 * c + n + r /\ Work' = 4 * d + m + t
  BY <1>4, <1>5, <1>6 DEF Work
<1> QED BY <1>8, <1>9

LEMMA ApartHolds == Spec => [](IInv /\ Apart)
<1>1. Init => IInv /\ Apart
  BY InitInv, ApartInit
<1>2. IInv /\ Apart /\ [Next]_vars => (IInv /\ Apart)'
  BY StepInv, ApartStep
<1> QED BY <1>1, <1>2, PTL DEF Spec

----------------------------------------------------------------------------
(* How far beyond its string an activation can get. *)

Ahead == Cur.pos <= Cur.hi + 8

LEMMA AheadInit == Init => Ahead
<1> SUFFICES ASSUME Init PROVE Ahead
  OBVIOUS
<1>1. Cur = [lo |-> 0, hi |-> Len(bytes), pos |-> 0, msg |-> Root, field |-> 0]
  BY DEF Init, Cur
<1>2. Len(bytes) \in Nat
  BY InputsAssumption DEF Init
<1> QED BY <1>1, <1>2 DEF Ahead

\* The last activation after it has moved k bytes.
LEMMA AheadMoves ==
  ASSUME IInv, bytes' = bytes, NEW k \in Nat, NEW f \in Int, Cur.pos + k <= Cur.hi + 8,
         stack' = [stack EXCEPT ![Len(stack)].pos = Cur.pos + k, ![Len(stack)].field = f]
  PROVE  Ahead'
<1>1. Cur.pos \in Nat /\ Cur.hi \in Nat /\ TypeOK
  BY CurFacts
<1>2. Cur.pos + k \in Nat /\ Cur.pos <= Cur.pos + k
  BY <1>1
<1>3. Cur'.hi = Cur.hi /\ Cur'.pos = Cur.pos + k
  BY <1>1, <1>2, AdvanceKeeps DEF IInv
<1> QED BY <1>3 DEF Ahead

\* Whatever leads back to the loop has moved within the string, or by a width of
\* at most eight from within it; elsewhere the activation is inside.
LEMMA AheadStep == IInv /\ IInv' /\ Ahead /\ [Next]_vars => Ahead'
<1> SUFFICES ASSUME IInv, IInv', Ahead, [Next]_vars PROVE Ahead'
  OBVIOUS
<1>1. /\ TypeOK /\ Cur.pos \in Nat /\ Cur.hi \in Nat /\ Cur.field \in Int /\ acc \in Nat
      /\ pc \notin {"loop", "done"} => Cur.pos <= Cur.hi
  BY CurFacts
<1>2. CASE pc' \notin {"loop", "done"}
  <2>1. stack' # <<>> /\ stack' \in Seq(Frame)
    BY DEF IInv, TypeOK
  <2>2. Cur' \in Frame
    BY <2>1 DEF Cur
  <2>3. Cur'.pos \in Nat /\ Cur'.hi \in Nat
    BY <2>2 DEF Frame
  <2>4. Cur'.pos <= Cur'.hi
    BY <1>2 DEF IInv, Within
  <2> QED BY <2>3, <2>4 DEF Ahead
<1>3. CASE UNCHANGED stack
  BY <1>3 DEF Ahead, Cur
<1>4. CASE SubDone
  <2> DEFINE n == Len(stack) - 1
  <2>1. /\ stack \in Seq(Frame) /\ Len(stack) \in Nat /\ n \in Nat \ {0} /\ DOMAIN stack = 1..(n + 1)
        /\ n < Len(stack)
    BY <1>4, CurIsFrame DEF SubDone, IInv
  <2>2. stack' = SubSeq(stack, 1, n)
    BY <1>4 DEF SubDone
  <2>3. n \in DOMAIN stack
    BY <2>1
  <2>4. stack[n].pos <= stack[n].hi /\ stack[n].pos \in Nat /\ stack[n].hi \in Nat
    <3>1. stack[n] \in Frame
      BY <2>1, <2>3
    <3>2. stack[n].pos <= stack[n].hi
      BY <2>1, <2>3 DEF IInv, SlicesNest
    <3> QED BY <3>1, <3>2 DEF Frame
  <2> HIDE DEF n
  <2>5. Len(stack') = n /\ stack'[n] = stack[n]
    BY <2>1, <2>2
  <2> QED BY <2>4, <2>5 DEF Ahead, Cur
<1>5. CASE Fixed
  <2>1. Width \in Nat /\ Width <= 8 /\ Number \in Int
    BY <1>1, FieldNumberIsInt DEF Width, Number
  <2>2. stack' = [stack EXCEPT ![Len(stack)].pos = Cur.pos + Width, ![Len(stack)].field = Number]
    BY <1>1, <1>5, <2>1, NoteIsMove DEF Fixed
  <2>3. Cur.pos + Width <= Cur.hi + 8 /\ bytes' = bytes
    BY <1>1, <1>5, <2>1 DEF Fixed
  <2> QED BY <2>1, <2>2, <2>3, AheadMoves
<1>6. ASSUME NEW k \in Nat, Advance(k), bytes' = bytes, Cur.pos + k <= Cur.hi + 8
      PROVE  Ahead'
  <2>1. stack' = [stack EXCEPT ![Len(stack)].pos = Cur.pos + k, ![Len(stack)].field = Cur.field]
    BY <1>1, <1>6, AdvanceIsMove DEF Advance
  <2> QED BY <1>1, <1>6, <2>1, AheadMoves
<1>7. CASE SkipFixed
  <2>1. Width \in Nat /\ Width <= 8 /\ Advance(Width) /\ bytes' = bytes /\ Cur.pos <= Cur.hi
    BY <1>1, <1>7 DEF SkipFixed, Width
  <2> QED BY <1>1, <1>6, <2>1
<1>8. CASE SkipByte
  <2>1. Advance(1) /\ bytes' = bytes /\ Cur.pos <= Cur.hi
    BY <1>1, <1>8 DEF SkipByte
  <2> QED BY <1>1, <1>6, <2>1
<1>9. CASE TakeText \/ SkipText
  <2>1. Advance(acc) /\ bytes' = bytes /\ acc <= Room /\ Cur.pos <= Cur.hi
    BY <1>1, <1>9 DEF TakeText, SkipText
  <2>2. Room = Cur.hi - Cur.pos
    BY <1>1, <1>9, RoomExact DEF TakeText, SkipText, IInv
  <2> QED BY <1>1, <1>6, <2>1, <2>2
<1>10. CASE DecodeSub
  <2>1. PICK q \in Nat :
          /\ Cur.pos <= q /\ Len(stack') = Len(stack) + 1
          /\ stack'[Len(stack) + 1].hi = q /\ stack'[Len(stack) + 1].pos = Cur.pos
    BY <1>10, DecodeShape
  <2>2. Cur' = stack'[Len(stack) + 1]
    BY <2>1 DEF Cur
  <2> QED BY <1>1, <2>1, <2>2 DEF Ahead
<1>11. CASE ReadByte
  <2>1. pc' \notin {"loop", "done"}
    BY <1>1, <1>11 DEF ReadByte, Overflows, TypeOK, Goal
  <2> QED BY <1>2, <2>1
<1>12. CASE Scalar \/ Text \/ SubMessage
  <2>1. pc' = "varint"
    BY <1>12 DEF Scalar, Text, SubMessage, BeginValue
  <2> QED BY <1>2, <2>1
<1>13. CASE \/ NextField \/ Done \/ TruncatedVarint \/ SkipVarint \/ SkipLen \/ UnknownWireType
            \/ SkipEnds \/ TakeScalar \/ LengthExceeds \/ UNCHANGED vars
  <2>1. UNCHANGED stack
    BY <1>13 DEF NextField, Done, TruncatedVarint, SkipVarint, SkipLen, UnknownWireType,
                 SkipEnds, TakeScalar, LengthExceeds, Fail, vars
  <2> QED BY <1>3, <2>1
<1> QED BY <1>4, <1>5, <1>7, <1>8, <1>9, <1>10, <1>11, <1>12, <1>13 DEF Next

----------------------------------------------------------------------------
(* What decode returns. *)

IsList(s) == \E S : s \in Seq(S)

\* One object for each activation, and for each but the last the field it called
\* the next one for; a varint that is read for a value is one of a known field.
Linked ==
  /\ IsList(objs) /\ Len(objs) = Len(stack)
  /\ \A i \in DOMAIN objs : IsList(objs[i])
  /\ \A i \in DOMAIN stack : i < Len(stack) =>
       /\ stack[i].field \in DOMAIN Types[stack[i].msg]
       /\ Types[stack[i].msg][stack[i].field] = stack[i + 1].msg
  /\ pc \in {"varint", "value", "len"} /\ goal \in {"value", "len"} =>
       Cur.field \in DOMAIN Types[Cur.msg] /\ Types[Cur.msg][Cur.field] \in Primitive

LEMMA AppendList ==
  ASSUME NEW s, NEW x, IsList(s)
  PROVE  /\ Len(s) \in Nat /\ DOMAIN s = 1..Len(s)
         /\ IsList(Append(s, x)) /\ Len(Append(s, x)) = Len(s) + 1
         /\ DOMAIN Append(s, x) = 1..(Len(s) + 1)
         /\ \A i \in 1..Len(s) : Append(s, x)[i] = s[i]
         /\ Append(s, x)[Len(s) + 1] = x
<1>1. PICK S : s \in Seq(S)
  BY DEF IsList
<1>2. s \in Seq(S \cup {x})
  BY <1>1
<1>3. Append(s, x) \in Seq(S \cup {x})
  BY <1>2
<1> QED BY <1>2, <1>3 DEF IsList

\* The objects but the last.
LEMMA FrontList ==
  ASSUME NEW s, IsList(s), NEW k \in Nat \ {0}, Len(s) = k + 1
  PROVE  /\ IsList(SubSeq(s, 1, k)) /\ Len(SubSeq(s, 1, k)) = k
         /\ \A i \in 1..k : SubSeq(s, 1, k)[i] = s[i]
<1>1. PICK S : s \in Seq(S)
  BY DEF IsList
<1>2. SubSeq(s, 1, k) \in Seq(S)
  BY <1>1
<1> QED BY <1>1, <1>2 DEF IsList

\* A value joins the n-th and last of the objects os.
Joined(os, n, v) == [os EXCEPT ![n] = Append(os[n], v)]

LEMMA JoinList ==
  ASSUME NEW os, NEW v, NEW n \in Nat \ {0}, IsList(os), Len(os) = n, IsList(os[n])
  PROVE  /\ IsList(Joined(os, n, v)) /\ Len(Joined(os, n, v)) = n
         /\ \A i \in 1..n : i < n => Joined(os, n, v)[i] = os[i]
         /\ Joined(os, n, v)[n] = Append(os[n], v) /\ IsList(Joined(os, n, v)[n])
         /\ Joined(os, n, v)[n][Len(Joined(os, n, v)[n])] = v
<1> DEFINE a == Append(os[n], v)
           new == Joined(os, n, v)
<1>1. PICK S : os \in Seq(S)
  BY DEF IsList
<1>2. os \in Seq(S \cup {a}) /\ n \in DOMAIN os /\ new = [os EXCEPT ![n] = a]
  BY <1>1 DEF Joined
<1>3. IsList(a) /\ a[Len(a)] = v
  <2>1. /\ Len(os[n]) \in Nat /\ IsList(a) /\ Len(a) = Len(os[n]) + 1
        /\ a[Len(os[n]) + 1] = v
    BY AppendList
  <2> QED BY <2>1
<1> HIDE DEF a, new
<1>4. new \in Seq(S \cup {a}) /\ Len(new) = n /\ new[n] = a
  BY <1>2
<1>5. \A i \in 1..n : i < n => new[i] = os[i]
  BY <1>2
<1> QED BY <1>3, <1>4, <1>5 DEF IsList, a, new

LEMMA LinkedInit == Init => Linked
<1> SUFFICES ASSUME Init PROVE Linked
  OBVIOUS
<1>1. IsList(<<>>)
  <2>1. <<>> \in Seq({})
    OBVIOUS
  <2> QED BY <2>1 DEF IsList
<1>2. objs = << <<>> >> /\ Len(objs) = 1 /\ DOMAIN objs = {1} /\ objs[1] = <<>>
  BY DEF Init
<1>3. IsList(objs)
  <2>1. objs \in Seq({<<>>})
    BY <1>2
  <2> QED BY <2>1 DEF IsList
<1>4. Len(stack) = 1 /\ DOMAIN stack = {1} /\ pc = "loop"
  BY DEF Init
<1> QED BY <1>1, <1>2, <1>3, <1>4 DEF Linked

\* What Linked is about, in numbers.
LEMMA LinkedFacts ==
  ASSUME IInv, Linked
  PROVE  /\ Len(stack) \in Nat \ {0} /\ DOMAIN stack = 1..Len(stack)
         /\ Len(objs) = Len(stack) /\ DOMAIN objs = 1..Len(stack)
         /\ Cur = stack[Len(stack)] /\ IsList(objs)
         /\ \A i \in 1..Len(stack) : IsList(objs[i])
<1>1. DOMAIN objs = 1..Len(objs)
  BY DEF Linked, IsList
<1> QED BY <1>1, CurIsFrame DEF IInv, Linked

\* The tag was one of a field that is no message.
LEMMA PrimTag ==
  ASSUME IInv, pc = "tag", Decodes, WireType # WT_LEN \/ Type \in Primitive
  PROVE  Number \in DOMAIN Types[Cur.msg] /\ Types[Cur.msg][Number] \in Primitive
BY DEF Decodes, Known, Type, WT_VARINT, WT_I64, WT_LEN, WT_I32

\* The value of a field that is no message joins the last object.
Joins(f) ==
  /\ f \in DOMAIN Types[Cur.msg] /\ Types[Cur.msg][f] \in Primitive
  /\ \E v : objs' = [objs EXCEPT ![Len(objs)] = Append(@, [field |-> f, val |-> v])]

LEMMA OthersJoin ==
  ASSUME IInv, Linked, Next, ~DecodeSub, ~SubDone
  PROVE  objs' = objs \/ \E f : Joins(f)
<1>1. CASE TakeScalar \/ TakeText
  <2>1. pc = "value" \/ pc = "len"
    BY <1>1 DEF TakeScalar, TakeText
  <2>2. goal \in {"value", "len"}
    BY <2>1 DEF IInv, SubField, Goal
  <2>3. \E v : objs' = [objs EXCEPT ![Len(objs)] = Append(@, [field |-> Cur.field, val |-> v])]
    BY <1>1 DEF TakeScalar, TakeText, Found
  <2> QED BY <2>1, <2>2, <2>3 DEF Linked, Joins
<1>2. CASE Fixed
  <2>1. pc = "tag" /\ Decodes /\ WireType # WT_LEN
    BY <1>2 DEF Fixed, WT_I64, WT_I32, WT_LEN
  <2>2. \E v : objs' = [objs EXCEPT ![Len(objs)] = Append(@, [field |-> Number, val |-> v])]
    BY <1>2 DEF Fixed
  <2> QED BY <2>1, <2>2, PrimTag DEF Joins
<1>3. CASE ~(TakeScalar \/ TakeText \/ Fixed)
  BY <1>3 DEF Next, NextField, Done, ReadByte, TruncatedVarint, Scalar, Text, SubMessage,
              BeginValue, SkipFixed, SkipVarint, SkipLen, UnknownWireType, SkipByte, SkipEnds,
              LengthExceeds, SkipText, Fail
<1> QED BY <1>1, <1>2, <1>3

\* A value joins the last object, and all others stay.
LEMMA JoinedObject ==
  ASSUME IInv, Linked, NEW f, Joins(f)
  PROVE  /\ IsList(objs') /\ Len(objs') = Len(stack)
         /\ \A i \in 1..Len(stack) :
              /\ IsList(objs'[i])
              /\ i < Len(stack) => objs'[i] = objs[i]
              /\ i = Len(stack) => /\ objs'[i] = Append(objs[i], objs'[i][Len(objs'[i])])
                                   /\ objs'[i][Len(objs'[i])].field = f
<1> DEFINE n == Len(stack)
<1>1. /\ n \in Nat \ {0} /\ Len(objs) = n /\ IsList(objs) /\ IsList(objs[n])
      /\ \A i \in 1..n : IsList(objs[i])
  <2>1. Len(stack) \in 1..Len(stack)
    BY LinkedFacts
  <2> QED BY <2>1, LinkedFacts
<1>2. PICK v : objs' = [objs EXCEPT ![Len(objs)] = Append(@, [field |-> f, val |-> v])]
  BY DEF Joins
<1> DEFINE e == [field |-> f, val |-> v]
<1>3. objs' = [objs EXCEPT ![n] = Append(objs[n], e)] /\ e.field = f
  BY <1>1, <1>2
<1> HIDE DEF n, e
<1>4. /\ IsList(objs') /\ Len(objs') = n
      /\ \A i \in 1..n : i < n => objs'[i] = objs[i]
      /\ objs'[n] = Append(objs[n], e) /\ IsList(objs'[n]) /\ objs'[n][Len(objs'[n])] = e
  <2>1. n \in Nat \ {0} /\ Len(objs) = n /\ IsList(objs) /\ IsList(objs[n])
    BY <1>1
  <2>2. objs' = Joined(objs, n, e)
    BY <1>3 DEF Joined
  <2> QED BY <2>1, <2>2, JoinList
<1>5. \A i \in 1..n : i < n \/ i = n
  BY <1>1
<1> QED BY <1>1, <1>3, <1>4, <1>5 DEF n

\* Where a varint is read for a value, the activation knows for which field.
LEMMA ValueField ==
  ASSUME IInv, Linked, Next, pc' \in {"varint", "value", "len"}, goal' \in {"value", "len"}
  PROVE  Cur'.field \in DOMAIN Types[Cur'.msg] /\ Types[Cur'.msg][Cur'.field] \in Primitive
<1>1. CASE Scalar \/ Text \/ SubMessage
  <2>1. Number \in Int /\ Cur.pos \in Nat /\ Cur.pos <= Cur.pos /\ TypeOK
    BY CurFacts, FieldNumberIsInt DEF Number
  <2>2. stack' = [stack EXCEPT ![Len(stack)].field = Number]
    BY <1>1 DEF Scalar, Text, SubMessage, BeginValue
  <2>3. stack' = [stack EXCEPT ![Len(stack)].pos = Cur.pos, ![Len(stack)].field = Number]
    BY <2>1, <2>2, NoteIsMove
  <2>4. Cur'.msg = Cur.msg /\ Cur'.field = Number
    BY <2>1, <2>3, ExceptMoves DEF MovesTo
  <2>5. pc = "tag" /\ Decodes /\ (WireType # WT_LEN \/ Type \in Primitive)
    BY <1>1 DEF Scalar, Text, SubMessage, BeginValue, WT_VARINT, WT_LEN
  <2> QED BY <2>4, <2>5, PrimTag
<1>2. CASE ReadByte
  <2>1. pc = "varint" /\ goal' = goal /\ Advance(1)
    BY <1>2 DEF ReadByte, Overflows
  <2>2. Cur'.msg = Cur.msg /\ Cur'.field = Cur.field
    BY <2>1, AdvanceMoves DEF MovesTo
  <2> QED BY <2>1, <2>2 DEF Linked
<1>3. CASE ~(Scalar \/ Text \/ SubMessage \/ ReadByte)
  <2>1. FALSE
    BY <1>3 DEF Next, NextField, Done, SubDone, TruncatedVarint, Fixed, SkipFixed, SkipVarint,
                SkipLen, UnknownWireType, SkipByte, SkipEnds, TakeScalar, LengthExceeds,
                TakeText, SkipText, DecodeSub, Fail, StartVarint, varint
  <2> QED BY <2>1
<1> QED BY <1>1, <1>2, <1>3

LEMMA OthersLinked ==
  ASSUME IInv, Linked, Next, ~DecodeSub, ~SubDone
  PROVE  Linked'
<1> DEFINE n == Len(stack)
<1>1. /\ n \in Nat \ {0} /\ DOMAIN stack = 1..n /\ Len(objs) = n /\ DOMAIN objs = 1..n
      /\ Cur = stack[n] /\ IsList(objs) /\ \A i \in 1..n : IsList(objs[i])
  BY LinkedFacts
<1>2. PICK q : MovesTo(q)
  BY OthersMove
<1>3. /\ Len(stack') = n /\ DOMAIN stack' = 1..n
      /\ \A i \in 1..n : i < n => stack'[i] = stack[i]
      /\ stack'[n].msg = stack[n].msg
  BY <1>1, <1>2 DEF MovesTo
<1>4. IsList(objs') /\ Len(objs') = n /\ DOMAIN objs' = 1..n /\ \A i \in 1..n : IsList(objs'[i])
  <2>1. CASE objs' = objs
    BY <1>1, <2>1
  <2>2. CASE \E f : Joins(f)
    <3>1. IsList(objs') /\ Len(objs') = n /\ \A i \in 1..n : IsList(objs'[i])
      BY <2>2, JoinedObject
    <3>2. DOMAIN objs' = 1..Len(objs')
      BY <3>1 DEF IsList
    <3> QED BY <3>1, <3>2
  <2> QED BY <2>1, <2>2, OthersJoin
<1> HIDE DEF n
<1>5. ASSUME NEW i \in 1..n, i < n
      PROVE  /\ stack'[i].field \in DOMAIN Types[stack'[i].msg]
             /\ Types[stack'[i].msg][stack'[i].field] = stack'[i + 1].msg
  <2>1. i + 1 \in 1..n /\ (i + 1 < n \/ i + 1 = n)
    BY <1>1, <1>5
  <2>2. stack'[i + 1].msg = stack[i + 1].msg /\ stack'[i] = stack[i]
    BY <1>3, <1>5, <2>1
  <2>3. /\ stack[i].field \in DOMAIN Types[stack[i].msg]
        /\ Types[stack[i].msg][stack[i].field] = stack[i + 1].msg
    BY <1>1, <1>5, <2>1 DEF Linked, n
  <2> QED BY <2>2, <2>3
<1>6. pc' \in {"varint", "value", "len"} /\ goal' \in {"value", "len"} =>
        Cur'.field \in DOMAIN Types[Cur'.msg] /\ Types[Cur'.msg][Cur'.field] \in Primitive
  BY ValueField
<1> QED BY <1>3, <1>4, <1>5, <1>6 DEF Linked

\* An activation starts for the field its caller has just noted.
LEMMA DecodeSubLinked ==
  ASSUME IInv, Linked, DecodeSub
  PROVE  Linked'
<1> DEFINE n == Len(stack)
<1>1. /\ n \in Nat \ {0} /\ DOMAIN stack = 1..n /\ Len(objs) = n /\ DOMAIN objs = 1..n
      /\ Cur = stack[n] /\ IsList(objs) /\ \A i \in 1..n : IsList(objs[i])
  BY LinkedFacts
<1>2. /\ Len(stack') = n + 1 /\ DOMAIN stack' = 1..(n + 1)
      /\ \A i \in 1..n : i < n => stack'[i] = stack[i]
      /\ stack'[n].msg = Cur.msg /\ stack'[n].field = Cur.field
      /\ stack'[n + 1].msg = Types[Cur.msg][Cur.field]
  BY DecodeShape
<1>3. Cur.field \in DOMAIN Types[Cur.msg]
  BY DEF IInv, SubField, DecodeSub, Goal
<1>4. objs' = Append(objs, <<>>) /\ pc' = "loop"
  BY DEF DecodeSub
<1> HIDE DEF n
<1>5. /\ IsList(objs') /\ Len(objs') = n + 1 /\ DOMAIN objs' = 1..(n + 1)
      /\ \A i \in 1..(n + 1) : IsList(objs'[i])
  <2>1. /\ IsList(objs') /\ Len(objs') = n + 1 /\ DOMAIN objs' = 1..(n + 1)
        /\ \A i \in 1..n : objs'[i] = objs[i]
        /\ objs'[n + 1] = <<>>
    BY <1>1, <1>4, AppendList
  <2>2. IsList(<<>>)
    <3>1. <<>> \in Seq({})
      OBVIOUS
    <3> QED BY <3>1 DEF IsList
  <2>3. \A i \in 1..(n + 1) : i \in 1..n \/ i = n + 1
    BY <1>1
  <2> QED BY <1>1, <2>1, <2>2, <2>3
<1>6. ASSUME NEW i \in 1..(n + 1), i < n + 1
      PROVE  /\ stack'[i].field \in DOMAIN Types[stack'[i].msg]
             /\ Types[stack'[i].msg][stack'[i].field] = stack'[i + 1].msg
  <2>1. i < n \/ i = n
    BY <1>1, <1>6
  <2>2. CASE i = n
    BY <1>2, <1>3, <2>2
  <2>3. CASE i < n
    <3>1. i \in 1..n /\ i + 1 \in 1..n /\ (i + 1 < n \/ i + 1 = n)
      BY <1>1, <1>6, <2>3
    <3>2. stack'[i + 1].msg = stack[i + 1].msg /\ stack'[i] = stack[i]
      BY <1>1, <1>2, <2>3, <3>1
    <3>3. /\ stack[i].field \in DOMAIN Types[stack[i].msg]
          /\ Types[stack[i].msg][stack[i].field] = stack[i + 1].msg
      BY <1>1, <2>3, <3>1 DEF Linked, n
    <3> QED BY <3>2, <3>3
  <2> QED BY <2>1, <2>2, <2>3
<1> QED BY <1>2, <1>4, <1>5, <1>6 DEF Linked

\* An activation returns to one that still knows the field it called it for.
LEMMA SubDoneLinked ==
  ASSUME IInv, Linked, SubDone
  PROVE  /\ Linked'
         /\ \A i \in DOMAIN objs' : objs'[i] # objs[i] =>
              /\ i = Len(stack) - 1
              /\ objs'[i] = Append(objs[i], objs'[i][Len(objs'[i])])
              /\ objs'[i][Len(objs'[i])] = [field |-> CallerField, val |-> objs[Len(objs)]]
         /\ CallerField \in DOMAIN Types[stack[Len(stack) - 1].msg]
         /\ Types[stack[Len(stack) - 1].msg][CallerField] = Cur.msg
<1> DEFINE n == Len(stack) - 1
           e == [field |-> CallerField, val |-> objs[n + 1]]
<1>1. /\ n \in Nat \ {0} /\ Len(stack) = n + 1 /\ DOMAIN stack = 1..(n + 1)
      /\ Len(objs) = n + 1 /\ DOMAIN objs = 1..(n + 1)
      /\ Cur = stack[n + 1] /\ IsList(objs) /\ \A i \in 1..(n + 1) : IsList(objs[i])
  <2>1. Len(stack) \in Nat /\ Len(stack) > 1 /\ Len(stack) = n + 1
    BY LinkedFacts DEF SubDone
  <2> QED BY <2>1, LinkedFacts
<1>2. /\ Len(stack') = n /\ DOMAIN stack' = 1..n /\ \A i \in 1..n : stack'[i] = stack[i]
  BY SubDoneShape
<1>3. objs' = [SubSeq(objs, 1, n) EXCEPT ![n] = Append(@, e)] /\ pc' = "loop"
  BY DEF SubDone
<1> HIDE DEF n, e
<1> DEFINE os == SubSeq(objs, 1, n)
<1>4. IsList(os) /\ Len(os) = n /\ \A i \in 1..n : os[i] = objs[i]
  BY <1>1, FrontList
<1>5. n \in 1..n /\ \A i \in 1..n : (i < n \/ i = n) /\ i \in 1..(n + 1)
  BY <1>1
<1>6. IsList(os[n])
  BY <1>1, <1>4, <1>5
<1>7. objs' = Joined(os, n, e)
  BY <1>3 DEF Joined
<1> HIDE DEF os
<1>8. /\ IsList(objs') /\ Len(objs') = n
      /\ \A i \in 1..n : i < n => objs'[i] = os[i]
      /\ objs'[n] = Append(os[n], e) /\ IsList(objs'[n]) /\ objs'[n][Len(objs'[n])] = e
  BY <1>1, <1>4, <1>6, <1>7, JoinList
<1>9. DOMAIN objs' = 1..n
  BY <1>8 DEF IsList
<1>10. \A i \in 1..n : IsList(objs'[i])
  BY <1>1, <1>4, <1>5, <1>8
<1>11. ASSUME NEW i \in 1..n
       PROVE  /\ i \in DOMAIN stack /\ i < Len(stack)
              /\ stack[i].field \in DOMAIN Types[stack[i].msg]
              /\ Types[stack[i].msg][stack[i].field] = stack[i + 1].msg
  <2>1. i \in DOMAIN stack /\ i < Len(stack)
    BY <1>1
  <2> QED BY <2>1 DEF Linked
<1>12. Linked'
  <2>1. ASSUME NEW i \in 1..n, i < n
        PROVE  /\ stack'[i].field \in DOMAIN Types[stack'[i].msg]
               /\ Types[stack'[i].msg][stack'[i].field] = stack'[i + 1].msg
    <3>1. i + 1 \in 1..n
      BY <1>1, <2>1
    <3>2. stack'[i + 1] = stack[i + 1] /\ stack'[i] = stack[i]
      BY <1>2, <3>1
    <3> QED BY <1>11, <3>2
  <2> QED BY <1>2, <1>3, <1>8, <1>9, <1>10, <2>1 DEF Linked
<1>13. /\ CallerField \in DOMAIN Types[stack[n].msg]
       /\ Types[stack[n].msg][CallerField] = Cur.msg
  <2>1. CallerField = stack[n].field
    BY DEF CallerField, n
  <2> QED BY <1>1, <1>5, <1>11, <2>1
<1>14. ASSUME NEW i \in DOMAIN objs', objs'[i] # objs[i]
       PROVE  /\ i = n
              /\ objs'[i] = Append(objs[i], objs'[i][Len(objs'[i])])
              /\ objs'[i][Len(objs'[i])] = [field |-> CallerField, val |-> objs[Len(objs)]]
  <2>1. i \in 1..n /\ i = n
    BY <1>4, <1>5, <1>8, <1>9, <1>14
  <2>2. objs'[i] = Append(objs[i], e) /\ objs'[i][Len(objs'[i])] = e
    BY <1>4, <1>8, <2>1
  <2> QED BY <1>1, <2>1, <2>2 DEF e
<1> QED BY <1>12, <1>13, <1>14 DEF n

LEMMA LinkedStep == IInv /\ Linked /\ [Next]_vars => Linked'
<1> SUFFICES ASSUME IInv, Linked, [Next]_vars PROVE Linked'
  OBVIOUS
<1>1. CASE UNCHANGED vars
  BY <1>1 DEF vars, varint, Linked, Cur
<1> QED BY <1>1, OthersLinked, DecodeSubLinked, SubDoneLinked

\* What a step adds to a result is what the schema says.
LEMMA SchemaStep ==
  ASSUME IInv, Linked, Next,
         NEW i \in DOMAIN objs \cap DOMAIN objs', objs'[i] # objs[i]
  PROVE  LET added == objs'[i][Len(objs'[i])]
             types == Types[stack[i].msg]
         IN  /\ objs'[i] = Append(objs[i], added)
             /\ added.field \in DOMAIN types
             /\ IF Len(stack') < Len(stack)
                THEN types[added.field] = Cur.msg /\ added.val = objs[Len(objs)]
                ELSE types[added.field] \in Primitive
<1> DEFINE added == objs'[i][Len(objs'[i])]
<1>1. /\ Len(stack) \in Nat \ {0} /\ DOMAIN objs = 1..Len(stack) /\ Cur = stack[Len(stack)]
      /\ IsList(objs) /\ Len(objs) = Len(stack)
  BY LinkedFacts
<1>2. CASE SubDone
  <2>1. /\ i = Len(stack) - 1 /\ objs'[i] = Append(objs[i], added)
        /\ added = [field |-> CallerField, val |-> objs[Len(objs)]]
        /\ CallerField \in DOMAIN Types[stack[Len(stack) - 1].msg]
        /\ Types[stack[Len(stack) - 1].msg][CallerField] = Cur.msg
    BY <1>2, SubDoneLinked
  <2>2. added.field = CallerField /\ added.val = objs[Len(objs)]
    BY <2>1
  <2>3. Len(stack') < Len(stack)
    BY <1>1, <1>2, SubDoneShape
  <2> HIDE DEF added
  <2> QED BY <2>1, <2>2, <2>3 DEF added
<1>3. CASE DecodeSub
  <2>1. objs' = Append(objs, <<>>)
    BY <1>3 DEF DecodeSub
  <2>2. objs'[i] = objs[i]
    BY <1>1, <2>1, AppendList
  <2> QED BY <2>2
<1>4. CASE ~DecodeSub /\ ~SubDone
  <2>1. PICK f : Joins(f)
    BY <1>4, OthersJoin
  <2>2. i = Len(stack) /\ objs'[i] = Append(objs[i], added) /\ added.field = f
    <3>1. i \in 1..Len(stack) /\ (i < Len(stack) \/ i = Len(stack))
      BY <1>1
    <3> QED BY <2>1, <3>1, JoinedObject
  <2>3. Types[stack[i].msg] = Types[Cur.msg]
    BY <1>1, <2>2
  <2>4. ~(Len(stack') < Len(stack))
    BY <1>1, <1>4, OthersMove DEF MovesTo
  <2> HIDE DEF added
  <2> QED BY <2>1, <2>2, <2>3, <2>4 DEF Joins, added
<1> QED BY <1>2, <1>3, <1>4

----------------------------------------------------------------------------
(* Induction. *)

\* Induction as a statement about sets, without an operator for the predicate:
\* a number beyond the set would make k + 1 an injection of the members below
\* it into one member less.
LEMMA SetInduction ==
  ASSUME NEW S, 0 \in S, \A k \in Nat : k \in S => k + 1 \in S
  PROVE  \A n \in Nat : n \in S
<1> SUFFICES ASSUME NEW n \in Nat, n \notin S PROVE FALSE
  OBVIOUS
<1> DEFINE T == {k \in 0..n : k \in S}
           f == [k \in T |-> k + 1]
<1>1. IsFiniteSet(T) /\ Cardinality(T) \in Nat
  <2>1. IsFiniteSet(0..n) /\ T \in SUBSET (0..n)
    BY FS_Interval
  <2> QED BY <2>1, FS_Subset, FS_CardinalityType
<1>2. IsFiniteSet(T \ {0}) /\ Cardinality(T \ {0}) = Cardinality(T) - 1
  <2>1. 0 \in T
    OBVIOUS
  <2> QED BY <1>1, <2>1, FS_RemoveElement
<1>3. f \in [T -> T \ {0}]
  <2> SUFFICES ASSUME NEW k \in T PROVE k + 1 \in T \ {0}
    OBVIOUS
  <2>1. k \in Nat /\ k <= n /\ k \in S /\ k # n
    OBVIOUS
  <2> QED BY <2>1
<1>4. Cardinality(T \ {0}) < Cardinality(T)
  BY <1>1, <1>2
<1> HIDE DEF f
<1>5. \E x, y \in T : x # y /\ f[x] = f[y]
  BY <1>1, <1>2, <1>3, <1>4, FS_PigeonHole
<1> QED BY <1>5 DEF f

\* The same, from a statement about all smaller numbers.
LEMMA StrongInduction ==
  ASSUME NEW S, \A n \in Nat : (\A k \in Nat : k < n => k \in S) => n \in S
  PROVE  \A n \in Nat : n \in S
<1> DEFINE T == {n \in Nat : \A k \in Nat : k < n => k \in S}
<1>1. 0 \in T
  OBVIOUS
<1>2. \A k \in Nat : k \in T => k + 1 \in T
  <2> SUFFICES ASSUME NEW k \in Nat, k \in T, NEW j \in Nat, j < k + 1 PROVE j \in S
    OBVIOUS
  <2>1. j < k \/ j = k
    OBVIOUS
  <2> QED BY <2>1
<1>3. \A n \in Nat : n \in T
  <2> HIDE DEF T
  <2> QED BY <1>1, <1>2, SetInduction
<1> QED BY <1>3

----------------------------------------------------------------------------
(* The shifts of a varint. *)

\* The capacity of one byte more: a function with the equation exists, as its
\* beginnings do and agree.
LEMMA CapacityEquation ==
  /\ Capacity[0] = 1
  /\ \A k \in Nat : Capacity[k + 1] = 128 * Capacity[k] /\ Capacity[k] \in Nat
<1> DEFINE value(g, k) == IF k = 0 THEN 1 ELSE 128 * g[k - 1]
           Begins(n, g) == \A k \in 0..n : g[k] = value(g, k)
           IsCapacity(c) == c = [k \in Nat |-> value(c, k)]
<1>1. \A n \in Nat : \E g : Begins(n, g)
  <2> DEFINE S == {n \in Nat : \E g : Begins(n, g)}
  <2>1. 0 \in S
    <3> DEFINE g == [k \in {0} |-> 1]
    <3>1. Begins(0, g)
      OBVIOUS
    <3> QED BY <3>1
  <2>2. ASSUME NEW n \in Nat, n \in S PROVE n + 1 \in S
    <3>1. PICK g : Begins(n, g)
      BY <2>2
    <3> DEFINE h == [k \in 0..(n + 1) |-> value(g, k)]
    <3>2. \A k \in 0..n : h[k] = g[k]
      BY <3>1
    <3>3. Begins(n + 1, h)
      <4> SUFFICES ASSUME NEW k \in 0..(n + 1) PROVE h[k] = value(h, k)
        OBVIOUS
      <4>1. k = 0 \/ k - 1 \in 0..n
        OBVIOUS
      <4> QED BY <3>2, <4>1
    <3> HIDE DEF h, Begins
    <3> QED BY <3>3
  <2> HIDE DEF S
  <2>3. \A n \in Nat : n \in S
    BY <2>1, <2>2, SetInduction
  <2> QED BY <2>3 DEF S
<1>2. ASSUME NEW a \in Nat, NEW g, Begins(a, g), NEW b \in Nat, NEW h, Begins(b, h)
      PROVE  \A k \in Nat : k <= a /\ k <= b => g[k] = h[k]
  <2> DEFINE S == {k \in Nat : k <= a /\ k <= b => g[k] = h[k]}
  <2>1. 0 \in S
    BY <1>2
  <2>2. ASSUME NEW k \in Nat, k \in S PROVE k + 1 \in S
    <3> SUFFICES ASSUME k + 1 <= a, k + 1 <= b PROVE g[k + 1] = h[k + 1]
      OBVIOUS
    <3>1. g[k] = h[k] /\ k + 1 \in 0..a /\ k + 1 \in 0..b /\ (k + 1) - 1 = k /\ k + 1 # 0
      BY <2>2
    <3>2. g[k + 1] = value(g, k + 1) /\ h[k + 1] = value(h, k + 1)
      BY <1>2, <3>1
    <3> QED BY <3>1, <3>2
  <2> HIDE DEF S
  <2>3. \A k \in Nat : k \in S
    BY <2>1, <2>2, SetInduction
  <2> QED BY <2>3 DEF S
<1> DEFINE beginning(n) == CHOOSE g : Begins(n, g)
           f == [k \in Nat |-> beginning(k)[k]]
<1>3. \A n \in Nat : Begins(n, beginning(n))
  <2> HIDE DEF Begins
  <2> QED BY <1>1
<1> HIDE DEF beginning
<1>4. ASSUME NEW k \in Nat PROVE f[k] = value(f, k)
  <2>1. beginning(k)[k] = value(beginning(k), k)
    BY <1>3
  <2>2. CASE k = 0
    BY <2>1, <2>2
  <2>3. CASE k # 0
    <3>1. k - 1 \in Nat /\ k - 1 <= k /\ k - 1 <= k - 1
      BY <2>3
    <3>2. Begins(k, beginning(k)) /\ Begins(k - 1, beginning(k - 1))
      BY <1>3, <3>1
    <3> HIDE DEF Begins
    <3>3. beginning(k)[k - 1] = beginning(k - 1)[k - 1]
      BY <1>2, <3>1, <3>2
    <3> QED BY <2>1, <2>3, <3>1, <3>3
  <2> QED BY <2>2, <2>3
<1>5. IsCapacity(f)
  <2>1. f = [k \in Nat |-> f[k]]
    OBVIOUS
  <2> HIDE DEF f
  <2> QED BY <1>4, <2>1
<1> HIDE DEF f
<1>6. Capacity = CHOOSE c : IsCapacity(c)
  BY DEF Capacity
<1>7. IsCapacity(Capacity)
  <2> HIDE DEF IsCapacity
  <2> QED BY <1>5, <1>6
<1> DEFINE c == Capacity
<1>8. IsCapacity(c)
  BY <1>7
<1> HIDE DEF c
<1>9. \A k \in Nat : c[k] = IF k = 0 THEN 1 ELSE 128 * c[k - 1]
  BY ONLY <1>8
<1>10. c[0] = 1 /\ \A k \in Nat : c[k + 1] = 128 * c[k]
  BY <1>9
<1> DEFINE S == {k \in Nat : c[k] \in Nat}
<1>11. 0 \in S /\ \A k \in Nat : k \in S => k + 1 \in S
  BY <1>10
<1>12. \A k \in Nat : k \in S
  <2> HIDE DEF S
  <2> QED BY <1>11, SetInduction
<1> QED BY <1>10, <1>12 DEF c

\* The next byte of a varint counts what the bytes before it leave room for.
Weighed == pc = "varint" => groups \in 0..(MaxGroups - 1) /\ weight = Capacity[groups]

LEMMA WeighedInit == Init => Weighed
BY DEF Init, Weighed

\* Only ReadByte goes on with a varint, and only where another byte fits.
LEMMA WeighedStep == TypeOK /\ Weighed /\ [Next]_vars => Weighed'
<1> SUFFICES ASSUME TypeOK, Weighed, [Next]_vars PROVE Weighed'
  OBVIOUS
<1>1. MaxGroups \in Nat \ {0} /\ groups \in Nat
  BY WidthsAssumption DEF TypeOK
<1>2. CASE ReadByte
  <2> SUFFICES ASSUME pc' = "varint" PROVE groups' \in 0..(MaxGroups - 1) /\ weight' = Capacity[groups']
    BY DEF Weighed
  <2>1. /\ pc = "varint" /\ weight' = weight * 128 /\ groups' = groups + 1
        /\ pc' = IF NextByte < 128 THEN goal
                 ELSE IF Overflows(groups') THEN "abort" ELSE "varint"
    BY <1>2 DEF ReadByte
  <2>2. goal # "varint"
    BY DEF TypeOK, Goal
  <2>3. ~(groups + 1 >= MaxGroups)
    BY <2>1, <2>2 DEF Overflows
  <2>4. weight = Capacity[groups] /\ Capacity[groups + 1] = 128 * Capacity[groups]
        /\ Capacity[groups] \in Nat
    BY <1>1, <2>1, CapacityEquation DEF Weighed
  <2>5. weight * 128 = 128 * weight
    BY <2>4
  <2> QED BY <1>1, <2>1, <2>3, <2>4, <2>5
<1>3. CASE NextField \/ Scalar \/ Text \/ SubMessage \/ SkipLen
  <2>1. groups' = 0 /\ weight' = 1
    BY <1>3 DEF NextField, Scalar, Text, SubMessage, SkipLen, BeginValue, StartVarint
  <2> QED BY <1>1, <2>1, CapacityEquation DEF Weighed
<1>4. CASE SubDone
  BY <1>4 DEF Weighed, SubDone
<1>5. CASE Done \/ TruncatedVarint \/ Fixed \/ SkipFixed \/ SkipVarint \/ UnknownWireType
           \/ SkipByte \/ SkipEnds \/ TakeScalar \/ LengthExceeds \/ TakeText \/ SkipText \/ DecodeSub
  <2>1. pc' # "varint"
    BY <1>5 DEF Done, TruncatedVarint, Fixed, SkipFixed, SkipVarint, UnknownWireType, SkipByte,
                SkipEnds, TakeScalar, LengthExceeds, TakeText, SkipText, DecodeSub, Fail
  <2> QED BY <2>1 DEF Weighed
<1>6. CASE UNCHANGED vars
  BY <1>6 DEF Weighed, vars, varint
<1> QED BY <1>2, <1>3, <1>4, <1>5, <1>6 DEF Next

----------------------------------------------------------------------------
(* Theorems. *)

\* Every variable of a run of decode keeps its type; the value and the byte
\* count of a varint are natural numbers at any width.
THEOREM TypeCorrect == Spec => []TypeOK
<1>1. IInv => TypeOK
  BY DEF IInv
<1> QED BY <1>1, InvHolds, PTL

\* No length field of any input makes an activation of decode see bytes that
\* its caller was not given or has not stepped over (codec.hpp, the length
\* checks and the substr calls of decode).
THEOREM SlicesCorrect == Spec => []SlicesNest
<1>1. IInv => SlicesNest
  BY DEF IInv
<1> QED BY <1>1, InvHolds, PTL

\* sz - pos is never computed with pos beyond sz: no length check of decode and
\* skip_field compares against a wrapped size_t.
THEOREM RoomCorrect == Spec => []RoomIsExact
<1>1. IInv => RoomIsExact
  <2> SUFFICES ASSUME IInv, pc \in {"len", "skip_len", "sub_len"}
               PROVE  Room = Cur.hi - Cur.pos /\ Cur.pos <= Cur.hi
    BY DEF RoomIsExact
  <2>1. Cur.pos <= Cur.hi
    BY CurFacts
  <2> QED BY <2>1, RoomExact DEF IInv
<1> QED BY <1>1, InvHolds, PTL

\* However a field is cut off, decode gets no further than eight bytes beyond the
\* string it was given, and leaves it there: the finding at codec.hpp:189 is
\* bounded by the width of a double.
THEOREM OverrunIsLast == Spec => []OverrunEnds
<1>1. Init => IInv /\ Ahead
  BY InitInv, AheadInit
<1>2. IInv /\ Ahead /\ [Next]_vars => (IInv /\ Ahead)'
  <2>1. IInv /\ [Next]_vars => IInv'
    BY StepInv
  <2> QED BY <2>1, AheadStep
<1>3. IInv /\ Ahead => OverrunEnds
  <2> SUFFICES ASSUME IInv, Ahead, NEW i \in DOMAIN stack, stack[i].pos > stack[i].hi
               PROVE  i = Len(stack) /\ pc \in {"loop", "done"} /\ stack[i].pos <= stack[i].hi + 8
    BY DEF OverrunEnds
  <2>1. /\ Len(stack) \in Nat \ {0} /\ DOMAIN stack = 1..Len(stack) /\ Cur = stack[Len(stack)]
        /\ stack[i].pos \in Nat /\ stack[i].hi \in Nat
    <3>1. stack[i] \in Frame
      BY CurIsFrame DEF IInv
    <3> QED BY <3>1, CurIsFrame DEF IInv, Frame
  <2>2. i = Len(stack)
    <3>1. ASSUME i < Len(stack) PROVE FALSE
      BY <2>1, <3>1 DEF IInv, SlicesNest
    <3> QED BY <2>1, <3>1
  <2>3. pc \in {"loop", "done"}
    BY <2>1, <2>2 DEF IInv, Within
  <2> QED BY <2>1, <2>2, <2>3 DEF Ahead
<1> QED BY <1>1, <1>2, <1>3, PTL DEF Spec

\* decode reads or skips each byte of its input once, however deep messages are
\* nested in each other and whatever their lengths say.
THEOREM BytesOnce == Spec => EachByteOnce
<1>1. ASSUME IInv, Apart, IInv', [Next]_vars
      PROVE  [/\ ToDo' \subseteq ToDo
              /\ Len(stack') = Len(stack) =>
                   \A b \in ToDo' : ~(Cur.pos < b /\ b <= Cur'.pos /\ b <= Cur.hi)]_vars
  <2>1. CASE Next
    BY <1>1, <2>1, ToDoShrinks
  <2> QED BY <1>1, <2>1
<1> QED BY <1>1, ApartHolds, PTL DEF EachByteOnce, Spec

\* Each step of decode leaves less to do: with four steps for a byte of the input
\* and three more it has returned or failed.
THEOREM AlwaysProgress == Spec => Progress
<1>1. ASSUME IInv, Apart, IInv', [Next]_vars
      PROVE  [Work' < Work]_vars
  <2>1. CASE Next
    BY <1>1, <2>1, WorkShrinks
  <2> QED BY <1>1, <2>1
<1> QED BY <1>1, ApartHolds, PTL DEF Progress, Spec

\* What is left to do is never negative, and four times the input at the start.
THEOREM WorkIsBounded ==
  Spec => /\ Work = 4 * Len(bytes) + 3
          /\ [](Work \in Nat)
<1>1. Init => Work = 4 * Len(bytes) + 3
  <2> SUFFICES ASSUME Init PROVE Work = 4 * Len(bytes) + 3
    OBVIOUS
  <2>1. /\ Len(stack) = 1 /\ DOMAIN stack = {1} /\ stack[1].pos = 0 /\ stack[1].hi = Len(bytes)
        /\ pc = "loop"
    BY DEF Init
  <2>2. PICK n \in Nat : n = Len(bytes)
    BY InitInv DEF IInv, Input
  <2>3. ToDo = (0 + 1)..n
    BY <2>1, <2>2 DEF ToDo
  <2>4. Cardinality(ToDo) = n
    <3>1. Cardinality((0 + 1)..n) = IF 0 + 1 > n THEN 0 ELSE n - (0 + 1) + 1
      BY FS_Interval
    <3> QED BY <2>3, <3>1
  <2> QED BY <2>1, <2>2, <2>4 DEF Work, Rank
<1>2. IInv => Work \in Nat
  <2> SUFFICES ASSUME IInv PROVE Work \in Nat
    OBVIOUS
  <2>1. Cardinality(ToDo) \in Nat /\ Len(stack) \in Nat
    BY ToDoMember, CurIsFrame DEF IInv
  <2>2. Rank \in Nat
    BY DEF Rank
  <2> QED BY <2>1, <2>2 DEF Work
<1> QED BY <1>1, <1>2, InvHolds, PTL DEF Spec

\* Whatever the input, decode only builds objects of the schema it was given: each
\* value under a field its message declares, and the object of a sub-message under
\* the field whose type it was decoded with.
THEOREM SchemaIsFollowed == Spec => ResultsFollowSchema
<1>1. Init => IInv /\ Linked
  BY InitInv, LinkedInit
<1>2. IInv /\ Linked /\ [Next]_vars => (IInv /\ Linked)'
  BY StepInv, LinkedStep
<1>3. ASSUME IInv, Linked, [Next]_vars
      PROVE  [\A i \in DOMAIN objs \cap DOMAIN objs' : objs'[i] # objs[i] =>
                LET added == objs'[i][Len(objs'[i])]
                    types == Types[stack[i].msg]
                IN  /\ objs'[i] = Append(objs[i], added)
                    /\ added.field \in DOMAIN types
                    /\ IF Len(stack') < Len(stack)
                       THEN types[added.field] = Cur.msg /\ added.val = objs[Len(objs)]
                       ELSE types[added.field] \in Primitive]_vars
  <2>1. CASE Next
    BY <1>3, <2>1, SchemaStep
  <2> QED BY <1>3, <2>1
<1> QED BY <1>1, <1>2, <1>3, PTL DEF ResultsFollowSchema, Spec

\* However long a varint of the input goes on, read_varint shifts each of its bytes
\* by less than the width of uint64_t: the overflow check is there before the
\* next byte, for every width and every MaxGroups whose shifts fit it.
THEOREM ShiftsAreDefined == Spec => []ShiftDefined
<1>1. TypeOK /\ Weighed => ShiftDefined
  BY WidthsAssumption, GroupsAssumption DEF Weighed, ShiftDefined
<1>2. Init => Weighed
  BY WeighedInit
<1>3. TypeOK /\ Weighed /\ [Next]_vars => Weighed'
  BY WeighedStep
<1> QED BY <1>1, <1>2, <1>3, TypeCorrect, PTL DEF Spec
=============================================================================
