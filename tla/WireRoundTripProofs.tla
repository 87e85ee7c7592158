------------------------- MODULE WireRoundTripProofs -------------------------
(***************************************************************************)
(* Every message that fits the schema comes back from encode, frame,       *)
(* unframe and decode, whatever the schema, the message and its depth.     *)
(*                                                                         *)
(* The encoder and the messages are recursive.  Induction over them is     *)
(* induction over a set of numbers (SetInduction in WireDecodeProofs); the *)
(* recursive functions are shown to satisfy their equations by it          *)
(* (Recursion).  The decoder is followed along the path of messages its    *)
(* activations decode (Follows): each stands at the place in its string    *)
(* where the elements it has decoded end.                                  *)
(***************************************************************************)
EXTENDS WireRoundTrip, WireDecodeProofs

(* The framing. *)

\* A number is its last byte and the rest.
LEMMA Digits ==
  ASSUME NEW v \in Nat
  PROVE  High(v) \in Nat /\ Low(v) \in Nat /\ Low(v) < Base /\ v = High(v) * Base + Low(v)
<1> DEFINE q == v \div Base
           r == v % Base
<1>1. Base \in Nat /\ Base > 0
  BY BaseAssumption
<1>2. q \in Int /\ r \in 0..(Base - 1) /\ v = q * Base + r
  BY <1>1
<1>3. q >= 0
  BY <1>1, <1>2
<1> QED BY <1>1, <1>2, <1>3 DEF High, Low

\* The highest digit of a value that fits in four is a digit.
LEMMA HighestDigit ==
  ASSUME NEW v \in Nat, v < Word
  PROVE  High(High(High(v))) < Base
<1> DEFINE a == High(v)
           b == High(a)
           c == High(b)
<1>1. Base \in Nat /\ Base > 1
  BY BaseAssumption
<1>2. a \in Nat /\ v >= a * Base
  BY Digits, <1>1
<1>3. b \in Nat /\ a >= b * Base
  BY Digits, <1>1, <1>2
<1>4. c \in Nat /\ b >= c * Base
  BY Digits, <1>1, <1>3
<1> HIDE DEF a, b, c
<1>5. SUFFICES ASSUME c >= Base PROVE FALSE
  BY <1>1, <1>4 DEF a, b, c
<1>6. c * Base >= Base * Base
  BY <1>1, <1>4, <1>5
<1>7. b * Base >= Base * Base * Base
  BY <1>1, <1>3, <1>4, <1>6
<1>8. a * Base >= Base * Base * Base * Base
  BY <1>1, <1>2, <1>3, <1>7
<1> QED BY <1>1, <1>2, <1>8 DEF Word

\* read_be32 undoes write_be32.
LEMMA ReadsBack ==
  ASSUME NEW v \in Nat, v < Word
  PROVE  ReadBe32(WriteBe32(v)) = v
<1> DEFINE a == High(v)
           b == High(a)
           c == High(b)
<1>1. Base \in Nat /\ Base > 1
  BY BaseAssumption
<1>2. a \in Nat /\ v = a * Base + Low(v)
  BY Digits
<1>3. b \in Nat /\ a = b * Base + Low(a)
  BY Digits, <1>2
<1>4. c \in Nat /\ b = c * Base + Low(b)
  BY Digits, <1>3
<1>5. c < Base
  BY HighestDigit
<1>6. Low(c) = c
  BY <1>1, <1>4, <1>5 DEF Low
<1>7. WriteBe32(v) = <<Low(c), Low(b), Low(a), Low(v)>>
  BY DEF WriteBe32
<1> HIDE DEF a, b, c
<1>8. ReadBe32(WriteBe32(v)) = ((Low(c) * Base + Low(b)) * Base + Low(a)) * Base + Low(v)
  BY <1>7 DEF ReadBe32
<1> QED BY <1>2, <1>3, <1>4, <1>6, <1>8

\* The header is five bytes, the body follows.
LEMMA Layout ==
  ASSUME NEW S, NEW body \in Seq(S)
  PROVE  /\ Len(grpc_frame(body)) = 5 + Len(body)
         /\ SubSeq(grpc_frame(body), 2, 5) = WriteBe32(Len(body))
         /\ SubSeq(grpc_frame(body), 6, 5 + Len(body)) = body
<1> DEFINE n == Len(body)
           h == <<0>> \o WriteBe32(n)
           T == S \cup Int
<1>1. n \in Nat
  OBVIOUS
<1>2. \A v \in Nat : High(v) \in Nat /\ Low(v) \in Nat
  BY Digits
<1>3. WriteBe32(n) \in Seq(Int) /\ Len(WriteBe32(n)) = 4
  <2>1. High(n) \in Nat /\ High(High(n)) \in Nat /\ High(High(High(n))) \in Nat
    BY <1>1, <1>2
  <2>2. /\ Low(n) \in Int /\ Low(High(n)) \in Int /\ Low(High(High(n))) \in Int
        /\ Low(High(High(High(n)))) \in Int
    BY <1>1, <1>2, <2>1
  <2> QED BY <2>2 DEF WriteBe32
<1> HIDE DEF n
<1>4. h \in Seq(Int) /\ Len(h) = 5 /\ \A i \in 1..4 : h[i + 1] = WriteBe32(n)[i]
  <2> DEFINE w == WriteBe32(n)
  <2>1. w \in Seq(Int) /\ Len(w) = 4
    BY <1>3
  <2> HIDE DEF w
  <2> DEFINE z == <<0>>
  <2>2. z \in Seq(Int) /\ Len(z) = 1
    OBVIOUS
  <2> HIDE DEF z
  <2>3. /\ z \o w \in Seq(Int) /\ Len(z \o w) = Len(z) + Len(w)
        /\ \A i \in 1..(Len(z) + Len(w)) :
             (z \o w)[i] = IF i <= Len(z) THEN z[i] ELSE w[i - Len(z)]
    BY <2>1, <2>2, ConcatProperties
  <2>4. z \o w \in Seq(Int) /\ Len(z \o w) = 5 /\ \A i \in 1..4 : (z \o w)[i + 1] = w[i]
    BY <2>1, <2>2, <2>3
  <2> QED BY <2>4 DEF w, z
<1>5. grpc_frame(body) = h \o body
  BY DEF grpc_frame, n
<1> HIDE DEF h
<1>6. h \in Seq(T) /\ body \in Seq(T) /\ Len(body) = n
  BY <1>4 DEF n
<1>7. /\ grpc_frame(body) \in Seq(T) /\ Len(grpc_frame(body)) = 5 + n
      /\ \A i \in 1..5 : grpc_frame(body)[i] = h[i]
      /\ \A i \in 1..n : grpc_frame(body)[5 + i] = body[i]
  <2>1. /\ h \o body \in Seq(T) /\ Len(h \o body) = Len(h) + Len(body)
        /\ \A i \in 1..(Len(h) + Len(body)) :
             (h \o body)[i] = IF i <= Len(h) THEN h[i] ELSE body[i - Len(h)]
    BY <1>6, ConcatProperties
  <2>2. /\ grpc_frame(body) \in Seq(T) /\ Len(grpc_frame(body)) = 5 + n
        /\ \A i \in 1..(5 + n) : grpc_frame(body)[i] = IF i <= 5 THEN h[i] ELSE body[i - 5]
    BY <1>4, <1>5, <1>6, <2>1
  <2> QED BY <1>1, <2>2
<1>8. SubSeq(grpc_frame(body), 2, 5) = WriteBe32(n)
  <2>1. /\ SubSeq(grpc_frame(body), 2, 5) \in Seq(T) /\ Len(SubSeq(grpc_frame(body), 2, 5)) = 4
        /\ \A i \in 1..4 : SubSeq(grpc_frame(body), 2, 5)[i] = grpc_frame(body)[i + 1]
    BY <1>1, <1>7
  <2>2. \A i \in 1..4 : SubSeq(grpc_frame(body), 2, 5)[i] = WriteBe32(n)[i]
    BY <1>4, <1>7, <2>1
  <2>3. WriteBe32(n) \in Seq(T)
    BY <1>3
  <2> QED BY <1>3, <2>1, <2>2, <2>3, SeqEqual
<1>9. SubSeq(grpc_frame(body), 6, 5 + n) = body
  <2>1. /\ SubSeq(grpc_frame(body), 6, 5 + n) \in Seq(T) /\ Len(SubSeq(grpc_frame(body), 6, 5 + n)) = n
        /\ \A i \in 1..n : SubSeq(grpc_frame(body), 6, 5 + n)[i] = grpc_frame(body)[5 + i]
    BY <1>1, <1>7
  <2> QED BY <1>6, <1>7, <2>1, SeqEqual
<1> QED BY <1>7, <1>8, <1>9 DEF n

----------------------------------------------------------------------------
\* grpc_unframe accepts what grpc_frame made of a body and returns that body,
\* as long as the body and the header together fit the word of the length.
THEOREM FrameRoundTrip ==
  ASSUME NEW S, NEW body \in Seq(S), 5 + Len(body) < Word
  PROVE  FramesBack(body)
<1>1. Len(body) \in Nat /\ Word \in Nat /\ Len(body) < Word
  <2>1. Word \in Nat
    BY BaseAssumption DEF Word
  <2> QED BY <2>1
<1>2. Announced(grpc_frame(body)) = Len(body)
  BY <1>1, Layout, ReadsBack DEF Announced
<1>3. Len(grpc_frame(body)) = 5 + Len(body)
  BY Layout
<1>4. Needed(grpc_frame(body)) = 5 + Len(body)
  <2>1. Word \in Nat \ {0}
    BY BaseAssumption DEF Word
  <2>2. \A a \in Nat, m \in Nat \ {0} : a < m => a % m = a
    OBVIOUS
  <2> QED BY <1>1, <1>2, <2>1, <2>2 DEF Needed
<1>5. ~Rejected(grpc_frame(body))
  BY <1>1, <1>3, <1>4 DEF Rejected, TooShort, Truncated
<1>6. grpc_unframe(grpc_frame(body)) = SubSeq(grpc_frame(body), 6, 5 + Len(body))
  BY <1>1, <1>2, <1>3 DEF grpc_unframe
<1> QED BY <1>5, <1>6, Layout DEF FramesBack

----------------------------------------------------------------------------
\* What comes back is as long as the header announces.
IsWhole(raw) == Len(grpc_unframe(raw)) = Announced(raw)

\* The bytes of a string.
Digit == 0..(Base - 1)

\* A header of four bytes announces a length that fits the word.
LEMMA AnnouncedFits ==
  ASSUME NEW raw \in Seq(Digit), Len(raw) >= 5
  PROVE  Announced(raw) \in Nat /\ Announced(raw) < Word
<1>1. Base \in Nat /\ Base > 1
  BY BaseAssumption
<1> DEFINE a == raw[2]
           b == raw[3]
           c == raw[4]
           d == raw[5]
<1>2. a \in Digit /\ b \in Digit /\ c \in Digit /\ d \in Digit
  OBVIOUS
<1>3. Announced(raw) = ((a * Base + b) * Base + c) * Base + d
  <2>1. /\ Len(SubSeq(raw, 2, 5)) = 4
        /\ \A i \in 1..4 : SubSeq(raw, 2, 5)[i] = raw[i + 1]
    OBVIOUS
  <2> QED BY <2>1 DEF Announced, ReadBe32
<1> HIDE DEF a, b, c, d
<1>4. \A x \in Nat, y \in Digit, m \in Nat : x < m => x * Base + y \in Nat /\ x * Base + y < m * Base
  <2> SUFFICES ASSUME NEW x \in Nat, NEW y \in Digit, NEW m \in Nat, x < m
               PROVE  x * Base + y \in Nat /\ x * Base + y < m * Base
    OBVIOUS
  <2>1. y \in Nat /\ y < Base
    BY <1>1 DEF Digit
  <2>2. (x + 1) * Base <= m * Base
    BY <1>1
  <2>3. (x + 1) * Base = x * Base + Base /\ x * Base \in Nat /\ m * Base \in Nat
    BY <1>1
  <2> QED BY <1>1, <2>1, <2>2, <2>3
<1>5. a \in Nat /\ a < Base
  BY <1>1, <1>2 DEF Digit
<1> DEFINE e == a * Base + b
           f == e * Base + c
           g == f * Base + d
<1>6. e \in Nat /\ e < Base * Base
  BY <1>1, <1>2, <1>4, <1>5
<1>7. Base * Base \in Nat /\ Base * Base * Base \in Nat
  BY <1>1
<1> HIDE DEF e
<1>8. f \in Nat /\ f < Base * Base * Base
  BY <1>2, <1>4, <1>6, <1>7
<1> HIDE DEF f
<1>9. g \in Nat /\ g < Base * Base * Base * Base
  BY <1>2, <1>4, <1>7, <1>8
<1> QED BY <1>3, <1>9 DEF e, f, g, Word

\* A string is accepted exactly when it holds the header and all of the body
\* the header announces, and what comes back is that body, for every announced
\* length that leaves room for the header in the word; beyond it (the case of
\* finding WholeBody) what is announced can be missing.
THEOREM AcceptsExactlyWhole ==
  ASSUME NEW raw \in Seq(Digit), 5 + Announced(raw) < Word
  PROVE  /\ ~Rejected(raw) <=> Len(raw) >= 5 /\ Len(raw) >= 5 + Announced(raw)
         /\ ~Rejected(raw) => /\ grpc_unframe(raw) = SubSeq(raw, 6, 5 + Announced(raw))
                              /\ IsWhole(raw)
<1>1. CASE Len(raw) < 5
  BY <1>1 DEF Rejected, TooShort
<1>2. CASE Len(raw) >= 5
  <2>1. Announced(raw) \in Nat /\ Word \in Nat \ {0} /\ Len(raw) \in Nat
    <3>1. Word \in Nat \ {0}
      BY BaseAssumption DEF Word
    <3> QED BY <1>2, <3>1, AnnouncedFits
  <2>2. \A a \in Nat, m \in Nat \ {0} : a < m => a % m = a
    OBVIOUS
  <2>3. Needed(raw) = 5 + Announced(raw)
    BY <2>1, <2>2 DEF Needed
  <2>4. ~Rejected(raw) <=> Len(raw) >= 5 + Announced(raw)
    BY <1>2, <2>1, <2>3 DEF Rejected, TooShort, Truncated
  <2>5. ASSUME Len(raw) >= 5 + Announced(raw)
        PROVE  grpc_unframe(raw) = SubSeq(raw, 6, 5 + Announced(raw)) /\ IsWhole(raw)
    <3>1. grpc_unframe(raw) = SubSeq(raw, 6, 5 + Announced(raw))
      BY <2>1, <2>5 DEF grpc_unframe
    <3> DEFINE n == Announced(raw)
    <3>2. n \in Nat /\ 5 + n <= Len(raw)
      BY <2>1, <2>5
    <3> HIDE DEF n
    <3>3. Len(SubSeq(raw, 6, 5 + n)) = n
      BY <3>2
    <3> QED BY <3>1, <3>3 DEF IsWhole, n
  <2> QED BY <1>2, <2>1, <2>4, <2>5
<1> QED BY <1>1, <1>2

\* Whatever is announced, a string that holds all of it is accepted: the wrap
\* of the sum only ever lets too much through.
THEOREM WholeIsAccepted ==
  ASSUME NEW raw \in Seq(Digit), Len(raw) >= 5, Len(raw) >= 5 + Announced(raw)
  PROVE  ~Rejected(raw) /\ IsWhole(raw)
<1> DEFINE n == Announced(raw)
<1>1. n \in Nat /\ Word \in Nat \ {0} /\ Len(raw) \in Nat
  <2>1. Word \in Nat \ {0}
    BY BaseAssumption DEF Word
  <2> QED BY <2>1, AnnouncedFits
<1>2. \A a \in Nat, m \in Nat \ {0} : a % m <= a
  OBVIOUS
<1>3. Needed(raw) <= 5 + n /\ Needed(raw) \in Nat
  BY <1>1, <1>2 DEF Needed
<1>4. ~Rejected(raw)
  BY <1>1, <1>3 DEF Rejected, TooShort, Truncated
<1>5. grpc_unframe(raw) = SubSeq(raw, 6, 5 + n)
  BY <1>1 DEF grpc_unframe
<1> HIDE DEF n
<1>6. 5 + n <= Len(raw)
  BY <1>1 DEF n
<1>7. Len(SubSeq(raw, 6, 5 + n)) = n
  BY <1>1, <1>6
<1> QED BY <1>4, <1>5, <1>7 DEF IsWhole, n

----------------------------------------------------------------------------
(* The recursive functions are what their definitions say. *)

\* write_varint, FlattenSeq, encode and Elements, one level deep.
VarintLayer(g, v) == IF v < 128 THEN <<v>> ELSE <<128 + (v % 128)>> \o g[v \div 128]

FlattenLayer(s, g, i) == IF i = 1 THEN s[i] ELSE g[i - 1] \o s[i]

EncodeLayer(g, x) ==
  FlattenSeq([i \in 1..Len(Items(x)) |->
                EncodeValue(Items(x)[i].field, Items(x)[i].elem, FieldType(x, Items(x)[i]), g)])

ElementsLayer(g, x) ==
  [i \in 1..Len(Items(x)) |->
     [field |-> Items(x)[i].field,
      val |-> Image(Items(x)[i].elem, FieldType(x, Items(x)[i]), g)]]

\* The value at x of the recursive function k, from its values g elsewhere.
Layer(k, s, g, x) ==
  CASE k = "varint"  -> VarintLayer(g, x)
    [] k = "flatten" -> FlattenLayer(s, g, x)
    [] k = "encode"  -> EncodeLayer(g, x)
    [] OTHER         -> ElementsLayer(g, x)

\* A value depends on values of smaller rank only.
Descends(k, s, D, rank) ==
  /\ \A x \in D : rank[x] \in Nat
  /\ \A g, h : \A x \in D : (\A y \in D : rank[y] < rank[x] => g[y] = h[y])
                           => Layer(k, s, g, x) = Layer(k, s, h, x)

Solution(k, s, D, f) == f = [x \in D |-> Layer(k, s, f, x)]

\* A function with the equation exists, then.
LEMMA Recursion ==
  ASSUME NEW k, NEW s, NEW D, NEW rank, Descends(k, s, D, rank)
  PROVE  \E f : Solution(k, s, D, f)
<1> USE DEF Descends, Solution
<1> DEFINE V(n) == {x \in D : rank[x] < n}
           Solves(n, g) == g = [x \in V(n) |-> Layer(k, s, g, x)]
<1>1. \A n \in Nat : \E g : Solves(n, g)
  <2> DEFINE S == {n \in Nat : \E g : Solves(n, g)}
  <2>1. 0 \in S
    <3> DEFINE g == [x \in V(0) |-> Layer(k, s, <<>>, x)]
    <3>1. V(0) = {}
      OBVIOUS
    <3>2. Solves(0, g)
      BY <3>1
    <3> QED BY <3>2
  <2>2. ASSUME NEW n \in Nat, n \in S PROVE n + 1 \in S
    <3>1. PICK g : Solves(n, g)
      BY <2>2
    <3> DEFINE h == [x \in V(n + 1) |-> Layer(k, s, g, x)]
    <3>2. ASSUME NEW x \in V(n + 1) PROVE Layer(k, s, g, x) = Layer(k, s, h, x)
      <4>1. ASSUME NEW y \in D, rank[y] < rank[x] PROVE g[y] = h[y]
        <5>1. y \in V(n) /\ y \in V(n + 1)
          BY <4>1
        <5> HIDE DEF V
        <5> QED BY <3>1, <5>1
      <4>2. x \in D
        OBVIOUS
      <4> HIDE DEF h
      <4> QED BY <4>1, <4>2
    <3>3. Solves(n + 1, h)
      <4> HIDE DEF V
      <4> QED BY <3>2
    <3>4. \E f : Solves(n + 1, f)
      <4> HIDE DEF Solves
      <4> QED BY <3>3
    <3> QED BY <3>4
  <2> HIDE DEF S
  <2>3. \A n \in Nat : n \in S
    BY <2>1, <2>2, SetInduction
  <2> QED BY <2>3 DEF S
<1>2. ASSUME NEW x \in D, NEW a \in Nat, NEW b \in Nat, rank[x] < a, rank[x] < b,
             NEW g, NEW h, Solves(a, g), Solves(b, h)
      PROVE  g[x] = h[x]
  <2> DEFINE S == {n \in Nat : \A y \in D : rank[y] = n /\ n < a /\ n < b => g[y] = h[y]}
  <2>1. ASSUME NEW n \in Nat, \A m \in Nat : m < n => m \in S PROVE n \in S
    <3> SUFFICES ASSUME NEW y \in D, rank[y] = n, n < a, n < b PROVE g[y] = h[y]
      OBVIOUS
    <3>1. \A z \in D : rank[z] < rank[y] => g[z] = h[z]
      <4> SUFFICES ASSUME NEW z \in D, rank[z] < rank[y] PROVE g[z] = h[z]
        OBVIOUS
      <4>1. rank[z] \in S /\ rank[z] < a /\ rank[z] < b
        BY <2>1
      <4> QED BY <4>1
    <3>2. Layer(k, s, g, y) = Layer(k, s, h, y)
      BY <3>1
    <3>3. y \in V(a) /\ y \in V(b)
      OBVIOUS
    <3>4. g[y] = Layer(k, s, g, y) /\ h[y] = Layer(k, s, h, y)
      <4> HIDE DEF V
      <4> QED BY <1>2, <3>3
    <3> QED BY <3>2, <3>4
  <2> HIDE DEF S
  <2>2. \A n \in Nat : n \in S
    BY <2>1, StrongInduction
  <2>3. rank[x] \in S
    BY <2>2
  <2> QED BY <1>2, <2>3 DEF S
<1> DEFINE sol(n) == CHOOSE g : Solves(n, g)
           f == [x \in D |-> sol(rank[x] + 1)[x]]
<1>3. \A n \in Nat : Solves(n, sol(n))
  <2> HIDE DEF Solves
  <2> QED BY <1>1
<1> HIDE DEF sol
<1>4. ASSUME NEW x \in D PROVE f[x] = Layer(k, s, f, x)
  <2> DEFINE g == sol(rank[x] + 1)
  <2>1. Solves(rank[x] + 1, g)
    <3> HIDE DEF Solves
    <3>1. rank[x] + 1 \in Nat
      OBVIOUS
    <3> QED BY <1>3, <3>1
  <2>2. x \in V(rank[x] + 1)
    OBVIOUS
  <2>3. g[x] = Layer(k, s, g, x)
    <3> HIDE DEF V, g
    <3> QED BY <2>1, <2>2
  <2>4. ASSUME NEW y \in D, rank[y] < rank[x] PROVE g[y] = f[y]
    <3>1. Solves(rank[y] + 1, sol(rank[y] + 1))
      <4> HIDE DEF Solves
      <4>1. rank[y] + 1 \in Nat
        OBVIOUS
      <4> QED BY <1>3, <4>1
    <3>2. rank[y] < rank[x] + 1 /\ rank[y] < rank[y] + 1 /\ rank[x] + 1 \in Nat /\ rank[y] + 1 \in Nat
      BY <2>4
    <3> HIDE DEF Solves, g
    <3>3. g[y] = sol(rank[y] + 1)[y]
      BY <1>2, <2>1, <3>1, <3>2
    <3> QED BY <3>3
  <2>5. f[x] = g[x]
    OBVIOUS
  <2> HIDE DEF f, g
  <2>6. Layer(k, s, g, x) = Layer(k, s, f, x)
    BY <2>4
  <2> QED BY <2>3, <2>5, <2>6
<1>5. f = [x \in D |-> Layer(k, s, f, x)]
  <2>1. f = [x \in D |-> f[x]]
    OBVIOUS
  <2> HIDE DEF f
  <2> QED BY <1>4, <2>1
<1> HIDE DEF f
<1> QED BY <1>5

\* A varint gets shorter.
LEMMA Halves == \A v \in Nat : v >= 128 => v \div 128 \in Nat /\ v \div 128 < v
OBVIOUS

\* What write_varint writes.
LEMMA WriteVarintEquation ==
  \A v \in Nat :
    WriteVarint[v] = IF v < 128 THEN <<v>> ELSE <<128 + (v % 128)>> \o WriteVarint[v \div 128]
<1> DEFINE rank == [v \in Nat |-> v]
           IsVarint(w) == w = [v \in Nat |->
              IF v < 128 THEN <<v>> ELSE <<128 + (v % 128)>> \o w[v \div 128]]
<1>1. ASSUME NEW g, NEW h, NEW x \in Nat, \A y \in Nat : rank[y] < rank[x] => g[y] = h[y]
      PROVE  Layer("varint", 0, g, x) = Layer("varint", 0, h, x)
  <2>1. CASE x < 128
    BY <2>1 DEF Layer, VarintLayer
  <2>2. CASE x >= 128
    <3>1. g[x \div 128] = h[x \div 128]
      BY <1>1, <2>2, Halves
    <3> QED BY <3>1 DEF Layer, VarintLayer
  <2> QED BY <2>1, <2>2
<1>2. Descends("varint", 0, Nat, rank)
  BY <1>1 DEF Descends
<1>3. PICK f : Solution("varint", 0, Nat, f)
  BY <1>2, Recursion
<1>4. IsVarint(f)
  BY <1>3 DEF Solution, Layer, VarintLayer
<1>5. WriteVarint = CHOOSE w : IsVarint(w)
  BY DEF WriteVarint
<1>6. IsVarint(WriteVarint)
  <2> HIDE DEF IsVarint
  <2> QED BY <1>4, <1>5
<1> DEFINE w == WriteVarint
<1>7. IsVarint(w)
  BY <1>6
<1> HIDE DEF w
<1>8. \A v \in Nat : w[v] = IF v < 128 THEN <<v>> ELSE <<128 + (v % 128)>> \o w[v \div 128]
  BY ONLY <1>7
<1> QED BY <1>8 DEF w

\* The bytes of a varint, the first byte and the rest.
LEMMA VarintBytes ==
  \A v \in Nat :
    /\ WriteVarint[v] \in Seq(Byte) /\ Len(WriteVarint[v]) >= 1
    /\ v < 128 => Len(WriteVarint[v]) = 1 /\ WriteVarint[v][1] = v
    /\ v >= 128 => /\ WriteVarint[v][1] = 128 + (v % 128)
                   /\ Len(WriteVarint[v]) = 1 + Len(WriteVarint[v \div 128])
                   /\ \A i \in 1..Len(WriteVarint[v \div 128]) :
                        WriteVarint[v][1 + i] = WriteVarint[v \div 128][i]
<1> DEFINE w == WriteVarint
           S == {v \in Nat : w[v] \in Seq(Byte)}
<1>1. \A v \in Nat : w[v] = IF v < 128 THEN <<v>> ELSE <<128 + (v % 128)>> \o w[v \div 128]
  BY WriteVarintEquation
<1> HIDE DEF w
<1>2. ASSUME NEW v \in Nat, v < 128
      PROVE  w[v] \in Seq(Byte) /\ Len(w[v]) = 1 /\ w[v][1] = v
  <2>1. w[v] = <<v>>
    BY <1>1, <1>2
  <2>2. v \in Byte
    BY <1>2 DEF Byte
  <2> QED BY <2>1, <2>2
<1>3. ASSUME NEW v \in Nat, v >= 128, w[v \div 128] \in Seq(Byte)
      PROVE  /\ w[v] \in Seq(Byte) /\ w[v][1] = 128 + (v % 128)
             /\ Len(w[v]) = 1 + Len(w[v \div 128])
             /\ \A i \in 1..Len(w[v \div 128]) : w[v][1 + i] = w[v \div 128][i]
  <2> DEFINE b == 128 + (v % 128)
             r == w[v \div 128]
  <2>1. w[v] = <<b>> \o r
    <3>1. ~(v < 128)
      BY <1>3
    <3> QED BY <1>1, <3>1
  <2>2. b \in Byte
    BY DEF Byte
  <2>3. r \in Seq(Byte)
    BY <1>3
  <2> HIDE DEF b, r
  <2> DEFINE h == <<b>>
  <2>4. h \in Seq(Byte) /\ Len(h) = 1 /\ h[1] = b
    BY <2>2
  <2>5. w[v] = h \o r
    BY <2>1
  <2> HIDE DEF h
  <2>6. /\ h \o r \in Seq(Byte) /\ Len(h \o r) = Len(h) + Len(r)
        /\ \A i \in 1..(Len(h) + Len(r)) :
             (h \o r)[i] = IF i <= Len(h) THEN h[i] ELSE r[i - Len(h)]
    BY <2>3, <2>4, ConcatProperties
  <2>7. w[v] \in Seq(Byte) /\ Len(w[v]) = 1 + Len(r) /\ w[v][1] = b
    BY <2>3, <2>4, <2>5, <2>6
  <2>8. \A i \in 1..Len(r) : w[v][1 + i] = r[i]
    BY <2>3, <2>4, <2>5, <2>6
  <2> QED BY <2>7, <2>8 DEF b, r
<1>4. ASSUME NEW n \in Nat, \A k \in Nat : k < n => k \in S PROVE n \in S
  <2>1. CASE n < 128
    BY <1>2, <2>1
  <2>2. CASE n >= 128
    <3>1. w[n \div 128] \in Seq(Byte)
      BY <1>4, <2>2, Halves
    <3> QED BY <1>3, <2>2, <3>1
  <2> QED BY <2>1, <2>2
<1>5. \A v \in Nat : w[v] \in Seq(Byte)
  <2> HIDE DEF S
  <2>1. \A n \in Nat : n \in S
    BY <1>4, StrongInduction
  <2> QED BY <2>1 DEF S
<1> SUFFICES ASSUME NEW v \in Nat
             PROVE  /\ w[v] \in Seq(Byte) /\ Len(w[v]) >= 1
                    /\ v < 128 => Len(w[v]) = 1 /\ w[v][1] = v
                    /\ v >= 128 => /\ w[v][1] = 128 + (v % 128)
                                   /\ Len(w[v]) = 1 + Len(w[v \div 128])
                                   /\ \A i \in 1..Len(w[v \div 128]) :
                                        w[v][1 + i] = w[v \div 128][i]
  BY DEF w
<1>6. CASE v < 128
  BY <1>2, <1>6
<1>7. CASE v >= 128
  <2>1. w[v \div 128] \in Seq(Byte)
    BY <1>5, <1>7, Halves
  <2>2. Len(w[v \div 128]) \in Nat
    BY <2>1
  <2> QED BY <1>3, <1>7, <2>1, <2>2
<1> QED BY <1>6, <1>7

\* A number that k bytes can hold takes at most k of them.
LEMMA VarintFits ==
  ASSUME NEW v \in Nat, NEW k \in Nat \ {0}, v < Capacity[k]
  PROVE  Len(WriteVarint[v]) <= k
<1> DEFINE len(u) == Len(WriteVarint[u])
           cap(n) == Capacity[n]
           S == {n \in Nat : \A u \in Nat : u < cap(n + 1) => len(u) <= n + 1}
<1>1. /\ \A u \in Nat : len(u) \in Nat /\ (u < 128 => len(u) = 1)
      /\ \A u \in Nat : u >= 128 => len(u) = 1 + len(u \div 128)
  BY VarintBytes
<1>2. cap(0) = 1 /\ \A n \in Nat : cap(n) \in Nat /\ cap(n + 1) = 128 * cap(n)
  BY CapacityEquation
<1>3. v < cap(k)
  OBVIOUS
<1> HIDE DEF len, cap
<1>4. 0 \in S
  <2>1. cap(0 + 1) = 128
    BY <1>2
  <2> QED BY <1>1, <2>1
<1>5. ASSUME NEW n \in Nat, n \in S PROVE n + 1 \in S
  <2> SUFFICES ASSUME NEW u \in Nat, u < cap((n + 1) + 1) PROVE len(u) <= (n + 1) + 1
    OBVIOUS
  <2>1. CASE u < 128
    BY <1>1, <2>1
  <2>2. CASE u >= 128
    <3>1. cap(n + 1) \in Nat /\ cap((n + 1) + 1) = 128 * cap(n + 1)
      BY <1>2
    <3>2. u \div 128 \in Nat /\ u \div 128 < cap(n + 1)
      BY <3>1
    <3>3. len(u \div 128) <= n + 1
      BY <1>5, <3>2
    <3> QED BY <1>1, <2>2, <3>2, <3>3
  <2> QED BY <2>1, <2>2
<1>6. \A n \in Nat : n \in S
  <2> HIDE DEF S
  <2> QED BY <1>4, <1>5, SetInduction
<1>7. k - 1 \in Nat /\ (k - 1) + 1 = k
  OBVIOUS
<1>8. len(v) <= k
  BY <1>3, <1>6, <1>7
<1> QED BY <1>8 DEF len

----------------------------------------------------------------------------
(* Strings in a row. *)

\* The string c stands in the string b behind p bytes.
At(b, p, c) == p + Len(c) <= Len(b) /\ \A i \in 1..Len(c) : b[p + i] = c[i]

\* FlattenSeq is the last value of such a function.
IsFlat(s, f) == f = [i \in 1..Len(s) |-> IF i = 1 THEN s[i] ELSE f[i - 1] \o s[i]]

\* The first k strings of s, one behind the other.
FirstFlat(s, k) == IF k = 0 THEN <<>> ELSE (CHOOSE f : IsFlat(s, f))[k]

\* The strings are put behind each other one by one.
LEMMA FlatSteps ==
  ASSUME NEW T, NEW s \in Seq(Seq(T))
  PROVE  /\ FirstFlat(s, 0) = <<>>
         /\ \A k \in Nat : k < Len(s) => FirstFlat(s, k + 1) = FirstFlat(s, k) \o s[k + 1]
         /\ \A k \in 0..Len(s) : FirstFlat(s, k) \in Seq(T)
         /\ FlattenSeq(s) = FirstFlat(s, Len(s))
<1> DEFINE N == Len(s)
           D == 1..N
           rank == [i \in D |-> i]
<1>0. N \in Nat
  OBVIOUS
<1> HIDE DEF N
<1>1. ASSUME NEW g, NEW h, NEW x \in D, \A y \in D : rank[y] < rank[x] => g[y] = h[y]
      PROVE  Layer("flatten", s, g, x) = Layer("flatten", s, h, x)
  <2>1. CASE x = 1
    BY <2>1 DEF Layer, FlattenLayer
  <2>2. CASE x # 1
    <3>1. g[x - 1] = h[x - 1]
      BY <1>0, <1>1, <2>2
    <3> QED BY <3>1 DEF Layer, FlattenLayer
  <2> QED BY <2>1, <2>2
<1>2. Descends("flatten", s, D, rank)
  BY <1>0, <1>1 DEF Descends
<1>3. PICK f : Solution("flatten", s, D, f)
  BY <1>2, Recursion
<1>4. IsFlat(s, f)
  BY <1>3 DEF Solution, Layer, FlattenLayer, IsFlat, N
<1> DEFINE flat == CHOOSE g : IsFlat(s, g)
<1>5. IsFlat(s, flat)
  BY <1>4
<1>6. FlattenSeq(s) = FirstFlat(s, N)
  <2>1. CASE N = 0
    BY <2>1 DEF FlattenSeq, FirstFlat, N
  <2>2. CASE N # 0
    <3>1. FlattenSeq(s) = flat[N]
      BY <2>2 DEF FlattenSeq, IsFlat, N
    <3> QED BY <2>2, <3>1 DEF FirstFlat
  <2> QED BY <2>1, <2>2
<1> DEFINE F(k) == FirstFlat(s, k)
<1>7. F(0) = <<>> /\ \A k \in 1..N : F(k) = flat[k]
  BY DEF FirstFlat
<1> HIDE DEF flat, F
<1>8. \A k \in 1..N : flat[k] = IF k = 1 THEN s[k] ELSE flat[k - 1] \o s[k]
  BY ONLY <1>0, <1>5 DEF IsFlat, N
<1>9. \A k \in Nat : k < N => s[k + 1] \in Seq(T)
  BY DEF N
<1>10. ASSUME NEW k \in Nat, k < N PROVE F(k + 1) = F(k) \o s[k + 1]
  <2>1. k + 1 \in 1..N /\ F(k + 1) = flat[k + 1]
    BY <1>0, <1>7, <1>10
  <2>2. CASE k = 0
    <3> DEFINE c == s[k + 1]
    <3>1. c \in Seq(T)
      BY <1>9, <1>10
    <3>2. F(k + 1) = c /\ F(k) = <<>>
      BY <1>7, <1>8, <2>1, <2>2
    <3> HIDE DEF c
    <3>3. <<>> \o c = c
      BY <3>1
    <3> QED BY <3>2, <3>3 DEF c
  <2>3. CASE k # 0
    <3>1. k + 1 # 1 /\ (k + 1) - 1 = k /\ F(k) = flat[k]
      BY <1>0, <1>7, <1>10, <2>3
    <3>2. flat[k + 1] = flat[(k + 1) - 1] \o s[k + 1]
      BY <1>8, <2>1, <3>1
    <3> QED BY <2>1, <3>1, <3>2
  <2> QED BY <2>2, <2>3
<1> DEFINE S == {k \in Nat : k <= N => F(k) \in Seq(T)}
<1>11. 0 \in S
  <2>1. F(0) = <<>>
    BY <1>7, Zenon
  <2>2. <<>> \in Seq(T)
    OBVIOUS
  <2>3. F(0) \in Seq(T)
    BY <2>1, <2>2, Zenon
  <2> QED BY <2>3
<1>12. ASSUME NEW k \in Nat, k \in S PROVE k + 1 \in S
  <2> SUFFICES ASSUME k + 1 <= N PROVE F(k + 1) \in Seq(T)
    OBVIOUS
  <2>1. k < N /\ F(k) \in Seq(T)
    BY <1>0, <1>12
  <2>2. F(k + 1) = F(k) \o s[k + 1] /\ s[k + 1] \in Seq(T)
    BY <1>9, <1>10, <2>1
  <2> DEFINE a == F(k)
             c == s[k + 1]
  <2>3. a \in Seq(T) /\ c \in Seq(T)
    BY <2>1, <2>2
  <2> HIDE DEF a, c
  <2>4. a \o c \in Seq(T)
    BY <2>3
  <2> QED BY <2>2, <2>4 DEF a, c
<1>13. \A k \in Nat : k \in S
  <2> HIDE DEF S
  <2> QED BY <1>11, <1>12, SetInduction
<1>14. \A k \in 0..N : F(k) \in Seq(T)
  BY <1>0, <1>13
<1> QED BY <1>6, <1>7, <1>10, <1>14 DEF N, F

\* Each string stands behind those before it.
LEMMA FlatPieces ==
  ASSUME NEW T, NEW s \in Seq(Seq(T)), NEW k \in Nat, k < Len(s)
  PROVE  /\ At(FlattenSeq(s), Len(FirstFlat(s, k)), s[k + 1])
         /\ Len(FirstFlat(s, k)) \in Nat
         /\ Len(FirstFlat(s, k + 1)) = Len(FirstFlat(s, k)) + Len(s[k + 1])
<1> DEFINE N == Len(s)
           a == FirstFlat(s, k)
           p == Len(a)
           c == s[k + 1]
           F(j) == FirstFlat(s, j)
           S == {n \in Nat : k + 1 + n <= N => At(F(k + 1 + n), p, c)}
<1>1. N \in Nat /\ k < N /\ p \in Nat /\ a \in Seq(T) /\ c \in Seq(T) /\ Len(c) \in Nat
  <2>1. N \in Nat /\ k < N /\ c \in Seq(T)
    OBVIOUS
  <2>2. k \in 0..Len(s)
    BY <2>1
  <2>3. a \in Seq(T)
    BY <2>2, FlatSteps
  <2> HIDE DEF N, a, c
  <2> QED BY <2>1, <2>3
<1>2. F(k + 1) = a \o c
  BY FlatSteps
<1>3. \A j \in Nat : j < N => F(j) \in Seq(T) /\ s[j + 1] \in Seq(T) /\ F(j + 1) = F(j) \o s[j + 1]
  <2> SUFFICES ASSUME NEW j \in Nat, j < N
               PROVE  F(j) \in Seq(T) /\ s[j + 1] \in Seq(T) /\ F(j + 1) = F(j) \o s[j + 1]
    OBVIOUS
  <2>1. j \in 0..Len(s) /\ j + 1 \in 1..Len(s)
    BY <1>1
  <2>2. s[j + 1] \in Seq(T)
    BY <2>1
  <2> QED BY <2>1, <2>2, FlatSteps
<1>4. FlattenSeq(s) = F(N)
  BY FlatSteps
<1> HIDE DEF N, a, p, c, F
<1>5. Len(F(k + 1)) = p + Len(c) /\ 0 \in S
  <2>1. /\ Len(a \o c) = Len(a) + Len(c)
        /\ \A i \in 1..(Len(a) + Len(c)) : (a \o c)[i] = IF i <= Len(a) THEN a[i] ELSE c[i - Len(a)]
    BY <1>1, ConcatProperties
  <2>2. Len(F(k + 1)) = p + Len(c) /\ \A i \in 1..Len(c) : F(k + 1)[p + i] = c[i]
    BY <1>1, <1>2, <2>1 DEF p
  <2>3. At(F(k + 1), p, c)
    BY <1>1, <2>2 DEF At
  <2>4. k + 1 + 0 = k + 1
    OBVIOUS
  <2> QED BY <2>2, <2>3, <2>4
<1>6. ASSUME NEW n \in Nat, n \in S PROVE n + 1 \in S
  <2> SUFFICES ASSUME k + 1 + (n + 1) <= N PROVE At(F(k + 1 + (n + 1)), p, c)
    OBVIOUS
  <2> DEFINE j == k + 1 + n
             b == F(j)
             d == s[j + 1]
  <2>1. j \in Nat /\ j < N /\ k + 1 + (n + 1) = j + 1
    BY <1>1
  <2>2. At(b, p, c)
    BY <1>1, <1>6, <2>1
  <2>3. b \in Seq(T) /\ d \in Seq(T) /\ F(j + 1) = b \o d
    BY <1>3, <2>1
  <2> HIDE DEF j, b, d
  <2>4. /\ Len(b \o d) = Len(b) + Len(d) /\ Len(b) \in Nat /\ Len(d) \in Nat
        /\ \A i \in 1..(Len(b) + Len(d)) : (b \o d)[i] = IF i <= Len(b) THEN b[i] ELSE d[i - Len(b)]
    BY <2>3, ConcatProperties
  <2>5. At(b \o d, p, c)
    BY <1>1, <2>2, <2>4 DEF At
  <2> QED BY <2>1, <2>3, <2>5
<1>7. N - (k + 1) \in Nat /\ k + 1 + (N - (k + 1)) = N
  BY <1>1
<1>8. \A n \in Nat : n \in S
  <2> HIDE DEF S
  <2> QED BY <1>5, <1>6, SetInduction
<1>9. At(F(N), p, c)
  <2>1. (N - (k + 1)) \in S
    BY <1>7, <1>8
  <2>2. k + 1 + (N - (k + 1)) <= N
    BY <1>1, <1>7
  <2>3. At(F(k + 1 + (N - (k + 1))), p, c)
    BY <2>1, <2>2
  <2> QED BY <1>7, <2>3
<1> QED BY <1>1, <1>4, <1>5, <1>9 DEF a, p, c, F

\* Nothing is left behind the last one.
LEMMA FlatEnd ==
  ASSUME NEW T, NEW s \in Seq(Seq(T))
  PROVE  Len(FirstFlat(s, Len(s))) = Len(FlattenSeq(s)) /\ Len(FirstFlat(s, 0)) = 0
         /\ FlattenSeq(s) \in Seq(T)
BY FlatSteps

----------------------------------------------------------------------------
(* What the schema and the messages are. *)

\* An element of x as the assumptions describe it.
GoodItem(x, it) ==
  LET t == FieldType(x, it)
  IN  /\ it.field \in 1..Len(Types[x[1]])
      /\ t \in Message \cup Primitive
      /\ IsElement(it.elem, t)
      /\ t \in Message => <<t, it.elem>> \in Values /\ Depth[<<t, it.elem>>] < Depth[x]

\* The names of the primitive types differ.
LEMMA Names ==
  /\ Strings # Bool /\ Strings # Double /\ Strings # Float /\ Strings # Integer
  /\ Bool # Double /\ Bool # Float /\ Bool # Integer
  /\ Double # Float /\ Double # Integer /\ Float # Integer
BY DEF Strings, Bool, Double, Float, Integer

\* The type of a message is one of the schema.
LEMMA SchemaFacts ==
  ASSUME NEW x \in Values
  PROVE  /\ x[1] \in Message /\ Depth[x] \in Nat
         /\ Len(Types[x[1]]) \in Nat /\ DOMAIN Types[x[1]] = 1..Len(Types[x[1]])
         /\ \A n \in 1..Len(Types[x[1]]) : Types[x[1]][n] \in Message \cup Primitive
<1>1. x[1] \in Message /\ Depth[x] \in Nat
  BY ValuesAssumption
<1>2. Types[x[1]] \in Seq(Message \cup Primitive)
  BY <1>1, SchemaAssumption
<1> DEFINE s == Types[x[1]]
           T == Message \cup Primitive
<1>3. s \in Seq(T)
  BY <1>2
<1> HIDE DEF s, T
<1>4. Len(s) \in Nat /\ DOMAIN s = 1..Len(s) /\ \A n \in 1..Len(s) : s[n] \in T
  BY <1>3
<1> QED BY <1>1, <1>4 DEF s, T

\* A type that names a message is no primitive.
LEMMA MessageNames ==
  ASSUME NEW m \in Message
  PROVE  m # Strings /\ m # Bool /\ m # Double /\ m # Float /\ m # Integer
BY SchemaAssumption DEF Primitive

\* Every element fits its field.
LEMMA ItemsAreGood ==
  ASSUME NEW x \in Values
  PROVE  /\ Len(Items(x)) \in Nat
         /\ \A i \in 1..Len(Items(x)) : GoodItem(x, Items(x)[i])
<1> DEFINE N == Len(Types[x[1]])
           v == x[2]
           T == {it \in [field : 1..N, elem : UNION {{v[n].elems[j] : j \in 1..Len(v[n].elems)} : n \in 1..N}] :
                   GoodItem(x, it)}
           field(n) == IF n \in DOMAIN v
                       THEN [j \in 1..Len(v[n].elems) |-> [field |-> n, elem |-> v[n].elems[j]]]
                       ELSE <<>>
           s == [n \in 1..N |-> field(n)]
<1>1. N \in Nat
  BY SchemaFacts
<1>2. ASSUME NEW n \in 1..N PROVE field(n) \in Seq(T)
  <2>1. CASE n \notin DOMAIN v
    BY <2>1
  <2>2. CASE n \in DOMAIN v
    <3> DEFINE e == v[n].elems
               t == Types[x[1]][n]
    <3>1. n \in DOMAIN v \cap DOMAIN Types[x[1]]
      BY <2>2, SchemaFacts
    <3>2. /\ Len(e) \in Nat
          /\ \A j \in 1..Len(e) : /\ IsElement(e[j], t)
                                  /\ t \in Message => Depth[<<t, e[j]>>] < Depth[x]
      BY <3>1, ValuesAssumption
    <3>3. t \in Message \cup Primitive
      BY SchemaFacts
    <3>4. ASSUME NEW j \in 1..Len(e) PROVE [field |-> n, elem |-> e[j]] \in T
      <4> DEFINE it == [field |-> n, elem |-> e[j]]
      <4>1. it.field = n /\ it.elem = e[j] /\ FieldType(x, it) = t
        BY DEF FieldType
      <4>2. ASSUME t \in Message PROVE <<t, e[j]>> \in Values
        BY <3>2, <4>2, MessageNames DEF IsElement
      <4> HIDE DEF t, e
      <4>3. GoodItem(x, it)
        <5> HIDE DEF it
        <5> QED BY <3>2, <3>3, <4>1, <4>2 DEF GoodItem
      <4>4. it \in [field : 1..N, elem : UNION {{v[k].elems[i] : i \in 1..Len(v[k].elems)} : k \in 1..N}]
        BY DEF e
      <4> QED BY <4>3, <4>4
    <3>5. field(n) = [j \in 1..Len(e) |-> [field |-> n, elem |-> e[j]]]
      BY <2>2
    <3>6. Len(e) \in Nat
      BY <3>2
    <3> HIDE DEF T, field, e, t
    <3> QED BY <3>4, <3>5, <3>6
  <2> QED BY <2>1, <2>2
<1>3. s \in Seq(Seq(T))
  <2> HIDE DEF T, field, N
  <2> QED BY <1>1, <1>2
<1>4. Items(x) = FlattenSeq(s)
  BY DEF Items
<1> HIDE DEF T, s, N
<1>5. Items(x) \in Seq(T)
  BY <1>3, <1>4, FlatEnd
<1>6. \A it \in T : GoodItem(x, it)
  BY DEF T
<1> QED BY <1>5, <1>6

----------------------------------------------------------------------------
(* The equations of the encoder. *)

\* The i-th element of x on the wire.
Code(x, i) == EncodeValue(Items(x)[i].field, Items(x)[i].elem, FieldType(x, Items(x)[i]), Encode)

\* All of them.
Codes(x) == [i \in 1..Len(Items(x)) |-> Code(x, i)]

\* Where a sub-message has one encoding (or image), so has the element.
LEMMA ElementDepends ==
  ASSUME NEW x \in Values, NEW it, GoodItem(x, it), NEW g, NEW h,
         \A y \in Values : Depth[y] < Depth[x] => g[y] = h[y]
  PROVE  /\ EncodeValue(it.field, it.elem, FieldType(x, it), g)
              = EncodeValue(it.field, it.elem, FieldType(x, it), h)
         /\ Image(it.elem, FieldType(x, it), g) = Image(it.elem, FieldType(x, it), h)
<1> DEFINE t == FieldType(x, it)
           e == it.elem
<1>1. CASE t \in Message
  <2>1. g[<<t, e>>] = h[<<t, e>>]
    BY <1>1 DEF GoodItem
  <2>2. t # Strings /\ t # Bool /\ t # Double /\ t # Float /\ t # Integer
    BY <1>1, MessageNames
  <2> QED BY <2>1, <2>2 DEF EncodeValue, Image
<1>2. CASE t \notin Message
  <2>1. t \in Primitive
    BY <1>2 DEF GoodItem
  <2> QED BY <2>1 DEF EncodeValue, Image, Primitive
<1> QED BY <1>1, <1>2

\* encode writes its elements one behind the other.
LEMMA EncodeEquation == \A x \in Values : Encode[x] = FlattenSeq(Codes(x))
<1> DEFINE IsEncode(f) == f = [x \in Values |->
             FlattenSeq([i \in 1..Len(Items(x)) |->
               EncodeValue(Items(x)[i].field, Items(x)[i].elem, FieldType(x, Items(x)[i]), f)])]
<1>1. ASSUME NEW g, NEW h, NEW x \in Values, \A y \in Values : Depth[y] < Depth[x] => g[y] = h[y]
      PROVE  Layer("encode", 0, g, x) = Layer("encode", 0, h, x)
  <2> DEFINE c(f) == [i \in 1..Len(Items(x)) |->
                EncodeValue(Items(x)[i].field, Items(x)[i].elem, FieldType(x, Items(x)[i]), f)]
  <2>1. \A i \in 1..Len(Items(x)) :
          EncodeValue(Items(x)[i].field, Items(x)[i].elem, FieldType(x, Items(x)[i]), g)
            = EncodeValue(Items(x)[i].field, Items(x)[i].elem, FieldType(x, Items(x)[i]), h)
    BY <1>1, ItemsAreGood, ElementDepends
  <2>2. c(g) = c(h)
    BY <2>1
  <2>3. Layer("encode", 0, g, x) = FlattenSeq(c(g)) /\ Layer("encode", 0, h, x) = FlattenSeq(c(h))
    BY DEF Layer, EncodeLayer
  <2> QED BY <2>2, <2>3
<1>2. Descends("encode", 0, Values, Depth)
  BY <1>1, ValuesAssumption DEF Descends
<1>3. PICK f : Solution("encode", 0, Values, f)
  BY <1>2, Recursion
<1>4. IsEncode(f)
  BY <1>3 DEF Solution, Layer, EncodeLayer
<1>5. Encode = CHOOSE f_1 : IsEncode(f_1)
  BY DEF Encode
<1>6. IsEncode(Encode)
  <2> HIDE DEF IsEncode
  <2> QED BY <1>4, <1>5
<1> DEFINE g == Encode
<1>7. IsEncode(g)
  BY <1>6
<1> HIDE DEF g
<1>8. \A x \in Values : g[x] = FlattenSeq([i \in 1..Len(Items(x)) |->
           EncodeValue(Items(x)[i].field, Items(x)[i].elem, FieldType(x, Items(x)[i]), g)])
  BY ONLY <1>7
<1> QED BY <1>8 DEF g, Codes, Code

\* What the decoder is to make of a message, element by element.
LEMMA ElementsEquation ==
  \A x \in Values : Elements[x] =
    [i \in 1..Len(Items(x)) |->
       [field |-> Items(x)[i].field,
        val |-> Image(Items(x)[i].elem, FieldType(x, Items(x)[i]), Elements)]]
<1> DEFINE IsElements(f) == f = [x \in Values |->
             [i \in 1..Len(Items(x)) |->
                [field |-> Items(x)[i].field,
                 val |-> Image(Items(x)[i].elem, FieldType(x, Items(x)[i]), f)]]]
<1>1. ASSUME NEW g, NEW h, NEW x \in Values, \A y \in Values : Depth[y] < Depth[x] => g[y] = h[y]
      PROVE  Layer("elements", 0, g, x) = Layer("elements", 0, h, x)
  <2>1. \A i \in 1..Len(Items(x)) :
          Image(Items(x)[i].elem, FieldType(x, Items(x)[i]), g)
            = Image(Items(x)[i].elem, FieldType(x, Items(x)[i]), h)
    BY <1>1, ItemsAreGood, ElementDepends
  <2> QED BY <2>1 DEF Layer, ElementsLayer
<1>2. Descends("elements", 0, Values, Depth)
  BY <1>1, ValuesAssumption DEF Descends
<1>3. PICK f : Solution("elements", 0, Values, f)
  BY <1>2, Recursion
<1>4. IsElements(f)
  BY <1>3 DEF Solution, Layer, ElementsLayer
<1>5. Elements = CHOOSE f_1 : IsElements(f_1)
  BY DEF Elements
<1>6. IsElements(Elements)
  <2> HIDE DEF IsElements
  <2> QED BY <1>4, <1>5
<1> DEFINE g == Elements
<1>7. IsElements(g)
  BY <1>6
<1> HIDE DEF g
<1>8. \A x \in Values : g[x] =
        [i \in 1..Len(Items(x)) |->
           [field |-> Items(x)[i].field,
            val |-> Image(Items(x)[i].elem, FieldType(x, Items(x)[i]), g)]]
  BY ONLY <1>7
<1> QED BY <1>8 DEF g

----------------------------------------------------------------------------
(* One element on the wire. *)

\* The wire type of a field of type t.
Wire(t) == CASE t = Double -> WT_I64
             [] t = Float  -> WT_I32
             [] t \in {Bool, Integer} -> WT_VARINT
             [] OTHER -> WT_LEN

\* The number of its tag.
TagOf(x, it) == it.field * 8 + Wire(FieldType(x, it))

\* The string behind the tag or the length.
BodyOf(x, it) ==
  LET t == FieldType(x, it)
  IN  CASE t = Strings          -> it.elem
        [] t = Double           -> AsDouble(it.elem)
        [] t = Float            -> Narrow(AsDouble(it.elem))
        [] t \in {Bool, Integer} -> <<>>
        [] OTHER                -> Encode[<<t, it.elem>>]

\* The number behind the tag.
NumberOf(x, it) ==
  LET t == FieldType(x, it)
  IN  CASE t = Bool    -> IF it.elem THEN 1 ELSE 0
        [] t = Integer -> TwosComplement(AsInt64(it.elem))
        [] OTHER       -> Len(BodyOf(x, it))

\* The cast of the decoder undoes that of the encoder.
LEMMA CastsBack ==
  ASSUME NEW i \in Int64
  PROVE  /\ TwosComplement(i) \in Nat /\ TwosComplement(i) < Modulus
         /\ Signed(TwosComplement(i)) = i
BY ModulusAssumption DEF Int64, TwosComplement, Signed

\* What the decoder shows of a varint in a field of type t.
Shown(t, n) == IF t = Bool THEN n # 0 ELSE Signed(n)

\* Where two strings stand in a row, each stands at its place.
LEMMA AtJoin ==
  ASSUME NEW T, NEW c \in Seq(T), NEW d \in Seq(T)
  PROVE  /\ c \o d \in Seq(T) /\ Len(c \o d) = Len(c) + Len(d)
         /\ Len(c) \in Nat /\ Len(d) \in Nat
         /\ \A b : \A p \in Nat : Len(b) \in Nat /\ At(b, p, c \o d) => At(b, p, c) /\ At(b, p + Len(c), d)
<1>1. /\ c \o d \in Seq(T) /\ Len(c \o d) = Len(c) + Len(d) /\ Len(c) \in Nat /\ Len(d) \in Nat
      /\ \A i \in 1..(Len(c) + Len(d)) : (c \o d)[i] = IF i <= Len(c) THEN c[i] ELSE d[i - Len(c)]
  BY ConcatProperties
<1> DEFINE e == c \o d
<1> HIDE DEF e
<1>2. ASSUME NEW b, NEW p \in Nat, Len(b) \in Nat, At(b, p, e)
      PROVE  At(b, p, c) /\ At(b, p + Len(c), d)
  <2>1. /\ Len(e) = Len(c) + Len(d)
        /\ \A i \in 1..(Len(c) + Len(d)) : e[i] = IF i <= Len(c) THEN c[i] ELSE d[i - Len(c)]
    BY <1>1 DEF e
  <2>2. p + (Len(c) + Len(d)) <= Len(b) /\ \A i \in 1..(Len(c) + Len(d)) : b[p + i] = e[i]
    BY <1>2, <2>1 DEF At
  <2>3. \A i \in 1..Len(c) : b[p + i] = c[i]
    BY <1>1, <2>1, <2>2
  <2>4. ASSUME NEW i \in 1..Len(d) PROVE b[(p + Len(c)) + i] = d[i]
    <3>1. Len(c) + i \in 1..(Len(c) + Len(d)) /\ ~(Len(c) + i <= Len(c))
          /\ (Len(c) + i) - Len(c) = i /\ p + (Len(c) + i) = (p + Len(c)) + i
      BY <1>1
    <3>2. b[p + (Len(c) + i)] = e[Len(c) + i] /\ e[Len(c) + i] = d[(Len(c) + i) - Len(c)]
      BY <2>1, <2>2, <3>1
    <3> QED BY <3>1, <3>2
  <2>5. p + Len(c) <= Len(b) /\ (p + Len(c)) + Len(d) <= Len(b)
    BY <1>1, <1>2, <2>2
  <2> QED BY <2>3, <2>4, <2>5 DEF At
<1> QED BY <1>1, <1>2 DEF e

\* What stands in a part stands in the whole.
LEMMA AtWithin ==
  ASSUME NEW b, NEW c, NEW d, NEW p \in Nat, NEW q \in Nat, Len(b) \in Nat, Len(c) \in Nat,
         Len(d) \in Nat, At(b, p, c), At(c, q, d)
  PROVE  At(b, p + q, d)
<1>1. /\ p + Len(c) <= Len(b) /\ q + Len(d) <= Len(c)
      /\ \A i \in 1..Len(c) : b[p + i] = c[i]
      /\ \A i \in 1..Len(d) : c[q + i] = d[i]
  BY DEF At
<1>2. ASSUME NEW i \in 1..Len(d) PROVE b[(p + q) + i] = d[i]
  <2>1. q + i \in 1..Len(c) /\ p + (q + i) = (p + q) + i
    BY <1>1
  <2> QED BY <1>1, <2>1
<1>3. (p + q) + Len(d) <= Len(b)
  BY <1>1
<1> QED BY <1>2, <1>3 DEF At

\* The code of an element, part by part.
LEMMA CodeParts ==
  ASSUME NEW x \in Values, NEW it, GoodItem(x, it)
  PROVE  LET t == FieldType(x, it)
             tag == WriteVarint[TagOf(x, it)]
             number == WriteVarint[NumberOf(x, it)]
             code == EncodeValue(it.field, it.elem, t, Encode)
         IN  /\ t \in {Double, Float} => code = tag \o BodyOf(x, it)
             /\ t \in {Bool, Integer} => code = tag \o number
             /\ t \notin {Double, Float, Bool, Integer} => code = tag \o number \o BodyOf(x, it)
<1> DEFINE t == FieldType(x, it)
           tag == WriteVarint[TagOf(x, it)]
           number == WriteVarint[NumberOf(x, it)]
           code == EncodeValue(it.field, it.elem, t, Encode)
<1>1. CASE t = Double
  <2>1. Wire(t) = 1 /\ BodyOf(x, it) = AsDouble(it.elem)
    BY <1>1, Names DEF Wire, BodyOf, WT_I64
  <2>2. code = WriteTag(it.field, 1) \o AsDouble(it.elem)
    BY <1>1, Names DEF EncodeValue
  <2> QED BY <1>1, <2>1, <2>2, Names DEF WriteTag, TagOf
<1>2. CASE t = Float
  <2>1. Wire(t) = 5 /\ BodyOf(x, it) = Narrow(AsDouble(it.elem))
    BY <1>2, Names DEF Wire, BodyOf, WT_I32
  <2>2. code = WriteTag(it.field, 5) \o Narrow(AsDouble(it.elem))
    BY <1>2, Names DEF EncodeValue
  <2> QED BY <1>2, <2>1, <2>2, Names DEF WriteTag, TagOf
<1>3. CASE t = Bool
  <2>1. Wire(t) = 0 /\ NumberOf(x, it) = IF it.elem THEN 1 ELSE 0
    BY <1>3, Names DEF Wire, NumberOf, WT_VARINT
  <2>2. code = WriteTag(it.field, 0) \o WriteVarint[IF it.elem THEN 1 ELSE 0]
    BY <1>3, Names DEF EncodeValue
  <2> QED BY <1>3, <2>1, <2>2, Names DEF WriteTag, TagOf
<1>4. CASE t = Integer
  <2>1. Wire(t) = 0 /\ NumberOf(x, it) = TwosComplement(AsInt64(it.elem))
    BY <1>4, Names DEF Wire, NumberOf, WT_VARINT
  <2>2. code = WriteTag(it.field, 0) \o WriteVarint[TwosComplement(AsInt64(it.elem))]
    BY <1>4, Names DEF EncodeValue
  <2> QED BY <1>4, <2>1, <2>2, Names DEF WriteTag, TagOf
<1>5. CASE t = Strings
  <2>1. Wire(t) = 2 /\ BodyOf(x, it) = it.elem
    BY <1>5, Names DEF Wire, BodyOf, WT_LEN
  <2>2. NumberOf(x, it) = Len(it.elem)
    BY <1>5, <2>1, Names DEF NumberOf
  <2>3. code = WriteTag(it.field, 2) \o WriteVarint[Len(it.elem)] \o it.elem
    BY <1>5, Names DEF EncodeValue, Delimited
  <2> QED BY <1>5, <2>1, <2>2, <2>3, Names DEF WriteTag, TagOf
<1>6. CASE t \in Message
  <2>0. t # Strings /\ t # Bool /\ t # Double /\ t # Float /\ t # Integer
    BY <1>6, MessageNames
  <2>1. Wire(t) = 2 /\ BodyOf(x, it) = Encode[<<t, it.elem>>]
    BY <2>0 DEF Wire, BodyOf, WT_LEN
  <2>2. NumberOf(x, it) = Len(Encode[<<t, it.elem>>])
    BY <2>0, <2>1 DEF NumberOf
  <2>3. code = WriteTag(it.field, 2) \o WriteVarint[Len(Encode[<<t, it.elem>>])] \o Encode[<<t, it.elem>>]
    BY <2>0 DEF EncodeValue, Delimited
  <2> QED BY <2>0, <2>1, <2>2, <2>3 DEF WriteTag, TagOf
<1>7. t \in Message \/ t \in Primitive
  BY DEF GoodItem
<1> QED BY <1>1, <1>2, <1>3, <1>4, <1>5, <1>6, <1>7 DEF Primitive

\* The parts are byte strings and natural numbers where the sub-messages are.
LEMMA PartTypes ==
  ASSUME NEW x \in Values, NEW it, GoodItem(x, it),
         \A y \in Values : Depth[y] < Depth[x] => Encode[y] \in Seq(Byte)
  PROVE  /\ TagOf(x, it) \in Nat
         /\ BodyOf(x, it) \in Seq(Byte) /\ NumberOf(x, it) \in Nat
<1> DEFINE t == FieldType(x, it)
<1>1. TagOf(x, it) \in Nat
  <2>1. it.field \in Nat /\ Wire(t) \in Nat
    BY DEF GoodItem, Wire, WT_I64, WT_I32, WT_VARINT, WT_LEN
  <2> QED BY <2>1 DEF TagOf
<1>2. CASE t = Double \/ t = Float \/ t = Strings
  <2>1. BodyOf(x, it) \in Seq(Byte)
    <3>1. CASE t = Double
      BY <3>1, Names DEF BodyOf, GoodItem, IsElement, IsImage
    <3>2. CASE t = Float
      BY <3>2, Names DEF BodyOf, GoodItem, IsElement, IsImage
    <3>3. CASE t = Strings
      BY <3>3, Names DEF BodyOf, GoodItem, IsElement
    <3> QED BY <1>2, <3>1, <3>2, <3>3
  <2>2. NumberOf(x, it) = Len(BodyOf(x, it))
    BY <1>2, Names DEF NumberOf
  <2> QED BY <1>1, <2>1, <2>2
<1>3. CASE t = Bool \/ t = Integer
  <2>1. BodyOf(x, it) = <<>>
    BY <1>3, Names DEF BodyOf
  <2>2. CASE t = Bool
    <3>1. NumberOf(x, it) = IF it.elem THEN 1 ELSE 0
      BY <2>2, Names DEF NumberOf
    <3> QED BY <1>1, <2>1, <3>1
  <2>3. CASE t = Integer
    <3>1. NumberOf(x, it) = TwosComplement(AsInt64(it.elem)) /\ AsInt64(it.elem) \in Int64
      BY <2>3, Names DEF NumberOf, GoodItem, IsElement
    <3> QED BY <1>1, <2>1, <3>1, CastsBack
  <2> QED BY <1>3, <2>2, <2>3
<1>4. CASE t \in Message
  <2>1. t # Strings /\ t # Bool /\ t # Double /\ t # Float /\ t # Integer
    BY <1>4, MessageNames
  <2>2. BodyOf(x, it) = Encode[<<t, it.elem>>]
    BY <2>1 DEF BodyOf
  <2>3. Encode[<<t, it.elem>>] \in Seq(Byte)
    BY <1>4 DEF GoodItem
  <2>4. NumberOf(x, it) = Len(BodyOf(x, it))
    BY <2>1 DEF NumberOf
  <2> QED BY <1>1, <2>2, <2>3, <2>4
<1>5. t \in Message \/ t \in Primitive
  BY DEF GoodItem
<1> QED BY <1>2, <1>3, <1>4, <1>5 DEF Primitive

\* An element is a string of bytes, if the messages inside it are.
LEMMA CodeIsBytes ==
  ASSUME NEW x \in Values, NEW it, GoodItem(x, it),
         \A y \in Values : Depth[y] < Depth[x] => Encode[y] \in Seq(Byte)
  PROVE  EncodeValue(it.field, it.elem, FieldType(x, it), Encode) \in Seq(Byte)
<1> DEFINE t == FieldType(x, it)
           tag == WriteVarint[TagOf(x, it)]
           number == WriteVarint[NumberOf(x, it)]
           body == BodyOf(x, it)
           code == EncodeValue(it.field, it.elem, t, Encode)
<1>1. tag \in Seq(Byte) /\ number \in Seq(Byte) /\ body \in Seq(Byte)
  BY PartTypes, VarintBytes
<1>2. \/ code = tag \o body
      \/ code = tag \o number
      \/ code = (tag \o number) \o body
  BY CodeParts
<1> HIDE DEF tag, number, body, code
<1>3. \A a, b \in Seq(Byte) : a \o b \in Seq(Byte)
  OBVIOUS
<1>4. code \in Seq(Byte)
  BY <1>1, <1>2, <1>3
<1> QED BY <1>4 DEF code

----------------------------------------------------------------------------
(* A message on the wire. *)

\* So are all messages.
LEMMA EncodeIsBytes ==
  ASSUME NEW x \in Values
  PROVE  Encode[x] \in Seq(Byte) /\ Codes(x) \in Seq(Seq(Byte)) /\ Len(Codes(x)) = Len(Items(x))
<1>1. ASSUME NEW y \in Values, \A z \in Values : Depth[z] < Depth[y] => Encode[z] \in Seq(Byte)
      PROVE  /\ Encode[y] \in Seq(Byte) /\ Codes(y) \in Seq(Seq(Byte))
             /\ Len(Codes(y)) = Len(Items(y))
  <2> DEFINE n == Len(Items(y))
             S == Seq(Byte)
             c(i) == Code(y, i)
  <2>1. n \in Nat
    BY ItemsAreGood
  <2>2. \A i \in 1..n : c(i) \in S
    BY <1>1, ItemsAreGood, CodeIsBytes DEF Code
  <2>3. Codes(y) = [i \in 1..n |-> c(i)]
    BY DEF Codes
  <2> HIDE DEF n, S, c
  <2>4. Codes(y) \in Seq(S) /\ Len(Codes(y)) = n
    BY <2>1, <2>2, <2>3
  <2>5. Codes(y) \in Seq(Seq(Byte))
    BY <2>4 DEF S
  <2>6. FlattenSeq(Codes(y)) \in Seq(Byte)
    BY <2>5, FlatEnd
  <2> QED BY <2>4, <2>5, <2>6, EncodeEquation DEF n
<1> DEFINE S == {n \in Nat : \A y \in Values : Depth[y] = n => Encode[y] \in Seq(Byte)}
<1>2. \A y \in Values : Depth[y] \in Nat
  BY ValuesAssumption
<1>3. ASSUME NEW n \in Nat, \A k \in Nat : k < n => k \in S PROVE n \in S
  BY <1>1, <1>2, <1>3
<1>4. \A n \in Nat : n \in S
  <2> HIDE DEF S
  <2> QED BY <1>3, StrongInduction
<1>5. \A y \in Values : Encode[y] \in Seq(Byte)
  BY <1>2, <1>4
<1> QED BY <1>1, <1>5

\* Where the k + 1st element of x begins.
Start(x, k) == Len(FirstFlat(Codes(x), k))

\* Where an element stands in the encoding of its message.
LEMMA Placement ==
  ASSUME NEW x \in Values
  PROVE  /\ Start(x, 0) = 0 /\ Start(x, Len(Items(x))) = Len(Encode[x])
         /\ \A k \in Nat : k < Len(Items(x)) =>
              /\ At(Encode[x], Start(x, k), Code(x, k + 1))
              /\ Start(x, k) \in Nat
              /\ Start(x, k + 1) = Start(x, k) + Len(Code(x, k + 1))
<1> DEFINE s == Codes(x)
           n == Len(Items(x))
<1>1. s \in Seq(Seq(Byte)) /\ Len(s) = n /\ FlattenSeq(s) = Encode[x] /\ n \in Nat
  BY EncodeIsBytes, EncodeEquation, ItemsAreGood
<1>2. \A k \in Nat : k < n => s[k + 1] = Code(x, k + 1)
  BY <1>1 DEF Codes
<1> HIDE DEF s, n
<1>3. Len(FirstFlat(s, 0)) = 0 /\ Len(FirstFlat(s, n)) = Len(Encode[x])
  BY <1>1, FlatEnd
<1>4. ASSUME NEW k \in Nat, k < n
      PROVE  /\ At(Encode[x], Len(FirstFlat(s, k)), s[k + 1])
             /\ Len(FirstFlat(s, k)) \in Nat
             /\ Len(FirstFlat(s, k + 1)) = Len(FirstFlat(s, k)) + Len(s[k + 1])
  BY <1>1, <1>4, FlatPieces
<1> QED BY <1>2, <1>3, <1>4 DEF Start, s, n

\* The parts of an element stand one behind the other.
LEMMA ItemParts ==
  ASSUME NEW x \in Values, NEW i \in 1..Len(Items(x)), NEW b, Len(b) \in Nat,
         NEW p \in Nat, At(b, p, Code(x, i))
  PROVE  LET it == Items(x)[i]
             t == FieldType(x, it)
             tag == WriteVarint[TagOf(x, it)]
             number == WriteVarint[NumberOf(x, it)]
             body == BodyOf(x, it)
             fixed == t \in {Double, Float}
         IN  /\ At(b, p, tag)
             /\ fixed => /\ At(b, p + Len(tag), body)
                         /\ Len(Code(x, i)) = Len(tag) + Len(body)
             /\ ~fixed => /\ At(b, p + Len(tag), number)
                          /\ At(b, p + Len(tag) + Len(number), body)
                          /\ Len(Code(x, i)) = Len(tag) + Len(number) + Len(body)
<1> DEFINE it == Items(x)[i]
           t == FieldType(x, it)
           tag == WriteVarint[TagOf(x, it)]
           number == WriteVarint[NumberOf(x, it)]
           body == BodyOf(x, it)
           c == Code(x, i)
<1>1. GoodItem(x, it)
  BY ItemsAreGood
<1>2. tag \in Seq(Byte) /\ number \in Seq(Byte) /\ body \in Seq(Byte)
  BY <1>1, PartTypes, VarintBytes, EncodeIsBytes
<1>3. /\ t \in {Double, Float} => c = tag \o body
      /\ t \in {Bool, Integer} => c = tag \o number
      /\ t \notin {Double, Float, Bool, Integer} => c = (tag \o number) \o body
  BY <1>1, CodeParts DEF Code
<1>4. t \in {Bool, Integer} => body = <<>>
  BY Names DEF BodyOf
<1>5. t \in {Double, Float} => t \notin {Bool, Integer}
  BY Names
<1>6. At(b, p, c)
  OBVIOUS
<1> HIDE DEF it, t, tag, number, body, c
<1>7. CASE t \in {Double, Float}
  <2>1. At(b, p, tag \o body)
    BY <1>3, <1>6, <1>7
  <2>2. At(b, p, tag) /\ At(b, p + Len(tag), body) /\ Len(c) = Len(tag) + Len(body)
    BY <1>2, <1>3, <1>7, <2>1, AtJoin
  <2> QED BY <1>7, <2>2 DEF it, t, tag, number, body, c
<1>8. CASE t \in {Bool, Integer}
  <2>1. At(b, p, tag \o number)
    BY <1>3, <1>6, <1>8
  <2>2. At(b, p, tag) /\ At(b, p + Len(tag), number) /\ Len(c) = Len(tag) + Len(number)
        /\ Len(tag) \in Nat /\ Len(number) \in Nat
    BY <1>2, <1>3, <1>8, <2>1, AtJoin
  <2>3. Len(body) = 0
    BY <1>4, <1>8
  <2>4. At(b, p + Len(tag) + Len(number), body)
    BY <2>2, <2>3 DEF At
  <2>5. Len(c) = Len(tag) + Len(number) + Len(body)
    BY <2>2, <2>3
  <2> QED BY <1>5, <1>8, <2>2, <2>4, <2>5 DEF it, t, tag, number, body, c
<1>9. CASE t \notin {Double, Float, Bool, Integer}
  <2> DEFINE d == tag \o number
  <2>1. At(b, p, d \o body) /\ c = d \o body
    BY <1>3, <1>6, <1>9
  <2>2. d \in Seq(Byte) /\ Len(d) = Len(tag) + Len(number) /\ Len(tag) \in Nat /\ Len(number) \in Nat
    BY <1>2, AtJoin
  <2> HIDE DEF d
  <2>3. At(b, p, d) /\ At(b, p + Len(d), body) /\ Len(c) = Len(d) + Len(body)
    BY <1>2, <2>1, <2>2, AtJoin
  <2>4. At(b, p, tag) /\ At(b, p + Len(tag), number)
    BY <1>2, <2>3, AtJoin DEF d
  <2>5. At(b, p + Len(tag) + Len(number), body) /\ Len(c) = Len(tag) + Len(number) + Len(body)
    <3>1. p + Len(d) = p + Len(tag) + Len(number)
      BY <2>2
    <3> QED BY <2>2, <2>3, <3>1
  <2>6. t \notin {Double, Float}
    BY <1>9
  <2> QED BY <2>4, <2>5, <2>6 DEF it, t, tag, number, body, c
<1> QED BY <1>7, <1>8, <1>9

----------------------------------------------------------------------------
(* The widths. *)

\* A field number survives its way through the tag.
LEMMA TagReads ==
  ASSUME NEW n \in Nat, NEW w \in 0..7, 16 * n + 16 <= IntModulus
  PROVE  /\ FieldNumber(n * 8 + w) = n /\ (n * 8 + w) % 8 = w
         /\ n * 8 + w \in Nat /\ n * 8 + w < Modulus
<1>1. IntModulus \in Nat /\ Modulus \in Nat /\ IntModulus <= Modulus
  BY WireWidthsAssumption, WidthsAssumption, ModulusAssumption
<1>2. (n * 8 + w) \div 8 = n /\ (n * 8 + w) % 8 = w
  OBVIOUS
<1>3. n % IntModulus = n
  BY <1>1, ModSmall
<1>4. ~(2 * n >= IntModulus)
  BY <1>1
<1> QED BY <1>1, <1>2, <1>3, <1>4 DEF FieldNumber

\* Tags and lengths fit uint64_t, and a tag reads as what it was written for.
LEMMA Fits ==
  ASSUME NEW x \in Values, NEW i \in 1..Len(Items(x))
  PROVE  LET it == Items(x)[i]
         IN  /\ it.field \in Nat \ {0}
             /\ FieldNumber(TagOf(x, it)) = it.field /\ TagOf(x, it) % 8 = Wire(FieldType(x, it))
             /\ TagOf(x, it) \in Nat /\ TagOf(x, it) < Modulus
             /\ NumberOf(x, it) \in Nat /\ NumberOf(x, it) < Modulus
             /\ BodyOf(x, it) \in Seq(Byte)
<1> DEFINE it == Items(x)[i]
           t == FieldType(x, it)
           n == it.field
           w == Wire(t)
           len == Len(Types[x[1]])
<1>1. GoodItem(x, it)
  BY ItemsAreGood
<1>2. n \in 1..len /\ len \in Nat /\ 16 * len + 16 <= IntModulus
  BY <1>1, SchemaFacts, WireWidthsAssumption DEF GoodItem
<1>3. w \in 0..7
  BY DEF Wire, WT_I64, WT_I32, WT_VARINT, WT_LEN
<1>4. TagOf(x, it) = n * 8 + w
  BY DEF TagOf
<1>5. IntModulus \in Nat /\ Modulus \in Nat \ {0} /\ SizeModulus \in Nat /\ IntModulus <= Modulus
      /\ SizeModulus <= Modulus
  BY WireWidthsAssumption, WidthsAssumption, ModulusAssumption
<1>6. TagOf(x, it) \in Nat /\ NumberOf(x, it) \in Nat /\ BodyOf(x, it) \in Seq(Byte)
  BY <1>1, PartTypes, EncodeIsBytes
<1>7. NumberOf(x, it) < Modulus
  <2>1. CASE t = Bool
    <3>1. NumberOf(x, it) = IF it.elem THEN 1 ELSE 0
      BY <2>1, Names DEF NumberOf
    <3>2. NumberOf(x, it) <= 1
      BY <3>1
    <3> HIDE DEF len, n
    <3> QED BY <1>2, <1>5, <1>6, <3>2
  <2>2. CASE t = Integer
    <3>1. NumberOf(x, it) = TwosComplement(AsInt64(it.elem)) /\ AsInt64(it.elem) \in Int64
      BY <1>1, <2>2, Names DEF NumberOf, GoodItem, IsElement
    <3> QED BY <3>1, CastsBack
  <2>3. CASE t \notin {Bool, Integer}
    <3> DEFINE body == BodyOf(x, it)
               whole == Encode[x]
               c == Code(x, i)
               k == i - 1
    <3>1. NumberOf(x, it) = Len(body)
      BY <2>3 DEF NumberOf
    <3>2. k \in Nat /\ k < Len(Items(x)) /\ k + 1 = i
      BY ItemsAreGood
    <3>3. At(whole, Start(x, k), c) /\ Start(x, k) \in Nat
      BY <3>2, Placement
    <3>4. Len(whole) \in Nat /\ Len(whole) < SizeModulus
      BY EncodeIsBytes, SizesAssumption
    <3>5. Len(c) >= Len(body)
      <4> DEFINE a == Len(WriteVarint[TagOf(x, it)])
                 d == Len(WriteVarint[NumberOf(x, it)])
      <4>1. a \in Nat /\ d \in Nat /\ Len(body) \in Nat
        BY <1>6, VarintBytes
      <4>2. Len(c) = a + Len(body) \/ Len(c) = a + d + Len(body)
        BY <3>3, <3>4, ItemParts
      <4> HIDE DEF a, d, body, c
      <4> QED BY <4>1, <4>2
    <3>6. Len(body) \in Nat /\ Len(c) \in Nat
      <4>1. Codes(x) \in Seq(Seq(Byte)) /\ Len(Codes(x)) = Len(Items(x))
        BY EncodeIsBytes
      <4>2. Codes(x)[i] \in Seq(Byte)
        BY <4>1
      <4>3. c \in Seq(Byte)
        BY <4>2 DEF Codes
      <4> QED BY <1>6, <4>3
    <3>7. Start(x, k) + Len(c) <= Len(whole)
      BY <3>3 DEF At
    <3> HIDE DEF body, whole, c, k
    <3> QED BY <1>5, <3>1, <3>3, <3>4, <3>5, <3>6, <3>7
  <2> QED BY <2>1, <2>2, <2>3
<1>8. FieldNumber(n * 8 + w) = n /\ (n * 8 + w) % 8 = w /\ n * 8 + w < Modulus
  <2>1. n \in Nat /\ 16 * n + 16 <= IntModulus
    <3> HIDE DEF n, len
    <3> QED BY <1>2, <1>5
  <2> QED BY <1>3, <2>1, TagReads
<1> QED BY <1>2, <1>4, <1>6, <1>7, <1>8

\* No varint the encoder writes is too long for the decoder.
LEMMA GroupsFit ==
  ASSUME NEW v \in Nat, v < Modulus
  PROVE  Len(WriteVarint[v]) <= MaxGroups
<1>1. MaxGroups \in Nat \ {0} /\ Capacity[MaxGroups] \in Nat /\ Modulus \in Nat
  BY WidthsAssumption, ModulusAssumption, CapacityEquation
<1>2. Modulus <= Capacity[MaxGroups]
  BY WireWidthsAssumption
<1>3. v < Capacity[MaxGroups]
  BY <1>1, <1>2
<1> QED BY <1>1, <1>3, VarintFits

----------------------------------------------------------------------------
(* The decoder on its way. *)

\* The decoder has read the first elements of the message y.
Decoded(y, o) ==
  /\ Len(o) \in 0..Len(Items(y))
  /\ o = [i \in 1..Len(o) |-> Elements[y][i]]

\* The i-th activation decodes y: its string is what encode wrote for y.
Reads(i, y) ==
  /\ y \in Values
  /\ stack[i].msg = y[1]
  /\ At(bytes, stack[i].lo, Encode[y])
  /\ stack[i].hi = stack[i].lo + Len(Encode[y])
  /\ Decoded(y, objs[i])

\* It has called the next one for the element after those, which is z.
Calls(i, y, z) ==
  LET k == Len(objs[i])
      it == Items(y)[k + 1]
  IN  /\ k < Len(Items(y))
      /\ FieldType(y, it) \in Message /\ z = <<FieldType(y, it), it.elem>>
      /\ stack[i].field = it.field
      /\ stack[i].pos = stack[i].lo + Start(y, k + 1)

----------------------------------------------------------------------------
(* The innermost activation decodes y. *)

\* The elements it has decoded.
Count == Len(objs[Len(stack)])

\* The element it is at, and where the parts of that element begin.
Item(y) == Items(y)[Count + 1]
From(y) == Cur.lo + Start(y, Count)
TagEnd(y) == From(y) + Len(WriteVarint[TagOf(y, Item(y))])
NumberEnd(y) == TagEnd(y) + Len(WriteVarint[NumberOf(y, Item(y))])
Upto(y) == Cur.lo + Start(y, Count + 1)

Fixed64or32(t) == t \in {Double, Float}

\* What the varint behind the tag is read for.
GoalOf(t) == CASE t = Strings         -> "len"
               [] t \in {Bool, Integer} -> "value"
               [] OTHER               -> "sub_len"

\* The varint being read, or just read, is that of n, and ends behind end bytes.
Awaits(n, end) ==
  IF pc = "varint"
  THEN \E u \in Nat :
         /\ At(bytes, Cur.pos, WriteVarint[u])
         /\ Cur.pos + Len(WriteVarint[u]) = end
         /\ n = acc + weight * u
         /\ groups + Len(WriteVarint[u]) <= MaxGroups
  ELSE Cur.pos = end /\ acc = n

\* Between two elements, behind the last one, or in a varint of the next one.
Here(y) ==
  \/ pc = "loop" /\ Cur.pos = From(y)
  \/ pc = "done" /\ Count = Len(Items(y)) /\ Len(stack) = 1
  \/ /\ pc \in Goal \cup {"varint"} /\ Count < Len(Items(y))
     /\ LET g == IF pc = "varint" THEN goal ELSE pc
            t == FieldType(y, Item(y))
        IN  \/ g = "tag" /\ Awaits(TagOf(y, Item(y)), TagEnd(y))
            \/ /\ g = GoalOf(t) /\ ~Fixed64or32(t)
               /\ Cur.field = Item(y).field
               /\ Awaits(NumberOf(y, Item(y)), NumberEnd(y))

\* Each activation decodes the message at its place of the path.
Follows(path) ==
  /\ path \in Seq(Values) /\ Len(path) = Len(stack)
  /\ \A i \in 1..Len(stack) : Reads(i, path[i])
  /\ \A i \in 1..Len(stack) : i < Len(stack) => Calls(i, path[i], path[i + 1])
  /\ Here(path[Len(stack)])

\* Whatever was sent, the decoder is at some place of it.
Tracks ==
  /\ ~over
  /\ \A x \in Sent : Encode[x] = bytes => \E path : Follows(path) /\ path[1] = x

----------------------------------------------------------------------------
\* What Reads says of the innermost activation, in numbers.
LEMMA CountFacts ==
  ASSUME IInv, Linked, NEW y, Reads(Len(stack), y)
  PROVE  /\ y \in Values /\ Cur.msg = y[1] /\ At(bytes, Cur.lo, Encode[y])
         /\ Cur.hi = Cur.lo + Len(Encode[y]) /\ Len(Encode[y]) \in Nat /\ Cur.lo \in Nat
         /\ Len(bytes) \in Nat
         /\ Count \in Nat /\ Count <= Len(Items(y)) /\ Len(Items(y)) \in Nat
         /\ Decoded(y, objs[Len(stack)])
<1>1. Cur = stack[Len(stack)] /\ Cur.lo \in Nat
  BY CurIsFrame DEF IInv
<1>2. Len(bytes) \in Nat
  BY DEF IInv, Input
<1>3. y \in Values /\ Len(Encode[y]) \in Nat /\ Len(Items(y)) \in Nat
  BY EncodeIsBytes, ItemsAreGood DEF Reads
<1> QED BY <1>1, <1>2, <1>3 DEF Reads, Decoded, Count

\* The parts of the next element stand in the input, one behind the other, and in
\* the string of the activation.
LEMMA Landmarks ==
  ASSUME IInv, Linked, NEW y, Reads(Len(stack), y), Count < Len(Items(y))
  PROVE  /\ Count + 1 \in 1..Len(Items(y)) /\ GoodItem(y, Item(y))
         /\ From(y) \in Nat /\ TagEnd(y) \in Nat /\ NumberEnd(y) \in Nat /\ Upto(y) \in Nat
         /\ From(y) < TagEnd(y) /\ TagEnd(y) < NumberEnd(y) /\ Upto(y) <= Cur.hi
         /\ TagEnd(y) <= Upto(y)
         /\ At(bytes, From(y), WriteVarint[TagOf(y, Item(y))])
         /\ Fixed64or32(FieldType(y, Item(y))) =>
              /\ At(bytes, TagEnd(y), BodyOf(y, Item(y)))
              /\ Upto(y) = TagEnd(y) + Len(BodyOf(y, Item(y)))
         /\ ~Fixed64or32(FieldType(y, Item(y))) =>
              /\ At(bytes, TagEnd(y), WriteVarint[NumberOf(y, Item(y))])
              /\ At(bytes, NumberEnd(y), BodyOf(y, Item(y)))
              /\ Upto(y) = NumberEnd(y) + Len(BodyOf(y, Item(y)))
         /\ BodyOf(y, Item(y)) \in Seq(Byte)
         /\ TagOf(y, Item(y)) \in Nat /\ TagOf(y, Item(y)) < Modulus
         /\ NumberOf(y, Item(y)) \in Nat /\ NumberOf(y, Item(y)) < Modulus
<1> DEFINE k == Count
           i == k + 1
           it == Items(y)[i]
           c == Code(y, i)
           s == Start(y, k)
           whole == Encode[y]
           lo == Cur.lo
           tag == WriteVarint[TagOf(y, it)]
           number == WriteVarint[NumberOf(y, it)]
           body == BodyOf(y, it)
           fixed == Fixed64or32(FieldType(y, it))
<1>1. /\ y \in Values /\ At(bytes, lo, whole) /\ Cur.hi = lo + Len(whole)
      /\ Len(whole) \in Nat /\ lo \in Nat /\ Len(bytes) \in Nat /\ k \in Nat
      /\ k < Len(Items(y)) /\ i \in 1..Len(Items(y))
  BY CountFacts
<1>2. At(whole, s, c) /\ s \in Nat /\ Start(y, i) = s + Len(c)
  BY <1>1, Placement
<1>3. Item(y) = it /\ From(y) = lo + s /\ Upto(y) = lo + Start(y, i)
  BY DEF Item, From, Upto
<1>4. GoodItem(y, it)
  BY <1>1, ItemsAreGood
<1>5. /\ TagOf(y, it) \in Nat /\ TagOf(y, it) < Modulus
      /\ NumberOf(y, it) \in Nat /\ NumberOf(y, it) < Modulus
      /\ body \in Seq(Byte)
  BY <1>1, Fits
<1>6. Len(tag) \in Nat /\ Len(tag) >= 1 /\ Len(number) \in Nat /\ Len(number) >= 1 /\ Len(body) \in Nat
  BY <1>5, VarintBytes
<1>7. fixed => Len(c) = Len(tag) + Len(body)
  <2>1. ASSUME fixed PROVE Len(c) = Len(tag) + Len(body)
    BY <1>1, <1>2, <2>1, ItemParts DEF Fixed64or32
  <2> QED BY <2>1
<1>8. ~fixed => Len(c) = Len(tag) + Len(number) + Len(body)
  <2>1. ASSUME ~fixed PROVE Len(c) = Len(tag) + Len(number) + Len(body)
    BY <1>1, <1>2, <2>1, ItemParts DEF Fixed64or32
  <2> QED BY <2>1
<1>9. Len(c) \in Nat
  BY <1>6, <1>7, <1>8
<1>10. At(bytes, lo + s, c)
  BY <1>1, <1>2, <1>9, AtWithin
<1>11. lo + s \in Nat
  BY <1>1, <1>2
<1>12. At(bytes, lo + s, tag)
  BY <1>1, <1>10, <1>11, ItemParts
<1>13. fixed => At(bytes, lo + s + Len(tag), body)
  BY <1>1, <1>10, <1>11, ItemParts DEF Fixed64or32
<1>14. ~fixed => At(bytes, lo + s + Len(tag), number) /\ At(bytes, lo + s + Len(tag) + Len(number), body)
  BY <1>1, <1>10, <1>11, ItemParts DEF Fixed64or32
<1>15. TagEnd(y) = lo + s + Len(tag) /\ NumberEnd(y) = lo + s + Len(tag) + Len(number)
  BY <1>3 DEF TagEnd, NumberEnd
<1>16. s + Len(c) <= Len(whole)
  BY <1>2 DEF At
<1>17. Item(y) = it /\ Count + 1 = i
  BY <1>3
<1> DEFINE from == From(y)
           tagEnd == TagEnd(y)
           numberEnd == NumberEnd(y)
           upto == Upto(y)
<1>18. /\ from = lo + s /\ upto = lo + (s + Len(c))
       /\ tagEnd = lo + s + Len(tag) /\ numberEnd = lo + s + Len(tag) + Len(number)
       /\ Cur.hi = lo + Len(whole)
  BY <1>1, <1>2, <1>3, <1>15
<1> HIDE DEF from, tagEnd, numberEnd, upto, k, i, it, c, s, whole, lo, tag, number, body, fixed
<1>19. /\ from \in Nat /\ tagEnd \in Nat /\ numberEnd \in Nat /\ upto \in Nat
       /\ from < tagEnd /\ tagEnd < numberEnd /\ upto <= Cur.hi /\ tagEnd <= upto
       /\ fixed => upto = tagEnd + Len(body)
       /\ ~fixed => upto = numberEnd + Len(body)
  <2>1. tagEnd = from + Len(tag) /\ numberEnd = tagEnd + Len(number) /\ upto = from + Len(c)
    BY <1>1, <1>2, <1>6, <1>9, <1>18
  <2>2. from \in Nat
    BY <1>11, <1>18
  <2>3. Len(c) >= Len(tag)
    BY <1>6, <1>7, <1>8
  <2>4. upto <= Cur.hi
    BY <1>1, <1>2, <1>9, <1>16, <1>18
  <2>5. fixed => upto = tagEnd + Len(body)
    BY <1>6, <1>7, <2>1, <2>2
  <2>6. ~fixed => upto = numberEnd + Len(body)
    BY <1>6, <1>8, <2>1, <2>2
  <2> QED BY <1>6, <1>9, <2>1, <2>2, <2>3, <2>4, <2>5, <2>6
<1>20. /\ At(bytes, from, tag)
       /\ fixed => At(bytes, tagEnd, body)
       /\ ~fixed => At(bytes, tagEnd, number) /\ At(bytes, numberEnd, body)
  BY <1>12, <1>13, <1>14, <1>18
<1> QED BY <1>1, <1>4, <1>5, <1>17, <1>19, <1>20
        DEF from, tagEnd, numberEnd, upto, i, it, tag, number, body, fixed

----------------------------------------------------------------------------
(* A varint, byte by byte. *)

\* One byte of a varint: what is left of it is a varint, and its value adds up.
LEMMA GatherByte ==
  ASSUME NEW a \in Nat, NEW w \in Nat \ {0}, NEW u \in Nat, NEW m \in Nat \ {0}, a + w * u < m
  PROVE  /\ u < 128 => (a + (u % 128) * w) % m = a + w * u
         /\ u >= 128 => /\ (a + ((128 + (u % 128)) % 128) * w) % m \in Nat
                        /\ u \div 128 \in Nat
                        /\ a + w * u = ((a + ((128 + (u % 128)) % 128) * w) % m)
                                         + (w * 128) * (u \div 128)
<1>1. CASE u < 128
  <2>1. u % 128 = u
    BY <1>1
  <2>2. u * w = w * u /\ u * w \in Nat
    OBVIOUS
  <2> QED BY <1>1, <2>1, <2>2, ModSmall
<1>2. CASE u >= 128
  <2>1. PICK d \in Nat, r \in Nat : d = u \div 128 /\ r = u % 128 /\ r < 128 /\ u = 128 * d + r
    OBVIOUS
  <2>2. (128 + r) % 128 = r
    BY <2>1
  <2>3. w * u = (w * 128) * d + r * w /\ (w * 128) * d \in Nat /\ r * w \in Nat
    <3>1. w * (128 * d + r) = (w * 128) * d + r * w
      OBVIOUS
    <3> QED BY <2>1, <3>1
  <2>4. a + r * w \in Nat /\ a + r * w < m
    <3> DEFINE c == r * w
               e == (w * 128) * d
               f == w * u
    <3>1. c \in Nat /\ e \in Nat /\ f = e + c /\ a + f < m
      BY <2>3
    <3> HIDE DEF c, e, f
    <3>2. a + c \in Nat /\ a + c < m
      BY <3>1
    <3> QED BY <3>2 DEF c
  <2>5. (a + r * w) % m = a + r * w
    BY <2>4, ModSmall
  <2>6. a + w * u = (a + r * w) + (w * 128) * d
    BY <2>3
  <2> QED BY <1>2, <2>1, <2>2, <2>4, <2>5, <2>6
<1> QED BY <1>1, <1>2

\* The next byte of a varint that is being read, and what remains.
LEMMA AwaitStep ==
  ASSUME IInv, Linked, ReadByte, NEW n \in Nat, NEW e \in Nat, n < Modulus, Awaits(n, e)
  PROVE  Awaits(n, e)' /\ pc' \in {"varint", goal}
<1>1. /\ pc = "varint" /\ Cur.pos \in Nat /\ acc \in Nat /\ groups \in Nat
      /\ weight \in Nat \ {0} /\ goal \in Goal /\ TypeOK
  BY CurFacts DEF ReadByte
<1>2. PICK u \in Nat : /\ At(bytes, Cur.pos, WriteVarint[u])
                       /\ Cur.pos + Len(WriteVarint[u]) = e
                       /\ n = acc + weight * u
                       /\ groups + Len(WriteVarint[u]) <= MaxGroups
  BY <1>1 DEF Awaits
<1>3. Cur'.pos = Cur.pos + 1 /\ bytes' = bytes
  BY AdvanceMoves DEF ReadByte, MovesTo
<1>4. /\ acc' = (acc + (NextByte % 128) * weight) % Modulus /\ weight' = weight * 128
      /\ groups' = groups + 1
      /\ pc' = IF NextByte < 128 THEN goal ELSE IF groups' >= MaxGroups THEN "abort" ELSE "varint"
  BY DEF ReadByte, Gathered, Overflows
<1>5. Modulus \in Nat \ {0} /\ MaxGroups \in Nat
  BY WidthsAssumption, ModulusAssumption
<1>6. /\ WriteVarint[u] \in Seq(Byte) /\ Len(WriteVarint[u]) >= 1 /\ Len(WriteVarint[u]) \in Nat
  BY VarintBytes
<1>7. NextByte = WriteVarint[u][1]
  BY <1>2, <1>6 DEF At, NextByte
<1>8. CASE u < 128
  <2>1. Len(WriteVarint[u]) = 1 /\ NextByte = u
    BY <1>7, <1>8, VarintBytes
  <2>2. acc' = n
    BY <1>1, <1>2, <1>4, <1>5, <1>8, <2>1, GatherByte
  <2>3. pc' = goal
    BY <1>4, <1>8, <2>1
  <2>4. pc' # "varint"
    BY <1>1, <2>3 DEF Goal
  <2>5. Cur'.pos = e
    BY <1>2, <1>3, <2>1
  <2> QED BY <2>2, <2>3, <2>4, <2>5 DEF Awaits
<1>9. CASE u >= 128
  <2> DEFINE d == u \div 128
             rest == WriteVarint[d]
  <2>1. d \in Nat
    BY <1>9, Halves
  <2>2. /\ WriteVarint[u][1] = 128 + (u % 128) /\ Len(WriteVarint[u]) = 1 + Len(rest)
        /\ \A i \in 1..Len(rest) : WriteVarint[u][1 + i] = rest[i]
    BY <1>9, VarintBytes
  <2>3. rest \in Seq(Byte) /\ Len(rest) >= 1 /\ Len(rest) \in Nat
    BY <2>1, VarintBytes
  <2>4. NextByte = 128 + (u % 128) /\ ~(NextByte < 128)
    BY <1>7, <2>2
  <2>5. acc' \in Nat /\ n = acc' + weight' * d
    <3>1. acc + weight * u < Modulus
      BY <1>2
    <3>2. acc' = (acc + ((128 + (u % 128)) % 128) * weight) % Modulus
      BY <1>4, <2>4
    <3>3. /\ acc' \in Nat
          /\ acc + weight * u = acc' + (weight * 128) * (u \div 128)
      BY <1>1, <1>5, <1>9, <3>1, <3>2, GatherByte
    <3> QED BY <1>2, <1>4, <3>3
  <2> HIDE DEF d
  <2>6. groups' + Len(rest) <= MaxGroups /\ ~(groups' >= MaxGroups)
    <3> HIDE DEF rest
    <3> QED BY <1>1, <1>2, <1>4, <1>5, <2>2, <2>3
  <2>7. pc' = "varint"
    BY <1>4, <2>4, <2>6
  <2>8. Cur'.pos + Len(rest) = e
    <3> DEFINE p == Cur.pos
               l == Len(rest)
    <3>1. p \in Nat /\ l \in Nat /\ p + (1 + l) = e
      BY <1>1, <1>2, <2>2, <2>3
    <3> HIDE DEF p, l
    <3>2. (p + 1) + l = e
      BY <3>1
    <3> QED BY <1>3, <3>2 DEF p, l
  <2>9. At(bytes', Cur'.pos, rest)
    <3>1. Cur.pos + Len(WriteVarint[u]) <= Len(bytes)
          /\ \A i \in 1..Len(WriteVarint[u]) : bytes[Cur.pos + i] = WriteVarint[u][i]
      BY <1>2 DEF At
    <3>2. (Cur.pos + 1) + Len(rest) <= Len(bytes)
      <4>1. Len(bytes) \in Nat
        BY DEF IInv, Input
      <4> HIDE DEF rest
      <4> QED BY <1>1, <2>2, <2>3, <3>1, <4>1
    <3>3. ASSUME NEW i \in 1..Len(rest) PROVE bytes[(Cur.pos + 1) + i] = rest[i]
      <4> HIDE DEF rest
      <4>1. 1 + i \in 1..Len(WriteVarint[u]) /\ (Cur.pos + 1) + i = Cur.pos + (1 + i)
        <5> DEFINE l == Len(rest)
        <5>1. l \in Nat /\ Len(WriteVarint[u]) = 1 + l /\ i \in 1..l
          BY <2>2, <2>3
        <5> HIDE DEF l
        <5> QED BY <1>1, <5>1
      <4> QED BY <2>2, <3>1, <4>1
    <3> QED BY <1>3, <3>2, <3>3 DEF At
  <2> QED BY <2>1, <2>5, <2>6, <2>7, <2>8, <2>9 DEF Awaits, rest
<1> QED BY <1>1, <1>2, <1>8, <1>9

----------------------------------------------------------------------------
(* What a tag leads to. *)

\* The wire type tells how the decoder goes on.
LEMMA WireOf ==
  ASSUME NEW t \in Message \cup Primitive
  PROVE  /\ Wire(t) \in {WT_VARINT, WT_I64, WT_LEN, WT_I32}
         /\ Wire(t) = WT_VARINT <=> t \in {Bool, Integer}
         /\ Wire(t) = WT_I64 <=> t = Double
         /\ Wire(t) = WT_I32 <=> t = Float
         /\ Wire(t) = WT_LEN <=> t = Strings \/ t \in Message
         /\ t \in Message => t \notin Primitive
<1>1. t \in Message => t \notin Primitive
  BY MessageNames DEF Primitive
<1>2. CASE t \in Message
  BY <1>1, <1>2 DEF Wire, Primitive, WT_VARINT, WT_I64, WT_LEN, WT_I32
<1>3. CASE t = Strings
  BY <1>1, <1>3, Names DEF Wire, Primitive, WT_VARINT, WT_I64, WT_LEN, WT_I32
<1>4. CASE t = Bool
  BY <1>1, <1>4, Names DEF Wire, Primitive, WT_VARINT, WT_I64, WT_LEN, WT_I32
<1>5. CASE t = Integer
  BY <1>1, <1>5, Names DEF Wire, Primitive, WT_VARINT, WT_I64, WT_LEN, WT_I32
<1>6. CASE t = Double
  BY <1>1, <1>6, Names DEF Wire, Primitive, WT_VARINT, WT_I64, WT_LEN, WT_I32
<1>7. CASE t = Float
  BY <1>1, <1>7, Names DEF Wire, Primitive, WT_VARINT, WT_I64, WT_LEN, WT_I32
<1> QED BY <1>2, <1>3, <1>4, <1>5, <1>6, <1>7 DEF Primitive

\* Behind the tag of an element the decoder knows its field and how to read it.
LEMMA TagKnown ==
  ASSUME IInv, Linked, NEW y, Reads(Len(stack), y), Count < Len(Items(y)),
         acc = TagOf(y, Item(y))
  PROVE  LET t == FieldType(y, Item(y))
         IN  /\ Number = Item(y).field /\ WireType = Wire(t) /\ Decodes
             /\ t \in Message \cup Primitive
             /\ Type = t /\ (t \in Primitive <=> t \notin Message)
<1> DEFINE it == Item(y)
           t == FieldType(y, it)
           i == Count + 1
<1>1. y \in Values /\ Cur.msg = y[1]
  BY CountFacts
<1>2. GoodItem(y, it) /\ i \in 1..Len(Items(y)) /\ it = Items(y)[i]
  BY Landmarks DEF Item
<1>3. FieldNumber(TagOf(y, it)) = it.field /\ TagOf(y, it) % 8 = Wire(t)
  BY <1>1, <1>2, Fits
<1>4. Number = it.field /\ WireType = Wire(t)
  BY <1>3 DEF Number, WireType
<1>5. it.field \in 1..Len(Types[y[1]]) /\ t \in Message \cup Primitive
      /\ t = Types[y[1]][it.field]
  BY <1>2 DEF GoodItem, FieldType
<1>6. it.field \in DOMAIN Types[y[1]]
  BY <1>1, <1>5, SchemaFacts
<1>7. Known /\ Type = t
  BY <1>1, <1>4, <1>5, <1>6 DEF Known, Type
<1> HIDE DEF it, t, i
<1>8. t \in Primitive <=> t \notin Message
  BY <1>5, WireOf
<1>9. Decodes
  <2>1. t \in Message => WireType = WT_LEN
    BY <1>4, <1>5, WireOf
  <2>2. WireType \in {WT_VARINT, WT_I64, WT_LEN, WT_I32}
    BY <1>4, <1>5, WireOf
  <2> QED BY <1>7, <1>8, <2>1, <2>2 DEF Decodes
<1> QED BY <1>4, <1>5, <1>7, <1>8, <1>9 DEF it, t

\* The i-th activation stays where it is, and so does its result.
LEMMA ReadsOn ==
  ASSUME NEW i, NEW z, Reads(i, z), bytes' = bytes, stack'[i] = stack[i], objs'[i] = objs[i]
  PROVE  Reads(i, z)'
BY DEF Reads, Decoded

\* An activation goes on waiting for the one it called.
LEMMA CallsOn ==
  ASSUME NEW i, NEW y, NEW z, Calls(i, y, z), stack'[i] = stack[i], objs'[i] = objs[i]
  PROVE  Calls(i, y, z)'
BY DEF Calls

\* A step of the innermost activation keeps to the path.
LEMMA StayOn ==
  ASSUME IInv, Linked, NEW path, Follows(path), NEW q, MovesTo(q), bytes' = bytes,
         \A i \in 1..Len(stack) : i < Len(stack) => objs'[i] = objs[i],
         Decoded(path[Len(stack)], objs'[Len(stack)]),
         Here(path[Len(stack)])'
  PROVE  Follows(path)'
<1> DEFINE n == Len(stack)
<1>1. /\ n \in Nat \ {0} /\ Cur = stack[n] /\ Len(stack') = n /\ Cur' = stack'[n]
      /\ \A i \in 1..n : i < n => stack'[i] = stack[i]
      /\ Cur'.lo = Cur.lo /\ Cur'.hi = Cur.hi /\ Cur'.msg = Cur.msg
  BY LinkedFacts DEF MovesTo
<1>2. /\ path \in Seq(Values) /\ Len(path) = n
      /\ \A i \in 1..n : Reads(i, path[i])
      /\ \A i \in 1..n : i < n => Calls(i, path[i], path[i + 1])
  BY DEF Follows
<1>4. ASSUME NEW i \in 1..n PROVE Reads(i, path[i])'
  <2>1. CASE i < n
    <3>1. Reads(i, path[i]) /\ stack'[i] = stack[i] /\ objs'[i] = objs[i]
      BY <1>1, <1>2, <2>1
    <3> QED BY <3>1, ReadsOn
  <2>2. CASE i = n
    <3>1. Reads(i, path[i]) /\ Decoded(path[i], objs'[i])
      BY <1>2, <2>2
    <3>2. stack'[i].lo = stack[i].lo /\ stack'[i].hi = stack[i].hi /\ stack'[i].msg = stack[i].msg
      BY <1>1, <2>2
    <3> QED BY <3>1, <3>2 DEF Reads
  <2> QED BY <1>1, <2>1, <2>2
<1>5. ASSUME NEW i \in 1..n, i < n PROVE Calls(i, path[i], path[i + 1])'
  <2>1. Calls(i, path[i], path[i + 1]) /\ stack'[i] = stack[i] /\ objs'[i] = objs[i]
    BY <1>1, <1>2, <1>5
  <2> QED BY <2>1, CallsOn
<1> QED BY <1>1, <1>2, <1>4, <1>5 DEF Follows

\* The next element joins the result.
LEMMA DecodedOn ==
  ASSUME NEW y \in Values, NEW o, Decoded(y, o), IsList(o), Len(o) < Len(Items(y)), NEW v,
         v = Image(Items(y)[Len(o) + 1].elem, FieldType(y, Items(y)[Len(o) + 1]), Elements)
  PROVE  LET e == [field |-> Items(y)[Len(o) + 1].field, val |-> v]
         IN  Decoded(y, Append(o, e)) /\ Len(Append(o, e)) = Len(o) + 1
<1> DEFINE k == Len(o)
           e == [field |-> Items(y)[k + 1].field, val |-> v]
           a == Append(o, e)
           full == Elements[y]
           n == Len(Items(y))
<1>1. k \in Nat /\ n \in Nat /\ k + 1 \in 1..n
  BY ItemsAreGood DEF Decoded
<1>2. full[k + 1] = e
  BY <1>1, ElementsEquation
<1>3. /\ IsList(a) /\ Len(a) = k + 1 /\ DOMAIN a = 1..(k + 1)
      /\ \A i \in 1..k : a[i] = o[i]
      /\ a[k + 1] = e
  BY AppendList
<1>4. o = [i \in 1..k |-> full[i]]
  BY DEF Decoded
<1> HIDE DEF k, e, a, full, n
<1>5. \A i \in 1..(k + 1) : a[i] = full[i]
  <2>1. ASSUME NEW i \in 1..(k + 1) PROVE a[i] = full[i]
    <3>1. i \in 1..k \/ i = k + 1
      BY <1>1
    <3> QED BY <1>2, <1>3, <1>4, <3>1
  <2> QED BY <2>1
<1>6. a = [i \in 1..(k + 1) |-> full[i]]
  <2>1. a = [i \in DOMAIN a |-> a[i]]
    <3>1. PICK S : a \in Seq(S)
      BY <1>3 DEF IsList
    <3> QED BY <3>1
  <2> QED BY <1>3, <1>5, <2>1
<1>7. Len(a) = k + 1 /\ k + 1 \in 0..n
  BY <1>1, <1>3
<1>8. Decoded(y, a)
  BY <1>6, <1>7 DEF Decoded, full, n
<1> QED BY <1>7, <1>8 DEF a, e, k

----------------------------------------------------------------------------
(* The steps. *)

\* The innermost activation is one of the path.
LEMMA TopFacts ==
  ASSUME IInv, Linked, NEW path, Follows(path)
  PROVE  /\ Reads(Len(stack), path[Len(stack)]) /\ Here(path[Len(stack)])
         /\ Len(stack) \in Nat \ {0} /\ Len(stack) \in 1..Len(stack)
         /\ path[Len(stack)] \in Values
<1>1. Len(stack) \in Nat \ {0} /\ Len(stack) \in 1..Len(stack)
  BY LinkedFacts
<1> QED BY <1>1 DEF Follows, Reads

\* Between two elements the decoder looks for another one as long as there is one.
LEMMA MoreToCome ==
  ASSUME IInv, Linked, NEW y, Reads(Len(stack), y), Cur.pos = From(y)
  PROVE  InString <=> Count < Len(Items(y))
<1>1. /\ y \in Values /\ Cur.hi = Cur.lo + Len(Encode[y]) /\ Len(Encode[y]) \in Nat
      /\ Cur.lo \in Nat /\ Count \in Nat /\ Count <= Len(Items(y)) /\ Len(Items(y)) \in Nat
  BY CountFacts
<1>2. CASE Count < Len(Items(y))
  <2>1. /\ From(y) \in Nat /\ TagEnd(y) \in Nat /\ Upto(y) \in Nat /\ From(y) < TagEnd(y)
        /\ TagEnd(y) <= Upto(y) /\ Upto(y) <= Cur.hi
    BY <1>2, Landmarks
  <2>2. Cur.hi \in Nat
    BY <1>1
  <2> QED BY <1>2, <2>1, <2>2 DEF InString
<1>3. CASE Count = Len(Items(y))
  <2>1. Start(y, Count) = Len(Encode[y])
    BY <1>1, <1>3, Placement
  <2>2. Cur.pos = Cur.hi
    BY <1>1, <2>1 DEF From
  <2> QED BY <1>1, <1>3, <2>2 DEF InString
<1> QED BY <1>1, <1>2, <1>3

\* As long as no element is added, the parts of the next one stay where they are.
LEMMA SameMarks ==
  ASSUME NEW y, NEW q, MovesTo(q), objs'[Len(stack)] = objs[Len(stack)]
  PROVE  /\ Count' = Count /\ Item(y)' = Item(y) /\ From(y)' = From(y)
         /\ TagEnd(y)' = TagEnd(y) /\ NumberEnd(y)' = NumberEnd(y)
<1>1. Count' = Count /\ Cur'.lo = Cur.lo
  BY DEF Count, MovesTo
<1>2. Item(y)' = Item(y) /\ From(y)' = From(y)
  BY <1>1 DEF Item, From
<1>3. TagEnd(y)' = TagEnd(y)
  BY <1>2 DEF TagEnd
<1> QED BY <1>1, <1>2, <1>3 DEF NumberEnd

\* A varint whose first byte is the next one.
LEMMA AwaitBegin ==
  ASSUME NEW v \in Nat, v < Modulus, At(bytes, Cur.pos, WriteVarint[v]),
         bytes' = bytes, Cur'.pos = Cur.pos, NEW e, e = Cur.pos + Len(WriteVarint[v]),
         pc' = "varint", acc' = 0, groups' = 0, weight' = 1
  PROVE  Awaits(v, e)'
<1>1. v = acc' + weight' * v
  OBVIOUS
<1>2. groups' + Len(WriteVarint[v]) <= MaxGroups
  <2>1. Len(WriteVarint[v]) \in Nat /\ Len(WriteVarint[v]) <= MaxGroups
    BY VarintBytes, GroupsFit
  <2> QED BY <2>1
<1>3. At(bytes', Cur'.pos, WriteVarint[v]) /\ Cur'.pos + Len(WriteVarint[v]) = e
  OBVIOUS
<1> QED BY <1>1, <1>2, <1>3 DEF Awaits

\* The loop goes on to the tag of the next element.
LEMMA NextFieldFollows ==
  ASSUME IInv, Linked, NEW path, Follows(path), NextField
  PROVE  Follows(path)'
<1> DEFINE n == Len(stack)
<1>1. PICK y : y = path[n] /\ Reads(n, y) /\ Here(y) /\ y \in Values
  BY TopFacts
<1>2. /\ pc = "loop" /\ InString /\ pc' = "varint" /\ goal' = "tag" /\ acc' = 0 /\ groups' = 0
      /\ weight' = 1 /\ bytes' = bytes /\ stack' = stack /\ objs' = objs
  BY DEF NextField, StartVarint
<1>3. Cur.pos = From(y)
  BY <1>1, <1>2 DEF Here, Goal
<1>4. Count < Len(Items(y))
  BY <1>1, <1>2, <1>3, MoreToCome
<1>5. MovesTo(Cur.pos)
  BY <1>2, StayMoves
<1>6. /\ Count' = Count /\ Item(y)' = Item(y) /\ TagEnd(y)' = TagEnd(y) /\ Cur'.pos = Cur.pos
  BY <1>2, <1>5, SameMarks DEF MovesTo
<1>7. /\ At(bytes, From(y), WriteVarint[TagOf(y, Item(y))])
      /\ TagOf(y, Item(y)) \in Nat /\ TagOf(y, Item(y)) < Modulus
  BY <1>1, <1>4, Landmarks
<1>8. TagEnd(y) = Cur.pos + Len(WriteVarint[TagOf(y, Item(y))])
  BY <1>3 DEF TagEnd
<1>9. Awaits(TagOf(y, Item(y)), TagEnd(y))'
  <2>1. PICK v, e : v \in Nat /\ v = TagOf(y, Item(y)) /\ e = TagEnd(y)
    BY <1>7
  <2>2. Awaits(v, e)'
    BY <1>2, <1>3, <1>6, <1>7, <1>8, <2>1, AwaitBegin
  <2> QED BY <1>6, <2>1, <2>2 DEF Awaits
<1>10. Here(y)'
  BY <1>2, <1>4, <1>6, <1>9 DEF Here, Goal
<1>11. Decoded(y, objs'[n]) /\ \A i \in 1..Len(stack) : i < Len(stack) => objs'[i] = objs[i]
  BY <1>1, <1>2 DEF Reads
<1>12. Here(path[Len(stack)])'
  BY <1>1, <1>2, <1>10
<1> QED BY <1>1, <1>2, <1>5, <1>11, <1>12, StayOn

\* decode returns behind the last element.
LEMMA DoneFollows ==
  ASSUME IInv, Linked, NEW path, Follows(path), Done
  PROVE  Follows(path)'
<1> DEFINE n == Len(stack)
<1>1. PICK y : y = path[n] /\ Reads(n, y) /\ Here(y) /\ y \in Values
  BY TopFacts
<1>2. /\ pc = "loop" /\ ~InString /\ n = 1 /\ pc' = "done"
      /\ bytes' = bytes /\ stack' = stack /\ objs' = objs
  BY DEF Done
<1>3. Cur.pos = From(y)
  BY <1>1, <1>2 DEF Here, Goal
<1>4. Count = Len(Items(y))
  <2>1. Count \in Nat /\ Count <= Len(Items(y)) /\ Len(Items(y)) \in Nat
    BY <1>1, CountFacts
  <2>2. ~(Count < Len(Items(y)))
    BY <1>1, <1>2, <1>3, MoreToCome
  <2> QED BY <2>1, <2>2
<1>5. MovesTo(Cur.pos)
  BY <1>2, StayMoves
<1>6. Count' = Count
  BY <1>2, <1>5, SameMarks
<1>7. Here(y)'
  BY <1>2, <1>4, <1>6 DEF Here
<1>8. Decoded(y, objs'[n]) /\ \A i \in 1..Len(stack) : i < Len(stack) => objs'[i] = objs[i]
  BY <1>1, <1>2 DEF Reads
<1>9. Here(path[Len(stack)])'
  BY <1>1, <1>2, <1>7
<1> QED BY <1>1, <1>2, <1>5, <1>8, <1>9, StayOn

\* A varint that is being read ends in the string.
LEMMA VarintInside ==
  ASSUME IInv, Linked, NEW y, Reads(Len(stack), y), Here(y), pc = "varint"
  PROVE  /\ InString /\ Count < Len(Items(y))
         /\ \/ goal = "tag" /\ Awaits(TagOf(y, Item(y)), TagEnd(y))
            \/ /\ goal = GoalOf(FieldType(y, Item(y))) /\ ~Fixed64or32(FieldType(y, Item(y)))
               /\ Cur.field = Item(y).field
               /\ Awaits(NumberOf(y, Item(y)), NumberEnd(y))
<1>1. /\ Count < Len(Items(y))
      /\ \/ goal = "tag" /\ Awaits(TagOf(y, Item(y)), TagEnd(y))
         \/ /\ goal = GoalOf(FieldType(y, Item(y))) /\ ~Fixed64or32(FieldType(y, Item(y)))
            /\ Cur.field = Item(y).field
            /\ Awaits(NumberOf(y, Item(y)), NumberEnd(y))
  BY DEF Here
<1> DEFINE upto == Upto(y)
           tagEnd == TagEnd(y)
           numberEnd == NumberEnd(y)
           body == BodyOf(y, Item(y))
           fixed == Fixed64or32(FieldType(y, Item(y)))
<1>2. /\ upto \in Nat /\ tagEnd \in Nat /\ numberEnd \in Nat /\ tagEnd <= upto /\ upto <= Cur.hi
      /\ ~fixed => upto = numberEnd + Len(body)
      /\ Len(body) \in Nat /\ Cur.pos \in Nat /\ Cur.hi \in Nat
  <2>1. body \in Seq(Byte)
    BY <1>1, Landmarks
  <2> QED BY <1>1, <2>1, Landmarks, CurFacts
<1>3. ~fixed => numberEnd <= upto
  <2> HIDE DEF upto, numberEnd, body, fixed
  <2> QED BY <1>2
<1>4. PICK e, v : e \in Nat /\ Awaits(v, e) /\ e <= upto
  <2>1. CASE Awaits(TagOf(y, Item(y)), tagEnd)
    BY <1>2, <2>1
  <2>2. CASE ~fixed /\ Awaits(NumberOf(y, Item(y)), numberEnd)
    BY <1>2, <1>3, <2>2
  <2> QED BY <1>1, <2>1, <2>2
<1>5. PICK u \in Nat : Cur.pos + Len(WriteVarint[u]) = e
  BY <1>4 DEF Awaits
<1>6. Len(WriteVarint[u]) >= 1 /\ Len(WriteVarint[u]) \in Nat
  BY VarintBytes
<1> HIDE DEF upto
<1>7. Cur.pos < Cur.hi
  <2> DEFINE l == Len(WriteVarint[u])
  <2>1. l \in Nat /\ l >= 1 /\ Cur.pos + l = e
    BY <1>5, <1>6
  <2> HIDE DEF l
  <2> QED BY <1>2, <1>4, <2>1
<1> QED BY <1>1, <1>7 DEF InString

\* A byte of a tag, a number or a length.
LEMMA ReadByteFollows ==
  ASSUME IInv, Linked, NEW path, Follows(path), ReadByte
  PROVE  Follows(path)'
<1> DEFINE n == Len(stack)
<1>1. PICK y : y = path[n] /\ Reads(n, y) /\ Here(y) /\ y \in Values
  BY TopFacts
<1>2. /\ pc = "varint" /\ bytes' = bytes /\ objs' = objs /\ goal' = goal
  BY DEF ReadByte
<1>3. MovesTo(Cur.pos + 1) /\ Cur'.field = Cur.field
  BY AdvanceMoves DEF ReadByte
<1>4. /\ Count' = Count /\ Item(y)' = Item(y) /\ TagEnd(y)' = TagEnd(y)
      /\ NumberEnd(y)' = NumberEnd(y)
  BY <1>2, <1>3, SameMarks
<1>5. /\ Count < Len(Items(y))
      /\ \/ goal = "tag" /\ Awaits(TagOf(y, Item(y)), TagEnd(y))
         \/ /\ goal = GoalOf(FieldType(y, Item(y))) /\ ~Fixed64or32(FieldType(y, Item(y)))
            /\ Cur.field = Item(y).field
            /\ Awaits(NumberOf(y, Item(y)), NumberEnd(y))
  BY <1>1, <1>2, VarintInside
<1>6. PICK tag \in Nat, number \in Nat, te \in Nat, ne \in Nat :
        /\ tag = TagOf(y, Item(y)) /\ number = NumberOf(y, Item(y)) /\ tag < Modulus /\ number < Modulus
        /\ te = TagEnd(y) /\ ne = NumberEnd(y)
  BY <1>1, <1>5, Landmarks
<1>7. goal \in Goal
  BY CurFacts
<1>8. ASSUME goal = "tag", Awaits(tag, te) PROVE Here(y)'
  <2>1. Awaits(tag, te)' /\ pc' \in {"varint", goal}
    BY <1>6, <1>8, AwaitStep
  <2>2. Awaits(TagOf(y, Item(y)), TagEnd(y))'
    BY <1>4, <1>6, <2>1 DEF Awaits
  <2>3. pc' \in Goal \cup {"varint"} /\ Count' < Len(Items(y))
    BY <1>4, <1>5, <1>7, <2>1
  <2>4. (IF pc' = "varint" THEN goal' ELSE pc') = "tag"
    BY <1>2, <1>8, <2>1
  <2> QED BY <2>2, <2>3, <2>4 DEF Here
<1>9. ASSUME goal = GoalOf(FieldType(y, Item(y))), ~Fixed64or32(FieldType(y, Item(y))),
             Cur.field = Item(y).field, Awaits(number, ne)
      PROVE  Here(y)'
  <2>1. Awaits(number, ne)' /\ pc' \in {"varint", goal}
    BY <1>6, <1>9, AwaitStep
  <2>2. Awaits(NumberOf(y, Item(y)), NumberEnd(y))'
    BY <1>4, <1>6, <2>1 DEF Awaits
  <2>3. pc' \in Goal \cup {"varint"} /\ Count' < Len(Items(y))
    BY <1>4, <1>5, <1>7, <2>1
  <2>4. (IF pc' = "varint" THEN goal' ELSE pc') = GoalOf(FieldType(y, Item(y)))
    BY <1>2, <1>9, <2>1
  <2>5. Cur'.field = Item(y).field
    BY <1>3, <1>9
  <2> QED BY <1>4, <1>9, <2>2, <2>3, <2>4, <2>5 DEF Here
<1>10. Here(y)'
  BY <1>5, <1>6, <1>8, <1>9
<1>11. Decoded(y, objs'[n]) /\ \A i \in 1..Len(stack) : i < Len(stack) => objs'[i] = objs[i]
  BY <1>1, <1>2 DEF Reads
<1>12. Here(path[Len(stack)])'
  <2>1. Len(stack') = Len(stack)
    BY <1>3 DEF MovesTo
  <2> QED BY <1>1, <1>10, <2>1
<1> QED BY <1>1, <1>2, <1>3, <1>11, <1>12, StayOn

\* Behind a tag.
LEMMA BehindTag ==
  ASSUME IInv, Linked, NEW y, Reads(Len(stack), y), Here(y), pc = "tag"
  PROVE  /\ Count < Len(Items(y)) /\ acc = TagOf(y, Item(y)) /\ Cur.pos = TagEnd(y)
<1>1. /\ Count < Len(Items(y))
      /\ \/ Awaits(TagOf(y, Item(y)), TagEnd(y))
         \/ "tag" = GoalOf(FieldType(y, Item(y)))
  BY DEF Here
<1>2. "tag" # GoalOf(FieldType(y, Item(y)))
  BY DEF GoalOf
<1> QED BY <1>1, <1>2 DEF Awaits

\* Behind the number of an element that has one.
LEMMA BehindNumber ==
  ASSUME IInv, Linked, NEW y, Reads(Len(stack), y), Here(y), pc \in Goal, pc # "tag"
  PROVE  /\ Count < Len(Items(y)) /\ pc = GoalOf(FieldType(y, Item(y)))
         /\ ~Fixed64or32(FieldType(y, Item(y))) /\ Cur.field = Item(y).field
         /\ acc = NumberOf(y, Item(y)) /\ Cur.pos = NumberEnd(y)
BY DEF Here, Goal, Awaits

\* The varint behind the tag of a field.
LEMMA BeginFollows ==
  ASSUME IInv, Linked, NEW path, Follows(path), pc = "tag", NEW g, BeginValue(g),
         g = GoalOf(FieldType(path[Len(stack)], Item(path[Len(stack)]))),
         ~Fixed64or32(FieldType(path[Len(stack)], Item(path[Len(stack)])))
  PROVE  Follows(path)'
<1> DEFINE n == Len(stack)
<1>1. PICK y : y = path[n] /\ Reads(n, y) /\ Here(y) /\ y \in Values
  BY TopFacts
<1>2. /\ Count < Len(Items(y)) /\ acc = TagOf(y, Item(y)) /\ Cur.pos = TagEnd(y)
  BY <1>1, BehindTag
<1>3. /\ pc' = "varint" /\ goal' = g /\ acc' = 0 /\ groups' = 0 /\ weight' = 1
      /\ stack' = [stack EXCEPT ![Len(stack)].field = Number]
      /\ bytes' = bytes /\ objs' = objs
  BY DEF BeginValue
<1>4. MovesTo(Cur.pos) /\ Cur'.field = Number /\ Cur'.pos = Cur.pos
  <2>1. Number \in Int /\ Cur.pos \in Nat /\ Cur.pos <= Cur.pos /\ TypeOK
    BY CurFacts, FieldNumberIsInt DEF Number
  <2>2. stack' = [stack EXCEPT ![Len(stack)].pos = Cur.pos, ![Len(stack)].field = Number]
    BY <1>3, <2>1, NoteIsMove
  <2> QED BY <2>1, <2>2, ExceptMoves DEF MovesTo
<1>5. Number = Item(y).field
  BY <1>1, <1>2, TagKnown
<1>6. /\ Count' = Count /\ Item(y)' = Item(y) /\ NumberEnd(y)' = NumberEnd(y)
  BY <1>3, <1>4, SameMarks
<1>7. /\ At(bytes, TagEnd(y), WriteVarint[NumberOf(y, Item(y))])
      /\ NumberOf(y, Item(y)) \in Nat /\ NumberOf(y, Item(y)) < Modulus
  BY <1>1, <1>2, Landmarks
<1>8. NumberEnd(y) = Cur.pos + Len(WriteVarint[NumberOf(y, Item(y))])
  BY <1>2 DEF NumberEnd
<1>9. Awaits(NumberOf(y, Item(y)), NumberEnd(y))'
  <2>1. PICK v, e : v \in Nat /\ v = NumberOf(y, Item(y)) /\ e = NumberEnd(y)
    BY <1>7
  <2>2. Awaits(v, e)'
    BY <1>2, <1>3, <1>4, <1>7, <1>8, <2>1, AwaitBegin
  <2> QED BY <1>6, <2>1, <2>2 DEF Awaits
<1>10. Here(y)'
  BY <1>1, <1>2, <1>3, <1>4, <1>5, <1>6, <1>9 DEF Here
<1>11. Decoded(y, objs'[n]) /\ \A i \in 1..Len(stack) : i < Len(stack) => objs'[i] = objs[i]
  BY <1>1, <1>3 DEF Reads
<1>12. Here(path[Len(stack)])'
  <2>1. Len(stack') = Len(stack)
    BY <1>4 DEF MovesTo
  <2> QED BY <1>1, <1>10, <2>1
<1> QED BY <1>1, <1>3, <1>4, <1>11, <1>12, StayOn

\* The string that stands at a place is the slice there.
LEMMA SliceIs ==
  ASSUME NEW s \in Seq(Byte), NEW c \in Seq(Byte), NEW p \in Nat, At(s, p, c)
  PROVE  SubSeq(s, p + 1, p + Len(c)) = c
<1> DEFINE l == Len(c)
           d == SubSeq(s, p + 1, p + l)
<1>1. l \in Nat /\ p + l <= Len(s) /\ Len(s) \in Nat /\ \A i \in 1..l : s[p + i] = c[i]
  BY DEF At
<1> HIDE DEF l
<1>2. d \in Seq(Byte) /\ Len(d) = l /\ \A i \in 1..l : d[i] = s[p + i]
  <2>1. \A i \in (p + 1)..(p + l) : s[i] \in Byte
    BY <1>1
  <2>2. /\ d \in Seq(Byte) /\ Len(d) = (IF p + 1 <= p + l THEN (p + l) - (p + 1) + 1 ELSE 0)
        /\ \A i \in 1..((p + l) - (p + 1) + 1) : d[i] = s[(p + 1) + i - 1]
    <3>1. p + 1 \in Int /\ p + l \in Int
      BY <1>1
    <3> QED BY <2>1, <3>1, SubSeqProperties
  <2> HIDE DEF d
  <2>3. (p + l) - (p + 1) + 1 = l /\ \A i \in 1..l : (p + 1) + i - 1 = p + i
    BY <1>1
  <2> QED BY <1>1, <2>2, <2>3
<1>3. Len(c) = l /\ \A i \in 1..l : d[i] = c[i]
  BY <1>1, <1>2 DEF l
<1> HIDE DEF d
<1>4. d = c
  BY <1>1, <1>2, <1>3
<1> QED BY <1>4 DEF d, l

\* The value of the next element joins the result, and the activation stands
\* behind the element.
LEMMA JoinFollows ==
  ASSUME IInv, Linked, NEW path, Follows(path), NEW y, y = path[Len(stack)],
         Count < Len(Items(y)), MovesTo(Upto(y)), pc' = "loop", bytes' = bytes, NEW v,
         v = Image(Item(y).elem, FieldType(y, Item(y)), Elements),
         objs' = Joined(objs, Len(objs), [field |-> Item(y).field, val |-> v])
  PROVE  Follows(path)'
<1> DEFINE n == Len(stack)
           o == objs[n]
           e == [field |-> Item(y).field, val |-> v]
<1>1. /\ Reads(n, y) /\ y \in Values /\ n \in Nat \ {0} /\ Len(objs) = n /\ IsList(objs)
      /\ IsList(o) /\ n \in 1..n
  BY TopFacts, LinkedFacts
<1>2. Decoded(y, o) /\ Count = Len(o) /\ Item(y) = Items(y)[Len(o) + 1]
  BY <1>1 DEF Reads, Count, Item
<1>3. Decoded(y, Append(o, e)) /\ Len(Append(o, e)) = Len(o) + 1
  BY <1>1, <1>2, DecodedOn
<1> HIDE DEF e
<1>4. /\ \A i \in 1..n : i < n => objs'[i] = objs[i]
      /\ objs'[n] = Append(o, e)
  <2>1. objs' = Joined(objs, n, e)
    BY <1>1 DEF e
  <2> QED BY <1>1, <2>1, JoinList
<1>5. Len(stack') = n /\ Cur'.lo = Cur.lo /\ Cur'.pos = Upto(y)
  BY DEF MovesTo
<1>6. Count' = Count + 1
  BY <1>2, <1>3, <1>4, <1>5 DEF Count
<1>7. From(y)' = Upto(y)
  BY <1>5, <1>6 DEF From, Upto
<1>8. Here(y)'
  BY <1>5, <1>7 DEF Here
<1>9. Here(path[Len(stack)])'
  BY <1>5, <1>8
<1>10. Decoded(path[n], objs'[n])
  BY <1>3, <1>4
<1> QED BY <1>4, <1>9, <1>10, StayOn

\* A field with a varint behind its tag.
LEMMA TagFollows ==
  ASSUME IInv, Linked, NEW path, Follows(path), Scalar \/ Text \/ SubMessage
  PROVE  Follows(path)'
<1> DEFINE n == Len(stack)
<1>1. PICK y : y = path[n] /\ Reads(n, y) /\ Here(y) /\ y \in Values
  BY TopFacts
<1>2. pc = "tag"
  BY DEF Scalar, Text, SubMessage
<1>3. Count < Len(Items(y)) /\ acc = TagOf(y, Item(y))
  BY <1>1, <1>2, BehindTag
<1> DEFINE t == FieldType(y, Item(y))
<1>4. /\ WireType = Wire(t) /\ t \in Message \cup Primitive
      /\ Type = t /\ (t \in Primitive <=> t \notin Message)
  BY <1>1, <1>3, TagKnown
<1> HIDE DEF t
<1>5. CASE Scalar
  <2>1. t \in {Bool, Integer}
    BY <1>4, <1>5, WireOf DEF Scalar
  <2>2. GoalOf(t) = "value" /\ ~Fixed64or32(t)
    BY <2>1, Names DEF GoalOf, Fixed64or32
  <2>3. BeginValue("value")
    BY <1>5 DEF Scalar
  <2> QED BY <1>1, <1>2, <2>2, <2>3, BeginFollows DEF t
<1>6. CASE Text
  <2>1. t = Strings
    BY <1>4, <1>6, WireOf DEF Text
  <2>2. GoalOf(t) = "len" /\ ~Fixed64or32(t)
    BY <2>1, Names DEF GoalOf, Fixed64or32
  <2>3. BeginValue("len")
    BY <1>6 DEF Text
  <2> QED BY <1>1, <1>2, <2>2, <2>3, BeginFollows DEF t
<1>7. CASE SubMessage
  <2>1. t \in Message
    BY <1>4, <1>7 DEF SubMessage
  <2>2. GoalOf(t) = "sub_len" /\ ~Fixed64or32(t)
    BY <2>1, MessageNames DEF GoalOf, Fixed64or32
  <2>3. BeginValue("sub_len")
    BY <1>7 DEF SubMessage
  <2> QED BY <1>1, <1>2, <2>2, <2>3, BeginFollows DEF t
<1> QED BY <1>5, <1>6, <1>7

\* What an element is on the wire, by its type.
LEMMA ByType ==
  ASSUME NEW y \in Values, NEW it, GoodItem(y, it)
  PROVE  LET t == FieldType(y, it)
             b == BodyOf(y, it)
             v == Image(it.elem, t, Elements)
         IN  /\ t = Strings => GoalOf(t) = "len" /\ v = b /\ NumberOf(y, it) = Len(b)
             /\ t \in {Bool, Integer} =>
                  GoalOf(t) = "value" /\ v = <<Shown(t, NumberOf(y, it))>> /\ b = <<>>
             /\ t = Double => Len(b) = 8 /\ v = b
             /\ t = Float => Len(b) = 4 /\ v = Widen(b)
             /\ t \in Message =>
                  /\ GoalOf(t) = "sub_len" /\ <<t, it.elem>> \in Values
                  /\ v = Elements[<<t, it.elem>>] /\ b = Encode[<<t, it.elem>>]
                  /\ NumberOf(y, it) = Len(b)
<1> DEFINE t == FieldType(y, it)
<1>1. CASE t = Strings
  BY <1>1, Names, MessageNames DEF GoalOf, BodyOf, NumberOf, Image
<1>2. CASE t = Bool
  <2>1. /\ Image(it.elem, t, Elements) = <<it.elem>> /\ it.elem \in BOOLEAN
        /\ NumberOf(y, it) = IF it.elem THEN 1 ELSE 0
    BY <1>2, Names DEF NumberOf, Image, GoodItem, IsElement
  <2>2. Shown(t, NumberOf(y, it)) = it.elem
    BY <1>2, <2>1 DEF Shown
  <2> QED BY <1>2, <2>1, <2>2, Names, MessageNames DEF GoalOf, BodyOf
<1>3. CASE t = Integer
  <2>1. /\ Image(it.elem, t, Elements) = <<AsInt64(it.elem)>> /\ AsInt64(it.elem) \in Int64
        /\ NumberOf(y, it) = TwosComplement(AsInt64(it.elem))
    BY <1>3, Names DEF NumberOf, Image, GoodItem, IsElement
  <2>2. Shown(t, NumberOf(y, it)) = AsInt64(it.elem)
    BY <1>3, <2>1, Names, CastsBack DEF Shown
  <2> QED BY <1>3, <2>1, <2>2, Names, MessageNames DEF GoalOf, BodyOf
<1>4. CASE t = Double
  BY <1>4, Names, MessageNames DEF GoalOf, BodyOf, NumberOf, Image, GoodItem, IsElement, IsImage
<1>5. CASE t = Float
  BY <1>5, Names, MessageNames DEF GoalOf, BodyOf, NumberOf, Image, GoodItem, IsElement, IsImage
<1>6. CASE t \in Message
  <2>1. t # Strings /\ t # Bool /\ t # Double /\ t # Float /\ t # Integer
    BY <1>6, MessageNames
  <2> QED BY <1>6, <2>1 DEF GoalOf, BodyOf, NumberOf, Image, GoodItem
<1> QED BY <1>1, <1>2, <1>3, <1>4, <1>5, <1>6
        DEF GoodItem, Primitive

\* A double or a float is as wide as its image, and within the string.
LEMMA FixedFollows ==
  ASSUME IInv, Linked, ~over, NEW path, Follows(path), Fixed
  PROVE  Follows(path)' /\ ~over'
<1> DEFINE n == Len(stack)
<1>1. PICK y : y = path[n] /\ Reads(n, y) /\ Here(y) /\ y \in Values
  BY TopFacts
<1>2. pc = "tag" /\ WireType \in {WT_I64, WT_I32} /\ pc' = "loop" /\ bytes' = bytes
  BY DEF Fixed
<1>3. Count < Len(Items(y)) /\ acc = TagOf(y, Item(y)) /\ Cur.pos = TagEnd(y)
  BY <1>1, <1>2, BehindTag
<1> DEFINE it == Item(y)
           t == FieldType(y, it)
           body == BodyOf(y, it)
<1>4. /\ Number = it.field /\ WireType = Wire(t) /\ t \in Message \cup Primitive
  BY <1>1, <1>3, TagKnown
<1>5. (WireType = WT_I64 /\ t = Double) \/ (WireType = WT_I32 /\ t = Float)
  <2> HIDE DEF t
  <2> QED BY <1>2, <1>4, WireOf
<1>6. Fixed64or32(t)
  BY <1>5 DEF Fixed64or32
<1>7. /\ At(bytes, TagEnd(y), body) /\ Upto(y) = TagEnd(y) + Len(body) /\ Upto(y) <= Cur.hi
      /\ body \in Seq(Byte) /\ Upto(y) \in Nat /\ GoodItem(y, it)
  BY <1>1, <1>3, <1>6, Landmarks
<1>8. /\ Width = Len(body)
      /\ WireType = WT_I64 => Width = 8 /\ Image(it.elem, t, Elements) = body
      /\ WireType # WT_I64 => Width = 4 /\ Image(it.elem, t, Elements) = Widen(body)
  <2>1. /\ t = Double => Len(body) = 8 /\ Image(it.elem, t, Elements) = body
        /\ t = Float => Len(body) = 4 /\ Image(it.elem, t, Elements) = Widen(body)
    BY <1>1, <1>7, ByType
  <2> HIDE DEF t, body, it
  <2> QED BY <1>5, <2>1 DEF Width, WT_I64, WT_I32
<1> HIDE DEF body
<1>9. Cur.pos + Width = Upto(y) /\ Cur.pos \in Nat /\ Cur.hi \in Nat /\ TypeOK /\ Width \in Nat
      /\ Cur.pos <= Upto(y)
  BY <1>3, <1>7, <1>8, CurFacts
<1>10. ~(Cur.pos + Width > Cur.hi)
  BY <1>7, <1>9
<1>11. ~over'
  BY <1>10 DEF Fixed
<1>12. FixedValue = Image(it.elem, t, Elements)
  <2>1. Slice(Width) = body
    BY <1>3, <1>7, <1>8, <1>9, SliceIs DEF Slice, IInv, Input
  <2> HIDE DEF t, it
  <2> QED BY <1>8, <2>1 DEF FixedValue
<1>13. MovesTo(Upto(y))
  <2>1. Number \in Int
    BY CurFacts, FieldNumberIsInt DEF Number
  <2>2. stack' = [stack EXCEPT ![Len(stack)].field = Number, ![Len(stack)].pos = @ + Width]
    BY DEF Fixed
  <2>3. stack' = [stack EXCEPT ![Len(stack)].pos = Cur.pos + Width, ![Len(stack)].field = Number]
    BY <1>9, <2>1, <2>2, NoteIsMove
  <2> QED BY <1>7, <1>9, <2>1, <2>3, ExceptMoves
<1> DEFINE v == Image(it.elem, t, Elements)
<1>14. objs' = Joined(objs, Len(objs), [field |-> it.field, val |-> v])
  <2>1. objs' = [objs EXCEPT ![Len(objs)] = Append(@, [field |-> Number, val |-> FixedValue])]
    BY <1>10 DEF Fixed
  <2>2. Number = it.field /\ FixedValue = v
    BY <1>4, <1>12
  <2>3. objs' = [objs EXCEPT ![Len(objs)] = Append(@, [field |-> it.field, val |-> v])]
    BY <2>1, <2>2
  <2> QED BY <2>3 DEF Joined
<1> QED BY <1>1, <1>2, <1>3, <1>11, <1>13, <1>14, JoinFollows

\* A bool or an integer.
LEMMA TakeScalarFollows ==
  ASSUME IInv, Linked, NEW path, Follows(path), TakeScalar
  PROVE  Follows(path)'
<1> DEFINE n == Len(stack)
<1>1. PICK y : y = path[n] /\ Reads(n, y) /\ Here(y) /\ y \in Values
  BY TopFacts
<1>2. /\ pc = "value" /\ pc' = "loop" /\ bytes' = bytes /\ stack' = stack
      /\ objs' = [objs EXCEPT ![Len(objs)] =
                    Append(@, [field |-> Cur.field, val |-> <<ScalarValue>>])]
  BY DEF TakeScalar, Found
<1> DEFINE it == Item(y)
           t == FieldType(y, it)
           v == Image(it.elem, t, Elements)
<1>3. /\ Count < Len(Items(y)) /\ pc = GoalOf(t) /\ ~Fixed64or32(t) /\ Cur.field = it.field
      /\ acc = NumberOf(y, it) /\ Cur.pos = NumberEnd(y)
  BY <1>1, <1>2, BehindNumber DEF Goal
<1>4. GoodItem(y, it) /\ Upto(y) = NumberEnd(y) + Len(BodyOf(y, it)) /\ NumberEnd(y) \in Nat
  BY <1>1, <1>3, Landmarks
<1>5. v = <<Shown(t, acc)>> /\ BodyOf(y, it) = <<>>
  <2>1. t \in {Bool, Integer}
    <3>1. t \in Message \cup Primitive /\ (t \in Message => GoalOf(t) = "sub_len")
          /\ (t = Strings => GoalOf(t) = "len")
      BY <1>1, <1>4, ByType DEF GoodItem
    <3> QED BY <1>2, <1>3, <3>1 DEF Fixed64or32, Primitive
  <2> QED BY <1>1, <1>3, <1>4, <2>1, ByType
<1>6. Upto(y) = Cur.pos
  BY <1>3, <1>4, <1>5
<1>7. MovesTo(Upto(y))
  BY <1>2, <1>6, StayMoves
<1>8. ScalarValue = Shown(t, acc)
  <2>1. Cur.msg = y[1] /\ t = Types[y[1]][it.field]
    BY <1>1, CountFacts DEF FieldType
  <2> QED BY <1>3, <2>1 DEF ScalarValue, Shown
<1>9. objs' = Joined(objs, Len(objs), [field |-> it.field, val |-> v])
  BY <1>2, <1>3, <1>5, <1>8 DEF Joined
<1> QED BY <1>1, <1>2, <1>3, <1>7, <1>9, JoinFollows

\* A string.
LEMMA TakeTextFollows ==
  ASSUME IInv, Linked, NEW path, Follows(path), TakeText
  PROVE  Follows(path)'
<1> DEFINE n == Len(stack)
<1>1. PICK y : y = path[n] /\ Reads(n, y) /\ Here(y) /\ y \in Values
  BY TopFacts
<1>2. /\ pc = "len" /\ pc' = "loop" /\ bytes' = bytes /\ Advance(acc)
      /\ objs' = [objs EXCEPT ![Len(objs)] = Append(@, [field |-> Cur.field, val |-> Slice(acc)])]
  BY DEF TakeText, Found
<1> DEFINE it == Item(y)
           t == FieldType(y, it)
           v == Image(it.elem, t, Elements)
           body == BodyOf(y, it)
<1>3. /\ Count < Len(Items(y)) /\ pc = GoalOf(t) /\ ~Fixed64or32(t) /\ Cur.field = it.field
      /\ acc = NumberOf(y, it) /\ Cur.pos = NumberEnd(y)
  BY <1>1, <1>2, BehindNumber DEF Goal
<1>4. /\ GoodItem(y, it) /\ Upto(y) = NumberEnd(y) + Len(body) /\ NumberEnd(y) \in Nat
      /\ At(bytes, NumberEnd(y), body) /\ body \in Seq(Byte)
  BY <1>1, <1>3, Landmarks
<1>5. v = body /\ acc = Len(body)
  <2>1. t = Strings
    <3>1. t \in Message \cup Primitive /\ (t \in Message => GoalOf(t) = "sub_len")
          /\ (t \in {Bool, Integer} => GoalOf(t) = "value")
      BY <1>1, <1>4, ByType DEF GoodItem
    <3> QED BY <1>2, <1>3, <3>1 DEF Fixed64or32, Primitive
  <2> QED BY <1>1, <1>3, <1>4, <2>1, ByType
<1> HIDE DEF body
<1>6. Upto(y) = Cur.pos + acc /\ acc \in Nat
  BY <1>3, <1>4, <1>5, CurFacts
<1>7. MovesTo(Upto(y))
  BY <1>2, <1>6, AdvanceMoves
<1>8. Slice(acc) = v
  BY <1>3, <1>4, <1>5, SliceIs DEF Slice, IInv, Input
<1>9. objs' = Joined(objs, Len(objs), [field |-> it.field, val |-> v])
  BY <1>2, <1>3, <1>8 DEF Joined
<1> QED BY <1>1, <1>2, <1>3, <1>7, <1>9, JoinFollows

\* What an encoder writes is never skipped, and no length or varint is refused.
LEMMA NeverSkips ==
  ASSUME IInv, Linked, NEW path, Follows(path)
  PROVE  ~(\/ TruncatedVarint \/ SkipFixed \/ SkipVarint \/ SkipLen \/ UnknownWireType
           \/ SkipByte \/ SkipEnds \/ LengthExceeds \/ SkipText)
<1> DEFINE n == Len(stack)
<1>1. PICK y : y = path[n] /\ Reads(n, y) /\ Here(y) /\ y \in Values
  BY TopFacts
<1>2. ~TruncatedVarint
  BY <1>1, VarintInside DEF TruncatedVarint
<1>3. pc = "tag" => Decodes
  <2>1. ASSUME pc = "tag" PROVE Decodes
    <3>1. Count < Len(Items(y)) /\ acc = TagOf(y, Item(y))
      BY <1>1, <2>1, BehindTag
    <3> QED BY <1>1, <3>1, TagKnown
  <2> QED BY <2>1
<1>4. pc # "skip_varint"
  BY <1>1 DEF Here, Goal
<1>5. pc # "skip_len"
  <2>1. ASSUME pc = "skip_len" PROVE FALSE
    <3>1. pc = GoalOf(FieldType(y, Item(y)))
      BY <1>1, <2>1, BehindNumber DEF Goal
    <3> QED BY <2>1, <3>1 DEF GoalOf
  <2> QED BY <2>1
<1>6. ~LengthExceeds
  <2>1. ASSUME pc \in {"len", "sub_len"} PROVE ~(acc > Room)
    <3> DEFINE it == Item(y)
               t == FieldType(y, it)
               body == BodyOf(y, it)
    <3>1. /\ Count < Len(Items(y)) /\ pc = GoalOf(t) /\ ~Fixed64or32(t)
          /\ acc = NumberOf(y, it) /\ Cur.pos = NumberEnd(y)
      BY <1>1, <2>1, BehindNumber DEF Goal
    <3>2. /\ GoodItem(y, it) /\ Upto(y) = NumberEnd(y) + Len(body) /\ NumberEnd(y) \in Nat
          /\ body \in Seq(Byte) /\ Upto(y) <= Cur.hi
      BY <1>1, <3>1, Landmarks
    <3>3. acc = Len(body)
      <4>1. /\ t \in Message \cup Primitive
            /\ t \in {Bool, Integer} => GoalOf(t) = "value"
            /\ t = Strings => NumberOf(y, it) = Len(body)
            /\ t \in Message => NumberOf(y, it) = Len(body)
        BY <1>1, <3>2, ByType DEF GoodItem
      <4> HIDE DEF body, it
      <4> QED BY <2>1, <3>1, <4>1 DEF Fixed64or32, Primitive
    <3>4. Cur.pos \in Nat /\ Cur.hi \in Nat /\ Len(body) \in Nat /\ Cur.pos <= Cur.hi
      BY <2>1, <3>2, CurFacts
    <3> HIDE DEF body
    <3>5. Room = Cur.hi - Cur.pos
      BY <3>4, RoomExact DEF IInv
    <3> QED BY <3>1, <3>2, <3>3, <3>4, <3>5
  <2> QED BY <1>5, <2>1 DEF LengthExceeds
<1> QED BY <1>2, <1>3, <1>4, <1>5, <1>6
        DEF SkipFixed, SkipVarint, SkipLen, UnknownWireType, SkipByte, SkipEnds, SkipText

\* A sub-message: the path gets longer.
LEMMA DecodeSubFollows ==
  ASSUME IInv, Linked, NEW path, Follows(path), DecodeSub
  PROVE  \E longer : Follows(longer)' /\ longer[1] = path[1]
<1>1. PICK n, y : /\ n \in Nat \ {0} /\ n = Len(stack) /\ y = path[n]
                 /\ Reads(n, y) /\ Here(y) /\ y \in Values
  BY TopFacts
<1>2. pc = "sub_len" /\ pc' = "loop" /\ bytes' = bytes /\ objs' = Append(objs, <<>>)
  BY DEF DecodeSub
<1> DEFINE it == Item(y)
           t == FieldType(y, it)
           body == BodyOf(y, it)
<1>3. /\ Count < Len(Items(y)) /\ pc = GoalOf(t) /\ ~Fixed64or32(t) /\ Cur.field = it.field
      /\ acc = NumberOf(y, it) /\ Cur.pos = NumberEnd(y)
  BY <1>1, <1>2, BehindNumber DEF Goal
<1>4. /\ GoodItem(y, it) /\ Upto(y) = NumberEnd(y) + Len(body) /\ NumberEnd(y) \in Nat
      /\ At(bytes, NumberEnd(y), body) /\ body \in Seq(Byte)
  BY <1>1, <1>3, Landmarks
<1>5. t \in Message
  <2>1. /\ t \in Message \cup Primitive /\ (t = Strings => GoalOf(t) = "len")
        /\ (t \in {Bool, Integer} => GoalOf(t) = "value")
    BY <1>1, <1>4, ByType DEF GoodItem
  <2> HIDE DEF t
  <2> QED BY <1>2, <1>3, <2>1 DEF Fixed64or32, Primitive
<1>6. PICK z \in Values : /\ z = <<t, it.elem>> /\ z[1] = t
                         /\ body = Encode[z] /\ acc = Len(body)
  BY <1>1, <1>3, <1>4, <1>5, ByType
<1>7. Types[Cur.msg][Cur.field] = t
  <2>1. Cur.msg = y[1] /\ it.field \in 1..Len(Types[y[1]]) /\ t = Types[y[1]][it.field]
    BY <1>1, <1>4, CountFacts DEF GoodItem, FieldType
  <2> QED BY <1>3, <2>1
<1> HIDE DEF body, t, it
<1> DEFINE longer == Append(path, z)
<1>8. /\ Cur = stack[n] /\ Len(objs) = n /\ IsList(objs)
  BY <1>1, LinkedFacts
<1>9. PICK q \in Nat :
        /\ q = Cur.pos + acc /\ Len(stack') = n + 1
        /\ \A i \in 1..n : i < n => stack'[i] = stack[i]
        /\ stack'[n].lo = Cur.lo /\ stack'[n].hi = Cur.hi /\ stack'[n].pos = q
        /\ stack'[n + 1].lo = Cur.pos /\ stack'[n + 1].hi = q /\ stack'[n + 1].pos = Cur.pos
        /\ stack'[n].msg = Cur.msg /\ stack'[n].field = Cur.field
        /\ stack'[n + 1].msg = Types[Cur.msg][Cur.field]
  BY <1>1, DecodeShape
<1>10. /\ \A i \in 1..n : objs'[i] = objs[i]
       /\ objs'[n + 1] = <<>>
  BY <1>2, <1>8, AppendList
<1>11. /\ path \in Seq(Values) /\ Len(path) = n
       /\ \A i \in 1..n : Reads(i, path[i])
       /\ \A i \in 1..n : i < n => Calls(i, path[i], path[i + 1])
  BY <1>1 DEF Follows
<1>12. /\ longer \in Seq(Values) /\ Len(longer) = n + 1 /\ longer[n + 1] = z
       /\ \A i \in 1..n : longer[i] = path[i]
       /\ longer[1] = path[1]
  BY <1>1, <1>6, <1>11
<1> HIDE DEF longer
<1>13. q = Upto(y)
  BY <1>3, <1>4, <1>6, <1>9
<1>14. ASSUME NEW i \in 1..n PROVE Reads(i, longer[i])'
  <2>1. Reads(i, path[i]) /\ longer[i] = path[i] /\ objs'[i] = objs[i]
    BY <1>10, <1>11, <1>12
  <2>2. stack'[i].lo = stack[i].lo /\ stack'[i].hi = stack[i].hi /\ stack'[i].msg = stack[i].msg
    <3>1. i < n \/ i = n
      BY <1>1
    <3> QED BY <1>8, <1>9, <3>1
  <2> QED BY <1>2, <2>1, <2>2 DEF Reads, Decoded
<1>15. Reads(n + 1, z)'
  <2>1. Decoded(z, objs'[n + 1])
    <3>1. Len(Items(z)) \in Nat /\ Len(objs'[n + 1]) = 0
      BY <1>6, <1>10, ItemsAreGood
    <3> QED BY <1>10, <3>1 DEF Decoded
  <2>2. At(bytes, Cur.pos, Encode[z])
    BY <1>3, <1>4, <1>6
  <2>3. stack'[n + 1].msg = z[1]
    BY <1>6, <1>7, <1>9
  <2>4. stack'[n + 1].hi = stack'[n + 1].lo + Len(Encode[z])
    BY <1>6, <1>9
  <2> QED BY <1>2, <1>6, <1>9, <2>1, <2>2, <2>3, <2>4 DEF Reads
<1>16. ASSUME NEW i \in 1..n, i < n PROVE Calls(i, longer[i], longer[i + 1])'
  <2>1. i + 1 \in 1..n
    BY <1>1, <1>16
  <2>2. longer[i] = path[i] /\ longer[i + 1] = path[i + 1]
    BY <1>12, <2>1
  <2>3. Calls(i, path[i], path[i + 1]) /\ stack'[i] = stack[i] /\ objs'[i] = objs[i]
    BY <1>9, <1>10, <1>11, <1>16
  <2> QED BY <2>2, <2>3 DEF Calls
<1>17. Calls(n, y, z)'
  <2>1. objs'[n] = objs[n] /\ Count = Len(objs[n]) /\ it = Items(y)[Len(objs[n]) + 1]
    BY <1>1, <1>10 DEF Count, Item, it
  <2>2. stack'[n].field = it.field /\ stack'[n].lo = Cur.lo
    BY <1>3, <1>9
  <2>3. stack'[n].pos = stack'[n].lo + Start(y, Len(objs[n]) + 1)
    BY <1>9, <1>13, <2>1, <2>2 DEF Upto
  <2>4. t = FieldType(y, it)
    BY DEF t
  <2> QED BY <1>3, <1>5, <1>6, <2>1, <2>2, <2>3, <2>4 DEF Calls
<1>18. Here(z)'
  <2>1. Cur' = stack'[n + 1] /\ Count' = 0
    BY <1>1, <1>9, <1>10 DEF Cur, Count
  <2>2. Start(z, 0) = 0
    BY <1>6, Placement
  <2>3. Cur'.lo = Cur.pos /\ Cur'.pos = Cur.pos /\ Cur.pos \in Nat
    BY <1>9, <2>1, CurFacts
  <2>4. From(z)' = Cur'.pos
    BY <2>1, <2>2, <2>3 DEF From
  <2> QED BY <1>2, <2>4 DEF Here
<1>19. \A i \in 1..(n + 1) : (i \in 1..n /\ (i < n \/ i = n)) \/ i = n + 1
  BY <1>1
<1>20. Follows(longer)'
  <2>1. ASSUME NEW i \in 1..(n + 1) PROVE Reads(i, longer[i])'
    <3>1. CASE i \in 1..n
      BY <1>14, <3>1
    <3>2. CASE i = n + 1
      <4>1. longer[i] = z
        BY <1>12, <3>2
      <4> QED BY <1>15, <3>2, <4>1
    <3> QED BY <1>19, <3>1, <3>2
  <2>2. ASSUME NEW i \in 1..(n + 1), i < n + 1 PROVE Calls(i, longer[i], longer[i + 1])'
    <3>1. CASE i \in 1..n /\ i < n
      BY <1>16, <3>1
    <3>2. CASE i = n
      <4>1. longer[i] = y /\ longer[i + 1] = z
        BY <1>1, <1>12, <3>2
      <4> QED BY <1>17, <3>2, <4>1
    <3>3. i # n + 1
      BY <1>1, <2>2
    <3> QED BY <1>19, <3>1, <3>2, <3>3
  <2> QED BY <1>9, <1>12, <1>18, <2>1, <2>2 DEF Follows
<1> QED BY <1>12, <1>20

\* The string of a message ends where its last element does.
LEMMA WholeMessage ==
  ASSUME NEW z \in Values, NEW o, Decoded(z, o), Len(o) = Len(Items(z))
  PROVE  o = Elements[z]
<1>1. o = [i \in 1..Len(Items(z)) |-> Elements[z][i]]
  BY DEF Decoded
<1>2. Elements[z] = [i \in 1..Len(Items(z)) |->
         [field |-> Items(z)[i].field,
          val |-> Image(Items(z)[i].elem, FieldType(z, Items(z)[i]), Elements)]]
  BY ElementsEquation
<1> DEFINE g(i) == [field |-> Items(z)[i].field,
                    val |-> Image(Items(z)[i].elem, FieldType(z, Items(z)[i]), Elements)]
           full == Elements[z]
           D == 1..Len(Items(z))
<1>3. full = [i \in D |-> g(i)] /\ o = [i \in D |-> full[i]]
  BY <1>1, <1>2
<1> HIDE DEF g, full, D
<1>4. o = full
  BY <1>3
<1> QED BY <1>4 DEF full

\* The result of a sub-message is the next element of the message around it.
LEMMA SubDoneFollows ==
  ASSUME IInv, Linked, NEW path, Follows(path), SubDone
  PROVE  \E shorter : Follows(shorter)' /\ shorter[1] = path[1]
<1>0. PICK n \in Nat \ {0} : Len(stack) = n + 1
  <2>1. Len(stack) \in Nat /\ Len(stack) > 1
    BY LinkedFacts DEF SubDone
  <2>2. Len(stack) - 1 \in Nat \ {0} /\ Len(stack) = (Len(stack) - 1) + 1
    BY <2>1
  <2> QED BY <2>2
<1>1. PICK y, z : /\ Len(stack) = n + 1 /\ y = path[n] /\ z = path[n + 1]
                  /\ Reads(n + 1, z) /\ Here(z) /\ z \in Values
  BY <1>0, TopFacts
<1>2. /\ pc = "loop" /\ ~InString /\ pc' = "loop" /\ bytes' = bytes
      /\ objs' = [SubSeq(objs, 1, n) EXCEPT ![n] =
                    Append(@, [field |-> CallerField, val |-> objs[n + 1]])]
      /\ CallerField = stack[n].field
  <2>1. (n + 1) - 1 = n
    BY <1>1
  <2> QED BY <1>1, <2>1 DEF SubDone, CallerField
<1>3. /\ Len(stack') = n /\ \A i \in 1..n : stack'[i] = stack[i]
  <2>1. (n + 1) - 1 = n
    BY <1>1
  <2> QED BY <1>1, <2>1, SubDoneShape
<1>4. /\ path \in Seq(Values) /\ Len(path) = n + 1
      /\ \A i \in 1..(n + 1) : Reads(i, path[i])
      /\ \A i \in 1..(n + 1) : i < n + 1 => Calls(i, path[i], path[i + 1])
  BY <1>1 DEF Follows
<1>5. n \in 1..(n + 1) /\ n < n + 1 /\ n \in 1..n
  BY <1>1
<1>6. Reads(n, y) /\ Calls(n, y, z) /\ y \in Values
  <2>1. Reads(n, y) /\ Calls(n, y, z)
    BY <1>1, <1>4, <1>5
  <2> QED BY <2>1 DEF Reads
<1>7. objs[n + 1] = Elements[z]
  <2>1. Cur.pos = From(z)
    BY <1>1, <1>2 DEF Here, Goal
  <2>2. ~(Count < Len(Items(z)))
    BY <1>1, <1>2, <2>1, MoreToCome
  <2>3. Count \in Nat /\ Count <= Len(Items(z)) /\ Len(Items(z)) \in Nat
    BY <1>1, CountFacts
  <2>4. Len(objs[n + 1]) = Len(Items(z))
    BY <1>1, <2>2, <2>3 DEF Count
  <2> QED BY <1>1, <2>4, WholeMessage DEF Reads
<1>8. /\ Len(objs) = n + 1 /\ IsList(objs) /\ IsList(objs[n])
  BY <1>1, <1>5, LinkedFacts
<1>9. PICK k, it, t : /\ k = Len(objs[n]) /\ it = Items(y)[k + 1] /\ t = FieldType(y, it)
                      /\ k < Len(Items(y)) /\ t \in Message /\ z = <<t, it.elem>>
                      /\ stack[n].field = it.field
                      /\ stack[n].pos = stack[n].lo + Start(y, k + 1)
  BY <1>6 DEF Calls
<1>10. k \in Nat /\ k + 1 \in 1..Len(Items(y)) /\ Decoded(y, objs[n])
  BY <1>6, <1>9, ItemsAreGood DEF Reads, Decoded
<1>11. Image(it.elem, t, Elements) = Elements[z]
  <2>1. GoodItem(y, it)
    BY <1>6, <1>9, <1>10, ItemsAreGood
  <2> QED BY <1>6, <1>9, <2>1, ByType
<1> DEFINE e == [field |-> it.field, val |-> Elements[z]]
           os == SubSeq(objs, 1, n)
<1>12. Decoded(y, Append(objs[n], e)) /\ Len(Append(objs[n], e)) = k + 1
  BY <1>1, <1>6, <1>8, <1>9, <1>10, <1>11, DecodedOn
<1>13. IsList(os) /\ Len(os) = n /\ \A i \in 1..n : os[i] = objs[i]
  BY <1>8, FrontList
<1>14. objs' = [os EXCEPT ![n] = Append(@, e)]
  BY <1>2, <1>7, <1>9
<1> HIDE DEF e, os
<1>15. /\ \A i \in 1..n : i < n => objs'[i] = objs[i]
       /\ objs'[n] = Append(objs[n], e)
  <2>1. objs' = Joined(os, n, e)
    BY <1>14 DEF Joined
  <2>2. IsList(os[n]) /\ os[n] = objs[n]
    BY <1>5, <1>8, <1>13
  <2>3. /\ \A i \in 1..n : i < n => objs'[i] = os[i]
        /\ objs'[n] = Append(os[n], e)
    BY <1>1, <1>13, <2>1, <2>2, JoinList
  <2> QED BY <1>13, <2>2, <2>3
<1> DEFINE shorter == SubSeq(path, 1, n)
<1>16. /\ shorter \in Seq(Values) /\ Len(shorter) = n
       /\ \A i \in 1..n : shorter[i] = path[i]
       /\ shorter[1] = path[1]
  BY <1>4, <1>5
<1> HIDE DEF shorter
<1>17. \A i \in 1..n : i \in 1..(n + 1) /\ (i < n \/ i = n) /\ (i < n => i + 1 \in 1..n /\ i < n + 1)
  BY <1>1
<1>18. ASSUME NEW i \in 1..n PROVE Reads(i, shorter[i])'
  <2>1. Reads(i, path[i]) /\ shorter[i] = path[i] /\ stack'[i] = stack[i]
    BY <1>3, <1>4, <1>16, <1>17
  <2>2. Decoded(path[i], objs'[i])
    <3>1. CASE i < n
      BY <1>15, <2>1, <3>1 DEF Reads
    <3>2. CASE i = n
      BY <1>1, <1>12, <1>15, <3>2
    <3> QED BY <1>17, <3>1, <3>2
  <2> QED BY <1>2, <2>1, <2>2 DEF Reads
<1>19. ASSUME NEW i \in 1..n, i < n PROVE Calls(i, shorter[i], shorter[i + 1])'
  <2>1. /\ Calls(i, path[i], path[i + 1]) /\ shorter[i] = path[i] /\ shorter[i + 1] = path[i + 1]
        /\ stack'[i] = stack[i] /\ objs'[i] = objs[i]
    BY <1>3, <1>4, <1>15, <1>16, <1>17, <1>19
  <2> QED BY <2>1 DEF Calls
<1>20. Here(y)'
  <2>1. Cur' = stack[n] /\ Count' = k + 1
    BY <1>3, <1>5, <1>12, <1>15 DEF Cur, Count
  <2>2. From(y)' = Cur'.pos
    BY <1>9, <2>1 DEF From
  <2> QED BY <1>2, <2>2 DEF Here
<1>21. Here(shorter[Len(stack)])'
  <2>1. shorter[n] = y
    BY <1>1, <1>5, <1>16
  <2> QED BY <1>3, <1>20, <2>1
<1> QED BY <1>3, <1>16, <1>18, <1>19, <1>21 DEF Follows

----------------------------------------------------------------------------
(* The whole run. *)

\* The input is the encoding of a message that was sent.
Carried == \E x \in Sent : Encode[x] = bytes

\* The frame around a message is taken off again.
LEMMA CarriedInit == Init => Carried
<1> SUFFICES ASSUME Init PROVE Carried
  OBVIOUS
<1>1. PICK x \in Sent : bytes = grpc_unframe(grpc_frame(Encode[x]))
  BY CarriedAssumption DEF Init
<1>2. x \in Values /\ Encode[x] \in Seq(Byte)
  BY EncodeIsBytes DEF Sent
<1>3. FramesBack(Encode[x])
  BY <1>2, SizesAssumption, FrameRoundTrip
<1> QED BY <1>1, <1>3 DEF FramesBack, Carried

\* At the start the path is the message that was sent.
LEMMA TracksInit == Init => Tracks
<1> SUFFICES ASSUME Init PROVE Tracks
  OBVIOUS
<1>1. ~over /\ pc = "loop" /\ Len(stack) = 1 /\ Cur = stack[1] /\ Len(objs) = 1 /\ objs[1] = <<>>
      /\ stack[1].lo = 0 /\ stack[1].pos = 0 /\ stack[1].hi = Len(bytes) /\ stack[1].msg = Root
  BY DEF Init, Cur
<1>2. ASSUME NEW x \in Sent, Encode[x] = bytes
      PROVE  \E path : Follows(path) /\ path[1] = x
  <2> DEFINE path == <<x>>
  <2>1. x \in Values /\ x[1] = Root
    BY DEF Sent
  <2>2. path \in Seq(Values) /\ Len(path) = 1 /\ path[1] = x
    BY <2>1
  <2>3. bytes \in Seq(Byte) /\ Len(bytes) \in Nat
    BY InitInv DEF IInv, Input
  <2>4. At(bytes, 0, bytes)
    <3>1. 0 + Len(bytes) <= Len(bytes) /\ \A i \in 1..Len(bytes) : 0 + i = i
      BY <2>3
    <3> QED BY <3>1 DEF At
  <2>5. Decoded(x, objs[1])
    <3>1. Len(Items(x)) \in Nat /\ Len(objs[1]) = 0
      BY <1>1, <2>1, ItemsAreGood
    <3> QED BY <1>1, <3>1 DEF Decoded
  <2>6. Reads(1, x)
    BY <1>1, <1>2, <2>1, <2>3, <2>4, <2>5 DEF Reads
  <2>7. Here(x)
    <3>1. Count = 0 /\ Start(x, 0) = 0
      BY <1>1, <2>1, Placement DEF Count
    <3>2. From(x) = 0
      BY <1>1, <3>1 DEF From
    <3> QED BY <1>1, <3>2 DEF Here
  <2> HIDE DEF path
  <2>8. Follows(path)
    <3>1. \A i \in 1..Len(stack) : i = 1
      BY <1>1
    <3> QED BY <1>1, <2>2, <2>6, <2>7, <3>1 DEF Follows
  <2> QED BY <2>2, <2>8
<1> QED BY <1>1, <1>2 DEF Tracks

\* The input stays, and only a fixed-width value reads without a look at the size.
LEMMA InputStays == Next => bytes' = bytes /\ (~Fixed => over' = over)
BY DEF Next, NextField, Done, SubDone, ReadByte, TruncatedVarint, Scalar, Text, SubMessage,
       BeginValue, Fixed, SkipFixed, SkipVarint, SkipLen, UnknownWireType, SkipByte, SkipEnds,
       TakeScalar, LengthExceeds, TakeText, SkipText, DecodeSub, Fail

\* Every step keeps to a path.
LEMMA TracksStep ==
  ASSUME IInv, Linked, Carried, Tracks, [Next]_vars
  PROVE  Tracks' /\ Carried'
<1>1. CASE UNCHANGED vars
  <2>1. /\ bytes' = bytes /\ stack' = stack /\ objs' = objs /\ pc' = pc /\ goal' = goal
        /\ acc' = acc /\ groups' = groups /\ weight' = weight /\ over' = over
    BY <1>1 DEF vars, varint
  <2>2. ASSUME NEW y, Here(y) PROVE Here(y)'
    <3>1. /\ Cur' = Cur /\ Count' = Count
      BY <2>1 DEF Cur, Count
    <3>2. /\ From(y)' = From(y) /\ Item(y)' = Item(y)
      BY <3>1 DEF From, Item
    <3>3. TagEnd(y)' = TagEnd(y)
      BY <3>2 DEF TagEnd
    <3>4. NumberEnd(y)' = NumberEnd(y)
      BY <3>2, <3>3 DEF NumberEnd
    <3>5. ASSUME NEW n, NEW e, Awaits(n, e) PROVE Awaits(n, e)'
      BY <2>1, <3>1, <3>5 DEF Awaits
    <3>6. /\ Awaits(TagOf(y, Item(y)), TagEnd(y)) => Awaits(TagOf(y, Item(y)), TagEnd(y))'
          /\ Awaits(NumberOf(y, Item(y)), NumberEnd(y)) => Awaits(NumberOf(y, Item(y)), NumberEnd(y))'
      <4>1. PICK tag, te, number, ne : /\ tag = TagOf(y, Item(y)) /\ te = TagEnd(y)
                                       /\ number = NumberOf(y, Item(y)) /\ ne = NumberEnd(y)
        OBVIOUS
      <4>2. /\ Awaits(tag, te) => Awaits(tag, te)'
            /\ Awaits(number, ne) => Awaits(number, ne)'
        BY <3>5
      <4> QED BY <3>2, <3>3, <3>4, <4>1, <4>2 DEF Awaits
    <3> QED BY <2>1, <2>2, <3>1, <3>2, <3>6 DEF Here
  <2>3. ASSUME NEW path, Follows(path) PROVE Follows(path)'
    <3>1. ASSUME NEW i, NEW y, Reads(i, y) PROVE Reads(i, y)'
      BY <2>1, <3>1, ReadsOn
    <3>2. ASSUME NEW i, NEW y, NEW z, Calls(i, y, z) PROVE Calls(i, y, z)'
      BY <2>1, <3>2, CallsOn
    <3>3. PICK y : y = path[Len(stack)] /\ Here(y)
      BY <2>3 DEF Follows
    <3>4. Here(path[Len(stack)])'
      BY <2>1, <2>2, <3>3
    <3> QED BY <2>1, <2>3, <3>1, <3>2, <3>4 DEF Follows
  <2> QED BY <2>1, <2>3 DEF Tracks, Carried
<1>2. CASE Next
  <2>1. bytes' = bytes /\ Carried'
    BY <1>2, InputStays DEF Carried
  <2>2. PICK x, path : x \in Sent /\ Follows(path) /\ Encode[x] = bytes
    BY DEF Tracks, Carried
  <2>3. ~over
    BY DEF Tracks
  <2>4. ~over'
    BY <1>2, <2>2, <2>3, InputStays, FixedFollows
  <2>5. ASSUME NEW z \in Sent, Encode[z] = bytes
        PROVE  \E p : Follows(p)' /\ p[1] = z
    <3>1. PICK p : Follows(p) /\ p[1] = z
      BY <2>5 DEF Tracks
    <3>2. CASE SubDone
      BY <3>1, <3>2, SubDoneFollows
    <3>3. CASE DecodeSub
      BY <3>1, <3>3, DecodeSubFollows
    <3>4. CASE ~SubDone /\ ~DecodeSub
      <4>1. Follows(p)'
        BY <1>2, <2>3, <3>1, <3>4, NeverSkips, NextFieldFollows, DoneFollows, ReadByteFollows,
           TagFollows, FixedFollows, TakeScalarFollows, TakeTextFollows DEF Next
      <4> QED BY <3>1, <4>1
    <3> QED BY <3>2, <3>3, <3>4
  <2> QED BY <2>1, <2>4, <2>5 DEF Tracks
<1> QED BY <1>1, <1>2

\* What the path says when decode returns.
LEMMA TracksMeans ==
  ASSUME IInv, Linked, Carried, Tracks
  PROVE  RoundTrip
<1>1. PICK x \in Sent : Encode[x] = bytes
  BY DEF Carried
<1>2. ~over
  BY DEF Tracks
<1>3. ASSUME NEW z \in Sent, Encode[z] = bytes
      PROVE  pc # "abort" /\ (pc = "done" => objs[1] = Elements[z])
  <2>1. PICK path : Follows(path) /\ path[1] = z
    BY <1>3 DEF Tracks
  <2>2. PICK y : y = path[Len(stack)] /\ Reads(Len(stack), y) /\ Here(y) /\ y \in Values
    BY <2>1, TopFacts
  <2>3. pc # "abort"
    BY <2>2 DEF Here, Goal
  <2>4. ASSUME pc = "done" PROVE objs[1] = Elements[z]
    <3>1. Count = Len(Items(y)) /\ Len(stack) = 1
      BY <2>2, <2>4 DEF Here, Goal
    <3>2. y = z /\ Len(objs[1]) = Len(Items(y)) /\ Decoded(y, objs[1])
      BY <2>1, <2>2, <3>1 DEF Count, Reads
    <3> QED BY <2>2, <3>2, WholeMessage
  <2> QED BY <2>3, <2>4
<1>4. pc # "abort"
  BY <1>1, <1>3
<1>5. \E e \in Encodings : e[1] = bytes
  <2>1. <<Encode[x], Elements[x]>> \in Encodings
    BY DEF Encodings
  <2> QED BY <1>1, <2>1
<1>6. ASSUME NEW e \in Encodings, e[1] = bytes, pc = "done" PROVE objs[1] = e[2]
  <2>1. PICK z \in Sent : e = <<Encode[z], Elements[z]>>
    BY DEF Encodings
  <2>2. Encode[z] = bytes /\ e[2] = Elements[z]
    BY <1>6, <2>1
  <2> QED BY <1>3, <1>6, <2>2
<1> QED BY <1>2, <1>4, <1>5, <1>6 DEF RoundTrip

\* Whatever message that fits the schema is sent, decoding what grpc_unframe makes
\* of its frame never fails and never reads outside its string, and when decode
\* returns, its result is every element of the message, under its field, in
\* order, at every level (encode, encode_value and decode of codec.hpp are inverse
\* to each other, but for what RoundTrip says is lost).
THEOREM RoundTripHolds == Spec => []RoundTrip
<1>1. Init => IInv /\ Linked /\ Carried /\ Tracks
  BY InitInv, LinkedInit, CarriedInit, TracksInit
<1>2. IInv /\ Linked /\ Carried /\ Tracks /\ [Next]_vars => (IInv /\ Linked /\ Carried /\ Tracks)'
  BY StepInv, LinkedStep, TracksStep
<1>3. IInv /\ Linked /\ Carried /\ Tracks => RoundTrip
  BY TracksMeans
<1> QED BY <1>1, <1>2, <1>3, PTL DEF Spec
=============================================================================
