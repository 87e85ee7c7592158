--------------------------- MODULE MCWireRoundTrip ---------------------------
(***************************************************************************)
(* WireRoundTrip for TLC: every message over a few elements of each type,  *)
(* nested up to three levels.  The widths are scaled as in MCWireDecode:   *)
(* integers have 13 bits, two bytes of a varint; a length field has four   *)
(* digits to the base 64.  Doubles and floats are those of IEEE 754.       *)
(***************************************************************************)
EXTENDS WireRoundTrip, FloatingPoint

MCTypes == [outer |-> <<"int32", "string", "inner", "float">>,
            inner |-> <<"bool", "double", "outer">>]

One(e) == [array |-> FALSE, elems |-> <<e>>]
Many(s) == [array |-> TRUE, elems |-> s]

Whole(i) == [integer |-> TRUE, number |-> i]
Real(d) == [integer |-> FALSE, number |-> d]

\* -1 and the least int64_t; what needs two bytes; the greatest int64_t, and
\* the greatest uint64_t.
Integers13 == {Whole(i) : i \in {-4096, -1, 0, 127, 128, 4095, 8191}}

\* 1.0, 0.1, which no float is, and -3.7.
OnePointZero == Real(<<0, 0, 0, 0, 0, 0, 240, 63>>)
PointOne == Real(<<154, 153, 153, 153, 153, 153, 185, 63>>)
MinusThreePointSeven == Real(<<154, 153, 153, 153, 153, 153, 13, 192>>)

Texts == {<<>>, <<8>>, <<128, 1>>}

\* The messages with the given choices for each field; a missing one is <<>>.
Messages(C) ==
  LET present(c) == {n \in 1..4 : c[n] # <<>>}
  IN  {[n \in present(c) |-> c[n][1]] : c \in C[1] \X C[2] \X C[3] \X C[4]}

Absent == {<<>>}
Inner0 == Messages(<<Absent \cup {<<One(b)>> : b \in BOOLEAN},
                     Absent \cup {<<One(d)>> : d \in {PointOne, Whole(-3)}},
                     Absent, Absent>>)
Outer0 == Messages(<<{<<One(Whole(5))>>}, {<<One(<<18>>)>>}, Absent, Absent>>)
Inner1 == Inner0 \cup Messages(<<{<<One(TRUE)>>}, Absent, {<<One(o)>> : o \in Outer0}, Absent>>)

IntChoices == Absent \cup {<<One(i)>> : i \in Integers13 \cup {MinusThreePointSeven}}
              \cup {<<Many(<<>>)>>, <<Many(<<Whole(-1)>>)>>, <<Many(<<Whole(300), Whole(-1)>>)>>}
TextChoices == Absent \cup {<<One(t)>> : t \in Texts} \cup {<<Many(<<<<>>, <<1>>>>)>>}

\* Among them what is no object.
InnerChoices == Absent \cup {<<One(i)>> : i \in Inner1}
                \cup {<<Many(<<i, [n \in {} |-> 0]>>)>> : i \in Inner1}
FloatChoices == {<<One(d)>> : d \in {OnePointZero, PointOne, MinusThreePointSeven, Whole(-3)}}
                \cup {<<Many(<<Whole(300), PointOne>>)>>}

Outer2 == Messages(<<IntChoices, TextChoices, InnerChoices, Absent>>)
          \cup Messages(<<{<<One(Whole(-1))>>}, TextChoices, Absent, FloatChoices>>)

MCValues == {<<"outer", v>> : v \in Outer0 \cup Outer2} \cup {<<"inner", v>> : v \in Inner1}

\* outer 2, inner 1, outer 0 are the messages of one chain.
MCDepth == [x \in MCValues |->
              IF x[1] = "inner" THEN IF 3 \in DOMAIN x[2] THEN 1 ELSE 0
              ELSE IF 3 \in DOMAIN x[2] THEN 2 ELSE 0]

MCInputs == {grpc_unframe(grpc_frame(Encode[x])) : x \in Sent}
MCModulus == 2^13
MCIntModulus == 2^8
MCSizeModulus == 2^8
=============================================================================
