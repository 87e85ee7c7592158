---------------------------- MODULE WireRoundTrip ----------------------------
(***************************************************************************)
(* A message on its way: WireEncode writes it, GrpcFrame carries it,       *)
(* WireDecode reads it with the schema it was written with.                *)
(***************************************************************************)
EXTENDS WireDecode, WireEncode, GrpcFrame

\* The messages of the type decode is called with.
Sent == {x \in Values : x[1] = Root}

\* What goes over the wire and what it stands for.
Encodings == {<<Encode[x], Elements[x]>> : x \in Sent}

\* Each message travels in a frame of its own.
ASSUME CarriedAssumption ==
  Inputs = {grpc_unframe(grpc_frame(Encode[x])) : x \in Sent}

\* MaxGroups bytes of a varint can hold every uint64_t, which holds every size_t;
\* every tag is an int.
ASSUME WireWidthsAssumption ==
  /\ Modulus <= Capacity[MaxGroups]
  /\ SizeModulus <= Modulus /\ IntModulus <= Modulus
  /\ \A m \in Message : 16 * Len(Types[m]) + 16 <= IntModulus

\* An encoding is a string, and with its header fits the word of the length.
ASSUME SizesAssumption ==
  \A x \in Values : Len(Encode[x]) < SizeModulus /\ 5 + Len(Encode[x]) < Word

\* Decoding what encode wrote never fails, never reads outside, and gives every
\* element back in the type of its field: the number an int64_t, double or float
\* can hold, negative or not, the bool and the string as they were, under their
\* field, in order, at every level; the frame around it adds and loses nothing.
\* What is lost is what Elements leaves out, and two messages have one encoding
\* only if they differ in nothing else.
RoundTrip ==
  /\ pc # "abort" /\ ~over
  /\ \E e \in Encodings : e[1] = bytes
  /\ pc = "done" => \A e \in Encodings : e[1] = bytes => objs[1] = e[2]
=============================================================================
