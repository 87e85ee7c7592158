----------------------------- MODULE WireEncode -----------------------------
(***************************************************************************)
(* ProtoCodec::encode of include/proto/codec.hpp as a function of a value  *)
(* and a schema, and what its decoder makes of the result.                 *)
(*                                                                         *)
(* A message is a pair <<m, v>> of its type and a function v from the      *)
(* numbers of the fields it has (contains() finds them, and they are not   *)
(* null) to [array, elems]: a JSON array, or a single element.  For JSON   *)
(* that is no object contains() finds nothing: v is empty.  A string is a  *)
(* byte string, a bool a BOOLEAN, a sub-message the function of its pair,  *)
(* a number a record: what is_number_integer() says, and the integer or    *)
(* the double.                                                             *)
(***************************************************************************)
EXTENDS WireSchema, SequencesExt

CONSTANTS Values,       \* the messages: those encoded, and all inside them
          Depth,        \* Depth[x]: how deep messages nest in the message x
          ToDouble(_),  \* an integer as a double
          Narrow(_),    \* a double as a float
          Truncate(_)   \* a double as an int64_t

\* get<double>() and get<int64_t>() of a JSON number; an integer of the upper
\* half of uint64_t wraps.
AsDouble(e) == IF e.integer THEN ToDouble(e.number) ELSE e.number
AsInt64(e) == IF ~e.integer THEN Truncate(e.number)
              ELSE IF e.number < 0 THEN e.number ELSE Signed(e.number)

IsImage(d, n) == d \in Seq(Byte) /\ Len(d) = n

\* JSON that encode_value takes for a field of type t.  On any other JSON the
\* library aborts, but never in a message field.
IsElement(e, t) ==
  CASE t = Strings -> e \in Seq(Byte)
    [] t = Bool    -> e \in BOOLEAN
    [] t = Double  -> IsImage(AsDouble(e), 8)
    [] t = Float   -> IsImage(AsDouble(e), 8) /\ IsImage(Narrow(AsDouble(e)), 4)
    [] t = Integer -> AsInt64(e) \in Int64
    [] OTHER       -> <<t, e>> \in Values

\* JSON is a finite tree.
ASSUME ValuesAssumption ==
  /\ Depth \in [Values -> Nat]
  /\ \A x \in Values :
       /\ x[1] \in Message
       /\ \A n \in DOMAIN x[2] \cap DOMAIN Types[x[1]] :
            LET t == Types[x[1]][n]
                elems == x[2][n].elems
            IN  /\ elems = [j \in 1..Len(elems) |-> elems[j]] /\ Len(elems) \in Nat
                /\ \A j \in 1..Len(elems) :
                     /\ IsElement(elems[j], t)
                     /\ t \in Message => Depth[<<t, elems[j]>>] < Depth[x]

----------------------------------------------------------------------------
\* Seven bits at a time, the least significant first; all but the last byte
\* have the high bit.
WriteVarint[v \in Nat] ==
  IF v < 128 THEN <<v>> ELSE <<128 + (v % 128)>> \o WriteVarint[v \div 128]

WriteTag(n, wt) == WriteVarint[n * 8 + wt]

\* static_cast<uint64_t> of an int64_t.
TwosComplement(i) == IF i < 0 THEN i + Modulus ELSE i

Delimited(n, s) == WriteTag(n, 2) \o WriteVarint[Len(s)] \o s

\* encode_value: one element of field n; code[y] is encode of the sub-message y.
EncodeValue(n, e, t, code) ==
  CASE t = Strings -> Delimited(n, e)
    [] t = Bool    -> WriteTag(n, 0) \o WriteVarint[IF e THEN 1 ELSE 0]
    [] t = Double  -> WriteTag(n, 1) \o AsDouble(e)
    [] t = Float   -> WriteTag(n, 5) \o Narrow(AsDouble(e))
    [] t = Integer -> WriteTag(n, 0) \o WriteVarint[TwosComplement(AsInt64(e))]
    [] OTHER       -> Delimited(n, code[<<t, e>>])

\* The elements of a message: every field of the schema in order, an array one
\* by one.
Items(x) ==
  LET field(n) == IF n \in DOMAIN x[2]
                  THEN [j \in 1..Len(x[2][n].elems) |-> [field |-> n, elem |-> x[2][n].elems[j]]]
                  ELSE <<>>
  IN  FlattenSeq([n \in 1..Len(Types[x[1]]) |-> field(n)])

FieldType(x, item) == Types[x[1]][item.field]

Encode[x \in Values] ==
  FlattenSeq([i \in 1..Len(Items(x)) |->
                EncodeValue(Items(x)[i].field, Items(x)[i].elem, FieldType(x, Items(x)[i]), Encode)])

----------------------------------------------------------------------------
\* What the decoder makes of an element: the element in the type of its field.
Image(e, t, image) ==
  CASE t = Strings -> e
    [] t = Bool    -> <<e>>
    [] t = Double  -> AsDouble(e)
    [] t = Float   -> Widen(Narrow(AsDouble(e)))
    [] t = Integer -> <<AsInt64(e)>>
    [] OTHER       -> image[<<t, e>>]

\* What is left of a value on the wire: the elements of all fields in the order
\* of the schema.  That a field was an array is lost: an empty one is absent,
\* one of one element is a scalar.  So are the fraction of a number in an
\* integer field, digits of one in a float field, and what JSON stood for an
\* object: it comes back as one without fields.
Elements[x \in Values] ==
  [i \in 1..Len(Items(x)) |->
     [field |-> Items(x)[i].field,
      val |-> Image(Items(x)[i].elem, FieldType(x, Items(x)[i]), Elements)]]
=============================================================================
