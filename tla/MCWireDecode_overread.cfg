\* Bytes: 8 9 10 13 = field 1 as varint, I64, LEN, I32; 18 = field 2 as LEN;
\* 24 25 26 = unknown field 3; 11 = wire type 3; 136 16 = field 257; 127 = the largest
\* last byte of a varint; 0..2.
SPECIFICATION Spec
CONSTANTS
  MaxLen = 4
  Alphabet = {0, 1, 2, 8, 9, 10, 11, 13, 16, 18, 24, 25, 26, 127, 136}
  Inputs <- MCInputs
  Types <- MCTypes
  Root = "outer"
  Widen <- FloatToDouble
  MaxGroups = 2
  Modulus <- MCModulus
  IntModulus <- MCIntModulus
  SizeModulus <- MCSizeModulus
INVARIANT NoOverread
CHECK_DEADLOCK FALSE
