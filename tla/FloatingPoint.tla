---------------------------- MODULE FloatingPoint ----------------------------
(***************************************************************************)
(* The conversions the codec's casts make, on the memory images of doubles *)
(* and floats (IEEE 754, least significant byte first): for zero, and for  *)
(* numbers whose exponent both formats have and whose whole part is below  *)
(* 2^23.                                                                   *)
(*                                                                         *)
(* A number is its sign, its biased exponent, the upper 23 bits of its     *)
(* fraction and, in a double, the lower 29.                                *)
(***************************************************************************)
EXTENDS Integers, Sequences

LOCAL Parts(s, e, h, l) == [sign |-> s, exp |-> e, high |-> h, low |-> l]

LOCAL OfDouble(b) ==
  Parts(b[8] \div 128,
        (b[8] % 128) * 16 + b[7] \div 16,
        (b[7] % 16) * 2^19 + b[6] * 2^11 + b[5] * 2^3 + b[4] \div 32,
        (b[4] % 32) * 2^24 + b[3] * 2^16 + b[2] * 2^8 + b[1])

LOCAL DoubleOf(p) ==
  <<p.low % 256, (p.low \div 2^8) % 256, (p.low \div 2^16) % 256,
    (p.high % 8) * 32 + p.low \div 2^24,
    (p.high \div 2^3) % 256, (p.high \div 2^11) % 256,
    (p.exp % 16) * 16 + p.high \div 2^19, p.sign * 128 + p.exp \div 16>>

LOCAL OfFloat(b) ==
  Parts(b[4] \div 128, (b[4] % 128) * 2 + b[3] \div 128,
        (b[3] % 128) * 2^16 + b[2] * 2^8 + b[1], 0)

LOCAL FloatOf(p) ==
  <<p.high % 256, (p.high \div 2^8) % 256,
    (p.exp % 2) * 128 + p.high \div 2^16, p.sign * 128 + p.exp \div 2>>

\* The biases of the exponents differ by 896.
FloatToDouble(f) ==
  LET p == OfFloat(f)
  IN  DoubleOf(IF p.exp = 0 THEN p ELSE [p EXCEPT !.exp = @ + 896])

\* To the nearest float, to the even one of two.
DoubleToFloat(d) ==
  LET p == OfDouble(d)
      up == p.low > 2^28 \/ (p.low = 2^28 /\ p.high % 2 = 1)
      high == IF up THEN p.high + 1 ELSE p.high
  IN  FloatOf(IF p.exp = 0 THEN p
              ELSE [p EXCEPT !.high = high % 2^23, !.exp = @ - 896 + high \div 2^23])

\* The integer with 23 bits below its first one, k bits of which are whole.
IntegerToDouble(i) ==
  LET a == IF i < 0 THEN -i ELSE i
      k == CHOOSE k \in 0..22 : 2^k <= a /\ a < 2^(k + 1)
  IN  IF i = 0 THEN DoubleOf(Parts(0, 0, 0, 0))
      ELSE DoubleOf(Parts(IF i < 0 THEN 1 ELSE 0, 1023 + k, a * 2^(23 - k) - 2^23, 0))

\* The fraction is cut off.
DoubleToInteger(d) ==
  LET p == OfDouble(d)
      a == IF p.exp < 1023 THEN 0 ELSE (2^23 + p.high) \div 2^(23 - (p.exp - 1023))
  IN  IF p.sign = 1 THEN -a ELSE a
=============================================================================
