---------------------------- MODULE FloatFormat ----------------------------
(***************************************************************************)
(* IEEE binary formats of any size, as bit patterns: one sign bit, f.exp   *)
(* bits of exponent, f.mant bits of mantissa.  The standard's, not the     *)
(* repository's: the code relies on them for float and double.             *)
(***************************************************************************)
EXTENDS Integers

\* The recursion that powers of two obey, up to 2^n.  The provers know no more
\* of 2^n than this says.
Powers(n) == 2 ^ 0 = 1 /\ \A i \in 0 .. n - 1 : 2 ^ (i + 1) = 2 * 2 ^ i

Formats == [exp : Nat \ {0, 1}, mant : Nat \ {0}]

Size(f) == 1 + f.exp + f.mant

Patterns(f) == 0 .. 2 ^ Size(f) - 1

SignBit(f, b)  == b \div 2 ^ (f.exp + f.mant)
Exponent(f, b) == (b \div 2 ^ f.mant) % 2 ^ f.exp
Mantissa(f, b) == b % 2 ^ f.mant

Special(f, b) == Exponent(f, b) = 2 ^ f.exp - 1
IsNaN(f, b)   == Special(f, b) /\ Mantissa(f, b) # 0

\* Without its sign, in units of the smallest subnormal number; an infinity
\* is greater than every number.
Magnitude(f, b) ==
  IF Exponent(f, b) = 0
  THEN Mantissa(f, b)
  ELSE (2 ^ f.mant + Mantissa(f, b)) * 2 ^ (Exponent(f, b) - 1)

\* With its sign; both zeros are zero.
Number(f, b) == IF SignBit(f, b) = 1 THEN -Magnitude(f, b) ELSE Magnitude(f, b)

\* That unit is 2 to this power.
UnitExponent(f) == 2 - 2 ^ (f.exp - 1) - f.mant

\* Every number of the narrow format is one of the wide format.
Fits(narrow, wide) ==
  narrow.exp <= wide.exp /\ narrow.mant <= wide.mant

\* The same number in the wide format; a NaN keeps its sign and its payload.
Widened(narrow, wide, b) ==
  CHOOSE d \in Patterns(wide) :
    /\ SignBit(wide, d) = SignBit(narrow, b)
    /\ Special(wide, d) = Special(narrow, b)
    /\ IF Special(narrow, b)
       THEN Mantissa(wide, d) = Mantissa(narrow, b) * 2 ^ (wide.mant - narrow.mant)
       ELSE Magnitude(wide, d) =
              Magnitude(narrow, b) * 2 ^ (UnitExponent(narrow) - UnitExponent(wide))
=============================================================================
