------------------------------ MODULE HllPolicy ------------------------------
(***************************************************************************)
(* How a hash becomes a coupon (a register and a value for it), and the    *)
(* lattice of register arrays, whose join is the maximum.                  *)
(*                                                                         *)
(* A key is its hash <<h1, h2>>, two words of Width bits (64 in the code). *)
(***************************************************************************)
EXTENDS Integers, FiniteSetsExt

CONSTANTS
  Width,  \* bits of each half of a hash
  LgKs    \* precisions in use

\* The precisions are those of checkLgK, 4 .. 21, or smaller.
ASSUME PolicyAssumption == Width \in Nat \ {0, 1} /\ LgKs \subseteq 0 .. 21

\* What exponentiation is, as far as the exponents below go: the provers have no
\* theory of it.
ASSUME PowerAssumption == \A n \in (0 .. Width - 1) \cup (0 .. 25) : 2 ^ (n + 1) = 2 * 2 ^ n

Keys == (0 .. 2 ^ Width - 1) \X (0 .. 2 ^ Width - 1)

\* The largest value a register can have; 63 in the code.
MaxRho == Width - 1

register_index(h1, precision) == h1 % 2 ^ precision

CountlZero(h2) == Cardinality({b \in 0 .. Width - 1 : h2 < 2 ^ b})

\* Faulty variant: a second half of zeros counts in full.
ValueUncapped(h2) == CountlZero(h2) + 1

register_value(h2) == Min({CountlZero(h2), Width - 2}) + 1

-----------------------------------------------------------------------------
Slots(lgK) == 0 .. 2 ^ lgK - 1

Arrays(lgK) == [Slots(lgK) -> 0 .. MaxRho]

Zeros(lgK) == [i \in Slots(lgK) |-> 0]

\* The register writes that a batch of keys asks for.
Coupons(batch, lgK) ==
  {<<register_index(k[1], lgK), register_value(k[2])>> : k \in batch}

Larger(x, y) == IF x < y THEN y ELSE x

-----------------------------------------------------------------------------
(* The CPU sketch (external): a coupon is the low 26 bits of h1 and the     *)
(* leading zeros of h2, up to 62, plus 1; a batch gives every slot the      *)
(* largest value.                                                          *)

CpuSlot(h1, lgK) == (h1 % 2 ^ 26) % 2 ^ lgK

CpuValue(h2) ==
  CHOOSE v \in 1 .. MaxRho :
    /\ h2 < 2 ^ (Width - v + 1)
    /\ v < MaxRho => h2 >= 2 ^ (Width - v)

ArrayOf(batch, lgK) ==
  [i \in Slots(lgK) |->
     Max({0} \cup {CpuValue(k[2]) : k \in {j \in batch : CpuSlot(j[1], lgK) = i}})]

-----------------------------------------------------------------------------
Join(a, b) == [i \in DOMAIN a |-> Larger(a[i], b[i])]

Leq(a, b) == DOMAIN a = DOMAIN b /\ \A i \in DOMAIN a : a[i] <= b[i]
=============================================================================
