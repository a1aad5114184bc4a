------------------------------ MODULE HllTable ------------------------------
(***************************************************************************)
(* The interpolation table of the composite estimator and the cubic        *)
(* through four of its nodes.                                              *)
(*                                                                         *)
(* XValues[i] is the raw estimate, in units of 1/Unit, that stands for a   *)
(* cardinality of YStride * i.  Results are in the same unit.  The code    *)
(* computes in double precision; here every product is exact and every     *)
(* quotient is rounded down.                                               *)
(***************************************************************************)
EXTENDS Integers, FiniteSetsExt

CONSTANTS
  LastXOffset,  \* offset of the last node of a row; 256 in the code
  XValues,      \* a row of the table
  YStride,      \* distance of the cardinalities of two nodes
  Unit          \* fractions of one that estimates are counted in

ASSUME TableAssumption ==
  /\ LastXOffset \in Nat /\ LastXOffset >= 3
  /\ XValues \in [0 .. LastXOffset -> Nat]
  /\ \A i, j \in 0 .. LastXOffset : i < j => XValues[i] < XValues[j]
  /\ YStride \in Nat \ {0} /\ Unit \in Nat \ {0}

Offsets == 0 .. LastXOffset

\* The cardinality a node stands for.
YValue(i) == Unit * YStride * i

\* The raw estimates that interpolation is for.
Inside(x) == XValues[0] <= x /\ x <= XValues[LastXOffset]

\* The interval between two nodes that x lies in; the last one is open.
Straddle(x) ==
  CHOOSE i \in 0 .. LastXOffset - 1 : XValues[i] <= x /\ x < XValues[i + 1]

-----------------------------------------------------------------------------
(* The window of four nodes and the Lagrange cubic through them. *)

\* Faulty variant: the last interval is treated like those before it.
WindowBaseUncapped(offset) == IF offset = 0 THEN 0 ELSE offset - 1

WindowBase(offset) ==
  CASE offset = 0               -> 0
    [] offset = LastXOffset - 1 -> offset - 2
    [] OTHER                    -> offset - 1

Window(base) == base .. base + 3

\* Faulty variant: one of the three factors is missing.
DistancesShort(x, S) == ProductSet({x - XValues[i] : i \in S \ {Max(S)}})

\* The product of the distances of x to the nodes in S.
Distances(x, S) == ProductSet({x - XValues[i] : i \in S})

\* x's share of node i, as parts of `scale`.
Share(scale, x, i, S) ==
  LET numer == scale * Distances(x, S \ {i})
      denom == Distances(XValues[i], S \ {i})
  IN  IF denom > 0 THEN numer \div denom ELSE (-numer) \div (-denom)

\* The shares sum to one, so that of the first node's cardinality is one.
cubic_interpolate(x, base) ==
  YValue(base) + MapThenSumSet(LAMBDA j : Share(Unit * YStride * j, x, base + j, Window(base)), 1 .. 3)

\* What interpolate_composite computes, without its search.
Interpolated(x) ==
  IF x = XValues[LastXOffset] THEN YValue(LastXOffset)
  ELSE cubic_interpolate(x, WindowBase(Straddle(x)))
=============================================================================
