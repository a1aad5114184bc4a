---------------------------- MODULE HllEstimator ----------------------------
(***************************************************************************)
(* The composite estimate of a register array and the bounds around it,    *)
(* followed while registers are raised.                                    *)
(*                                                                         *)
(* The estimate depends on how many registers have each value, so that is  *)
(* the state.  Numbers are counted in units of 1/Unit, the harmonic sum in *)
(* units of 2^-MaxValue; quotients are rounded, products are exact.        *)
(***************************************************************************)
EXTENDS HllTable

CONSTANTS
  LgK,           \* precision, with the row of the table that goes with it
  MaxValue,      \* bound on register values; 63 in the code
  LowerRelErr,   \* thousandths; datasketches::HllUtil::getRelErr
  UpperRelErr    \* the same, without its sign

ASSUME EstimatorAssumption ==
  /\ LgK \in Nat /\ LgK >= 4
  /\ MaxValue \in Nat \ {0}
  /\ LowerRelErr \in 1 .. 999 /\ UpperRelErr \in 1 .. 999

VARIABLES
  count,    \* count[v]: the registers of value v
  answer    \* what get_estimate returns, and the formula it came from

vars == <<count, answer>>

K == 2 ^ LgK

Values == 0 .. MaxValue

-----------------------------------------------------------------------------
(* The two estimates. *)

\* Rounded to the nearest integer.
Quotient(a, b) == (2 * a + b) \div (2 * b)

\* The sum of the inverse powers, in units of 2^-MaxValue.
HarmonicSum(c) == SumFunction([v \in Values |-> c[v] * 2 ^ (MaxValue - v)])

\* In ten-thousandths.
CorrectionFactor ==
  CASE LgK = 4 -> 6730
    [] LgK = 5 -> 6970
    [] LgK = 6 -> 7090
    [] OTHER   -> (7213 * 1000 * K) \div (1000 * K + 1079)

raw_estimate(c) ==
  Quotient(((CorrectionFactor * K * K * Unit) \div 1000) * 2 ^ MaxValue, 10 * HarmonicSum(c))

\* For HLL_8 the least value is always taken to be zero.
NumZeroes(c) == c[0]

\* H(K) - H(zeroes), in millionths.
HarmonicDifference(zeroes) ==
  SumFunction([i \in zeroes + 1 .. K |-> 1000000 \div i])

\* K * ln(2 * K), with ln 2 in millionths: K log(K / 0.5).
Saturated == (Unit * K * (LgK + 1) * 6931) \div 10000

\* Faulty variant: the harmonic sums differ by one term too many.
BitmapEstimateBiased(zeroes) ==
  IF zeroes = 0 THEN Saturated
  ELSE (K * HarmonicDifference(zeroes - 1)) \div (1000000 \div Unit)

bitmap_estimate(zeroes) ==
  IF zeroes = 0 THEN Saturated
  ELSE (K * HarmonicDifference(zeroes)) \div (1000000 \div Unit)

-----------------------------------------------------------------------------
(* The choice between them. *)

Regimes == <<"below", "bitmap", "interpolated", "large", "extrapolated">>

Answer(estimate, regime) == [estimate |-> estimate, regime |-> regime]

\* In thousandths of K.
Crossover ==
  CASE LgK = 4 -> 718
    [] LgK = 5 -> 672
    [] OTHER   -> 640

BeyondCrossover(adjusted, linear) == (adjusted + linear) * 1000 > 2 * Crossover * K * Unit

\* Faulty variant: the answers of the last test are swapped.
SmallEstimateSwapped(adjusted, linear) ==
  IF BeyondCrossover(adjusted, linear)
  THEN Answer(linear, "bitmap")
  ELSE Answer(adjusted, "interpolated")

SmallEstimate(adjusted, linear) ==
  IF BeyondCrossover(adjusted, linear)
  THEN Answer(adjusted, "interpolated")
  ELSE Answer(linear, "bitmap")

Extrapolated(raw) == (raw * YValue(LastXOffset)) \div XValues[LastXOffset]

composite_estimate(c) ==
  LET raw      == raw_estimate(c)
      adjusted == Interpolated(raw)
  IN  CASE raw < XValues[0]           -> Answer(0, "below")
        [] raw > XValues[LastXOffset] -> Answer(Extrapolated(raw), "extrapolated")
        [] Inside(raw) -> IF adjusted > 3 * K * Unit
                          THEN Answer(adjusted, "large")
                          ELSE SmallEstimate(adjusted, bitmap_estimate(NumZeroes(c)))

Occupied == K - NumZeroes(count)

\* Faulty variant: the zeros are counted.
LowerBoundOfZeros == Max({(answer.estimate * 1000) \div (1000 + LowerRelErr), Unit * NumZeroes(count)})

get_lower_bound == Max({(answer.estimate * 1000) \div (1000 + LowerRelErr), Unit * Occupied})

get_upper_bound == (answer.estimate * 1000) \div (1000 - UpperRelErr)

-----------------------------------------------------------------------------

Empty == [v \in Values |-> IF v = 0 THEN K ELSE 0]

Init == count = Empty /\ answer = composite_estimate(Empty)

\* The atomic maximum of an update or a merge raises a register.
Raise(low, high) ==
  /\ low < high /\ count[low] > 0
  /\ count' = [count EXCEPT ![low] = @ - 1, ![high] = @ + 1]
  /\ answer' = composite_estimate(count')

Next == \E low, high \in Values : Raise(low, high)

Spec == Init /\ [][Next]_vars

-----------------------------------------------------------------------------

TypeOK ==
  /\ count \in [Values -> 0 .. K]
  /\ SumFunction(count) = K
  /\ answer \in [estimate : Nat, regime : {Regimes[i] : i \in 1 .. 5}]

\* The estimate is zero for the empty sketch and for no other, although the
\* raw estimate of the empty sketch lies on the first node of the table.
ZeroMeansEmpty == answer.estimate = 0 <=> Occupied = 0

\* The lower bound, which also counts the occupied registers, never passes the
\* upper one, which does not.
BoundsDoNotCross == get_lower_bound <= get_upper_bound

\* The formulas take turns in one order: once a sketch has left one for the
\* next, no key brings it back.  And no key lowers the estimate, except where
\* the answer passes from the bitmap estimate to the interpolated one.
RisesInOrder ==
  [][/\ \E i, j \in 1 .. 5 :
          i <= j /\ answer.regime = Regimes[i] /\ answer'.regime = Regimes[j]
     /\ answer'.estimate < answer.estimate =>
          answer.regime = "bitmap" /\ answer'.regime = "interpolated"]_vars

\* What a test of the repository says of the bounds.
BoundsEncloseEstimate ==
  get_lower_bound <= answer.estimate /\ answer.estimate <= get_upper_bound
=============================================================================
