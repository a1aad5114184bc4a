--------------------------- MODULE ThetaSampling ---------------------------
(***************************************************************************)
(* The sampling probability of a Theta sketch: from the float a client     *)
(* gives to the threshold the sketch starts with, and to the probability   *)
(* it reports.                                                             *)
(*                                                                         *)
(* max_theta has more bits than a double's mantissa, so that it is rounded *)
(* up, to a power of two, wherever it is converted.                        *)
(***************************************************************************)
EXTENDS FloatFormat, FiniteSetsExt

CONSTANTS
  Width,   \* bits of a threshold; 63 in the code
  Given,   \* the format of the argument; float in the code
  Exact    \* the format of the arithmetic; double in the code

ASSUME SamplingAssumption ==
  /\ Given \in Formats /\ Exact \in Formats /\ Fits(Given, Exact)
  /\ Width \in Nat /\ Width > Exact.mant + 1
  /\ Width <= - UnitExponent(Given)

\* The powers that the numbers of an argument need.
ASSUME SamplingPowers == Powers(Size(Given)) /\ Powers(Size(Given) + 2 ^ Given.exp)

VARIABLES
  p,       \* the pattern of the argument
  theta,   \* the threshold, or Rejected
  phase    \* "called", then "returned"

samplingVars == <<p, theta, phase>>

max_theta == 2 ^ Width - 1

Rejected == -1

\* p is this number over Scale.
Parts == Number(Given, p)
Scale == 2 ^ (- UnitExponent(Given))

-----------------------------------------------------------------------------

\* The bits of a number that a double has no room for.
Excess(n) == Max({0} \union {b - Exact.mant : b \in {c \in Exact.mant .. Width : 2 ^ c <= n}})

\* Faulty variant: the conversion is exact.
RoundedNot(n) == n

\* An integer converted to double: rounded to the nearest, or to the even one.
Rounded(n) ==
  LET step == 2 ^ Excess(n)
      low  == n \div step
      rest == n % step
  IN  IF 2 * rest > step \/ (2 * rest = step /\ low % 2 = 1) THEN (low + 1) * step ELSE low * step

Positive == ~IsNaN(Given, p) /\ Parts > 0
AtMostOne == ~IsNaN(Given, p) /\ Parts <= Scale
BelowOne == ~IsNaN(Given, p) /\ Parts < Scale

\* The product is exact, its first factor being a power of two.
SampledTheta ==
  IF Positive /\ BelowOne THEN (Rounded(max_theta) * Parts) \div Scale ELSE max_theta

checked_theta ==
  IF ~(Positive /\ AtMostOne) \/ SampledTheta = 0 THEN Rejected ELSE SampledTheta

\* Over Scale, like p; the quotient is exact.
get_theta == (Scale * Rounded(theta)) \div Rounded(max_theta)

-----------------------------------------------------------------------------

SamplingInit == p \in Patterns(Given) /\ theta = Rejected /\ phase = "called"

Construct ==
  /\ phase = "called"
  /\ theta' = checked_theta
  /\ phase' = "returned"
  /\ UNCHANGED p

SamplingSpec == SamplingInit /\ [][Construct]_samplingVars

-----------------------------------------------------------------------------

SamplingTypeOK ==
  /\ p \in Patterns(Given)
  /\ theta \in (1 .. max_theta) \union {Rejected}
  /\ phase \in {"called", "returned"}

\* The constructor accepts what its documentation says, the probabilities from
\* 2^-Width to one, both included, and no NaN.
AcceptsDocumentedRange ==
  phase = "returned" =>
    (theta # Rejected <=> /\ ~IsNaN(Given, p)
                          /\ Scale <= Parts * 2 ^ Width
                          /\ Parts <= Scale)

\* A sketch that has seen keys and discarded none reports the probability it
\* was given, unless that has more digits than a threshold; then it reports
\* one that is smaller by less than a threshold's last digit.
ReportsProbability ==
  (phase = "returned" /\ theta # Rejected) =>
    /\ get_theta <= Parts
    /\ (Parts - get_theta) * 2 ^ Width < Scale
    /\ (Parts * 2 ^ Width) % Scale = 0 => get_theta = Parts
=============================================================================
