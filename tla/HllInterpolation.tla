-------------------------- MODULE HllInterpolation --------------------------
(***************************************************************************)
(* interpolate_composite: a binary search for the interval of the table    *)
(* that holds the raw estimate, the choice of four nodes around it, and    *)
(* the cubic through them.  Host and device run the same code.             *)
(***************************************************************************)
EXTENDS HllTable

CONSTANT RawEstimates  \* the arguments to try

ASSUME RawEstimatesAssumption == \A r \in RawEstimates : r \in Nat /\ Inside(r)

VARIABLES
  place,        \* where the call is
  x,            \* its argument
  left, right,  \* the search has narrowed the interval to these nodes
  adjusted      \* the result

searchVars == <<place, x, left, right, adjusted>>

SearchTypeOK ==
  /\ place \in {"called", "search", "returned"}
  /\ x \in RawEstimates
  /\ left \in Offsets /\ right \in Offsets
  /\ adjusted \in Int

-----------------------------------------------------------------------------

Rightmost == LastXOffset

SearchInit ==
  /\ place = "called" /\ x \in RawEstimates
  /\ left = 0 /\ right = Rightmost /\ adjusted = 0

Call ==
  /\ place = "returned"
  /\ place' = "called"
  /\ x' \in RawEstimates
  /\ left' = 0 /\ right' = Rightmost /\ adjusted' = 0

\* The last node belongs to no half-open interval.
AtLast == x = XValues[LastXOffset]

ReturnLast ==
  /\ place = "called" /\ AtLast
  /\ adjusted' = YValue(LastXOffset)
  /\ place' = "returned"
  /\ UNCHANGED <<x, left, right>>

Search ==
  /\ place = "called" /\ ~AtLast
  /\ place' = "search"
  /\ UNCHANGED <<x, left, right, adjusted>>

\* Faulty variant: the loop does not stop at neighbouring nodes.
ApartTooLong == left + 1 <= right

Apart == left + 1 < right

Halve ==
  /\ place = "search" /\ Apart
  /\ LET middle == left + ((right - left) \div 2)
     IN  IF XValues[middle] <= x
         THEN left' = middle /\ right' = right
         ELSE right' = middle /\ left' = left
  /\ UNCHANGED <<place, x, adjusted>>

Interpolate ==
  /\ place = "search" /\ ~Apart
  /\ adjusted' = cubic_interpolate(x, WindowBase(left))
  /\ place' = "returned"
  /\ UNCHANGED <<x, left, right>>

Step == ReturnLast \/ Search \/ Halve \/ Interpolate

SearchNext == Call \/ Step

\* A call that has begun goes on.
SearchSpec == SearchInit /\ [][SearchNext]_searchVars /\ WF_searchVars(Step)

-----------------------------------------------------------------------------

\* The search ends at the interval that the argument lies in, and the four
\* nodes around it are nodes of the row: among them are the interval's ends and
\* both neighbours, if it has them (composite_finalizer.cuh 105-120, 155-156).
WindowCentred ==
  (place = "search" /\ ~Apart) =>
    LET window == Window(WindowBase(left))
    IN  /\ left = Straddle(x)
        /\ window \subseteq Offsets
        /\ (left - 1 .. left + 2) \cap Offsets \subseteq window

\* The adjusted estimate is that of the node when the argument is a node, and
\* between the two nodes' otherwise: interpolate_composite neither jumps at
\* the seams of its windows nor overshoots.
BetweenNodes ==
  place = "returned" =>
    \A i \in Offsets : /\ (x <= XValues[i] => adjusted <= YValue(i))
                       /\ (x >= XValues[i] => adjusted >= YValue(i))

\* Every call returns.
Returns == (place = "called") ~> (place = "returned")
=============================================================================
