--------------------------- MODULE MCThetaArrays ---------------------------
(***************************************************************************)
(* An instance of ThetaArrays: two sketches that differ in k and sampling. *)
(***************************************************************************)
EXTENDS ThetaArrays, TLC

CONSTANTS a, b, seed

PairK       == (a :> 3) @@ (b :> 2)
PairSampled == (a :> 7) @@ (b :> 6)
OneSeed     == [s \in {a, b} |-> seed]
OneSeedHash == seed :> 1

Batches == {{h} : h \in Hashes} \cup {{2, 4, 5}, {1, 3, 6}}

\* Nothing an operation does depends on the history variable.
Values == <<array, initial>>
=============================================================================
