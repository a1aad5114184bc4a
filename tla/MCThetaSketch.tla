--------------------------- MODULE MCThetaSketch ---------------------------
(***************************************************************************)
(* Instances of ThetaSketch: two sketches that differ in k and in sampling *)
(* probability, and three alike but for the seed of one.                   *)
(***************************************************************************)
EXTENDS ThetaSketch, TLC

CONSTANTS a, b, c, seed1, seed2

PairK       == (a :> 2) @@ (b :> 1)
PairSampled == (a :> 5) @@ (b :> 4)

TrioK       == [s \in {a, b, c} |-> 2]
TrioSampled == [s \in {a, b, c} |-> 4]

OneSeed  == [s \in {a, b, c} |-> seed1]
TwoSeeds == (a :> seed1) @@ (b :> seed1) @@ (c :> seed2)

DistinctSeedHash == (seed1 :> 1) @@ (seed2 :> 2)
EqualSeedHash    == (seed1 :> 1) @@ (seed2 :> 1)

OneKeyAtATime == {{h} : h \in Hashes}
UpToTwoKeys   == {{g, h} : g \in Hashes, h \in Hashes}

\* Nothing an operation does depends on the history variable; of it, only the
\* seeds are looked at where this is the view.
Values == <<sk, initial, [s \in Sketch |-> hist[s].seeds]>>
=============================================================================
