--------------------------- MODULE MCThetaStreams ---------------------------
(***************************************************************************)
(* An instance of ThetaStreams: two sketches and two streams, which can be *)
(* interchanged.                                                           *)
(***************************************************************************)
EXTENDS ThetaStreams, TLC

CONSTANTS s1, s2, st1, st2

Interchangeable == Permutations({s1, s2}) \cup Permutations({st1, st2})
=============================================================================
