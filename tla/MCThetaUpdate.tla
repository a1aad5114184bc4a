--------------------------- MODULE MCThetaUpdate ---------------------------
(***************************************************************************)
(* Batches for ThetaUpdate: more distinct survivors than the budget, the   *)
(* same survivor many times (an overflow of duplicates only), a duplicate  *)
(* run followed by distinct keys (the distribution changes mid-batch),     *)
(* rejected keys alone and before survivors, and nothing.                  *)
(***************************************************************************)
EXTENDS ThetaUpdate

MCBatches ==
  { <<>>, <<0>>, <<4, 3, 2, 1, 2>>, <<1, 1, 1, 1>>, <<3, 3, 3, 4, 2, 1>>,
    <<0, 0, 0, 1, 2, 3>> }
=============================================================================
