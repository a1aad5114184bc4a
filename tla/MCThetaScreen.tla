--------------------------- MODULE MCThetaScreen ---------------------------
(***************************************************************************)
(* Launches of screen_kernel: duplicates inside a warp, across the warps   *)
(* of a block and across tiles, hashes that share a filter slot, rejected  *)
(* hashes, a last tile that is not full, a grid smaller than the input and *)
(* one with a block too many, with room for all survivors and without.     *)
(***************************************************************************)
EXTENDS ThetaScreen

Launch(keys, grid, capacity) ==
  [keys |-> keys, grid |-> grid, capacity |-> capacity]

MCLaunches ==
  { Launch(<<1, 1, 1, 3, 3, 4, 0, 1, 3>>, 1, 2),
    Launch(<<1, 0, 3, 2, 0, 1, 4, 0, 1, 3>>, 1, 5),
    Launch(<<1, 3, 0, 2, 2, 1, 4, 1, 3, 1>>, 2, 3),
    Launch(<<3, 1>>, 2, 2) }
=============================================================================
