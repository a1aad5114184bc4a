----------------------------- MODULE MCHllSketch -----------------------------
(***************************************************************************)
(* Four-bit half hashes: registers hold 0 .. 3.  The keys share a register *)
(* or not, and one has a second half of zeros.  The images from elsewhere  *)
(* are a good one of another writer, and one of each defect.               *)
(***************************************************************************)
EXTENDS HllSketch, TLC

MCBatches == {{<<2, 4>>, <<5, 8>>}, {<<3, 0>>}}

MCEarlier == {{<<4, 5>>}}

Image(ints, ver, fam, lgK, mode, body, size) ==
  [preamble_ints |-> ints, ser_ver |-> ver, family |-> fam, lgK |-> lgK,
   flags |-> {"full_size", "empty"}, cur_min |-> 1, mode_byte |-> mode, hip_accum |-> 5,
   kxq0 |-> 3, kxq1 |-> 0, num_at_cur_min |-> 1, body |-> body, size |-> size]

Good == Image(10, 1, 7, 1, 10, <<2, 1>>, 42)

MCForeign ==
  {Good,
   [Good EXCEPT !.preamble_ints = 3], [Good EXCEPT !.ser_ver = 2],
   [Good EXCEPT !.family = 3], [Good EXCEPT !.lgK = 9],
   [Good EXCEPT !.mode_byte = 9], [Good EXCEPT !.mode_byte = 6],
   [Good EXCEPT !.body = <<2>>, !.size = 41], [Good EXCEPT !.body = <<>>, !.size = 39],
   [Good EXCEPT !.body = <<0, 4>>]}

Symmetric == Permutations(Streams) \cup Permutations(Sketches)
=============================================================================
