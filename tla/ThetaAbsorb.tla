---------------------------- MODULE ThetaAbsorb ----------------------------
(***************************************************************************)
(* What theta_sketch::update promises: a batch is absorbed as a sequence   *)
(* of atomic steps (theta.hpp: "chunks commit independently").  Each step  *)
(* turns the sketch into the summary of what it held and some more keys,   *)
(* and nothing else ever changes it.  How large a step is, how often the   *)
(* device was asked and what failed on the way is not visible.             *)
(***************************************************************************)
EXTENDS ThetaPolicy

CONSTANT K  \* nominal k

VARIABLES hashes, theta, is_empty,
          rep   \* the hashes of all keys absorbed so far

vars == <<hashes, theta, is_empty, rep>>

Init ==
  \E s \in Sketches(K) :
    /\ hashes = s.hashes /\ theta = s.theta /\ is_empty = s.is_empty
    /\ rep = s.hashes

\* The keys C become part of the sketch, all at once.
Absorb(C) ==
  /\ C # {}
  /\ IsSummary(hashes \cup C, K, theta, hashes', theta')
  /\ is_empty' = FALSE
  /\ rep' = rep \cup C

Next == \E C \in SUBSET Hashes : Absorb(C)

Spec == Init /\ [][Next]_vars
=============================================================================
