---------------------------- MODULE ThetaPolicy ----------------------------
(***************************************************************************)
(* The pure part of the Theta sketch: the two device predicates of         *)
(* policy.cuh and the arithmetic of sketch_impl::install.                  *)
(*                                                                         *)
(* A hash is a natural number; 0 is the reserved "no hash" value.  The     *)
(* sketch's device buffer is strictly ascending, so it is determined by    *)
(* the set of its elements and is modelled by that set: element n of the   *)
(* buffer is Nth(S, n).                                                    *)
(***************************************************************************)
EXTENDS Integers, FiniteSets

CONSTANT MaxTheta  \* max_theta, the theta of a sketch that excludes nothing

ASSUME PolicyAssumption == MaxTheta \in Nat \ {0}

Hashes == 0 .. MaxTheta

Lesser(a, b)  == IF a <= b THEN a ELSE b
Greater(a, b) == IF a >= b THEN a ELSE b

-----------------------------------------------------------------------------
(* Predicates of policy.cuh.                                               *)

\* screen_hash: zero is the sentinel, and theta itself is not retained.
ScreenHash(t, h) == h # 0 /\ h < t

\* The hashes of C that a screen at theta t lets through.
Screened(C, t) == {h \in C : ScreenHash(t, h)}

\* membership_filter: screened, then found in the other sketch or not.
MembershipFilter(other, t, keep_matches, h) ==
  /\ ScreenHash(t, h)
  /\ (h \in other) = keep_matches

-----------------------------------------------------------------------------
(* install: the k smallest hashes stay and hash number k becomes theta.    *)

Below(S, x) == {g \in S : g < x}

\* data[n] of the ascending array that holds S.
Nth(S, n) == CHOOSE h \in S : Cardinality(Below(S, h)) = n

Retained(S, k) ==
  IF Cardinality(S) > k THEN Below(S, Nth(S, k)) ELSE S

\* Faulty variant: the last hash that stays becomes theta, not the first to go.
ThetaAfterLastRetained(S, k, t) ==
  IF Cardinality(S) > k THEN Nth(S, k - 1) ELSE t

ThetaAfter(S, k, t) ==
  IF Cardinality(S) > k THEN Nth(S, k) ELSE t

Installed(combined, k, t, empty, initial) ==
  [hashes   |-> Retained(combined, k),
   theta    |-> IF empty THEN initial ELSE ThetaAfter(combined, k, t),
   is_empty |-> empty]

-----------------------------------------------------------------------------
(* A sketch that an operation can be called on, whatever built it: hashes  *)
(* below theta, at most k of them, none if it is known to be empty.        *)

Sketches(k) ==
  {s \in [hashes : SUBSET (1 .. MaxTheta), theta : 1 .. MaxTheta,
          is_empty : BOOLEAN] :
     /\ s.hashes \subseteq Below(s.hashes, s.theta)
     /\ Cardinality(s.hashes) <= k
     /\ s.is_empty => s.hashes = {}}

(* What a Theta sketch is, stated without the algorithm: the hashes below  *)
(* a threshold t <= p of everything in S, at most k of them, the threshold *)
(* being either p itself or a member of S that k smaller ones precede.     *)

IsSummary(S, k, p, hs, t) ==
  /\ hs = {h \in S : 0 < h /\ h < t}
  /\ Cardinality(hs) <= k
  /\ t <= p
  /\ t < p => t \in S /\ Cardinality(hs) = k
=============================================================================
