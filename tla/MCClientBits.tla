---------------------------- MODULE MCClientBits ----------------------------
(***************************************************************************)
(* An instance of what a client hands over as bits:                        *)
(* - sampling probabilities: all floats of seven bits, thresholds of seven *)
(*   bits, doubles with five significant bits;                             *)
(* - keys: words of six bits, integers of two, three and six bits,         *)
(*   floating-point numbers of four and six;                               *)
(* - images from elsewhere: a right header with any short body, every      *)
(*   single defect of the header with a few bodies, and bytes cut off or   *)
(*   appended.                                                             *)
(*                                                                         *)
(* The three have no state in common: each is explored while the other two *)
(* rest, instead of every combination of their states.                     *)
(***************************************************************************)
EXTENDS ThetaImage, KeyNormalization, ThetaSampling

MCGiven == [exp |-> 4, mant |-> 2]
MCExact == [exp |-> 5, mant |-> 4]

MCFloat  == [exp |-> 2, mant |-> 1]
MCDouble == [exp |-> 3, mant |-> 2]

Bodies(n) == UNION {[1 .. m -> Words] : m \in 0 .. n}

Base == {"read_only", "compact", "ordered"}

Image(longs, version, type, flags, hash, body, extra) ==
  [preamble_longs |-> longs, version |-> version, type |-> type, flags |-> flags,
   seed_hash |-> hash, body |-> body, size |-> 8 * (1 + Len(body)) + extra]

FewBodies == {<<>>, <<1>>, <<1, 2>>, <<0, 2>>, <<1, 3, 2>>}

MCForeign ==
  {Image(l, 3, 3, f, 1, b, 0) :
     l \in 1 .. 3, f \in {Base, Base \cup {"empty"}}, b \in Bodies(3)}
  \cup {Image(3, 3, 3, Base, 1, <<2, t, g, h>>, 0) : t \in Words, g \in Words, h \in Words}
  \cup {Image(l, 3, 3, Base, 1, b, 0) : l \in {0, 4}, b \in FewBodies}
  \cup {Image(l, v, y, Base, 1, b, 0) :
          l \in 1 .. 3, v \in {3, 4}, y \in {2, 3}, b \in FewBodies}
  \cup {Image(l, 3, 3, f, h, b, 0) :
          l \in 1 .. 3, h \in {1, 2}, b \in FewBodies,
          f \in {Base \cup {"big_endian"}, Base \ {"compact"}, Base \ {"ordered"},
                 Base \cup {"empty"}, Base}}
  \cup {Image(l, 3, 3, Base, 1, b, x) : l \in 1 .. 3, b \in FewBodies, x \in {-1, 1, 7}}

-----------------------------------------------------------------------------

\* The default argument, one.
DefaultProbability == Parts = Scale

NoImageYet ==
  /\ initial = MaxTheta /\ sketch = Fresh(MaxTheta)
  /\ image = Serialized(sketch) /\ ~own

MCInit ==
  /\ SamplingInit /\ KeysInit /\ Init
  /\ DefaultProbability \/ NoImageYet

MCNext ==
  \/ NoImageYet /\ Construct /\ UNCHANGED <<vars, keyVars>>
  \/ NoImageYet /\ DefaultProbability /\ phase = "returned"
       /\ KeysNext /\ UNCHANGED <<vars, samplingVars>>
  \/ DefaultProbability /\ phase = "called" /\ Next /\ UNCHANGED <<keyVars, samplingVars>>

MCSpec == MCInit /\ [][MCNext]_<<vars, keyVars, samplingVars>>
=============================================================================
