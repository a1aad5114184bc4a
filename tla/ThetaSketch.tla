---------------------------- MODULE ThetaSketch ----------------------------
(***************************************************************************)
(* The Theta sketch API over several sketches: update, merge, intersect,   *)
(* a_not_b, reset, and moving a sketch through its serialized image.       *)
(*                                                                         *)
(* Every operation completes before it returns and assigns the sketch only *)
(* in install, so each call is one atomic step; update is one step per     *)
(* chunk (ThetaUpdate shows that it is).  The second operand may be the    *)
(* sketch itself.  A call that throws, or that takes a no-op shortcut,     *)
(* leaves the state as it is and needs no action.                          *)
(***************************************************************************)
EXTENDS ThetaPolicy

CONSTANTS
  Sketch,        \* the sketch objects
  K,             \* K[s]: nominal k
  Seed,          \* Seed[s]: hash seed
  SeedHash,      \* SeedHash[x]: compute_seed_hash of the seed x
  SampledTheta,  \* SampledTheta[s]: the theta that p gives the constructor
  Chunks         \* the chunks of hashes that update feeds in

ASSUME SketchAssumption ==
  /\ K \in [Sketch -> Nat \ {0}]
  /\ SampledTheta \in [Sketch -> 1 .. MaxTheta]
  /\ \A s \in Sketch : Seed[s] \in DOMAIN SeedHash
  /\ Chunks \subseteq (SUBSET Hashes) \ {{}}

VARIABLES
  sk,       \* sk[s]: hashes_, theta_ and is_empty_
  initial,  \* initial[s]: initial_theta_
  hist      \* history of s: what it represents, whose hashes it holds, and
            \* whether it was built by updates and unions only

vars == <<sk, initial, hist>>

-----------------------------------------------------------------------------
(* The operations on sketch values.                                        *)

\* effective_theta: an empty sketch excludes nothing, however it samples.
EffectiveTheta(a) == IF a.is_empty THEN MaxTheta ELSE a.theta

\* Faulty variant: the retained hashes are folded in without their bound.
AbsorbOfUnscreened(a, C, k) ==
  Installed(a.hashes \cup (C \ {0}), k, a.theta, FALSE, a.theta)

\* update_chunk and the commit of the empty flag.
AbsorbOf(a, C, k) ==
  Installed(a.hashes \cup Screened(C, a.theta), k, a.theta, FALSE, a.theta)

\* Faulty variant: the other sketch's theta is not taken over.
MergeOfOwnTheta(a, b, k) ==
  Installed(Screened(a.hashes \cup b.hashes, a.theta), k, a.theta, FALSE, a.theta)

\* merge with a nonempty sketch.
MergeOf(a, b, k) ==
  LET theta == Lesser(a.theta, EffectiveTheta(b))
  IN  Installed(Screened(a.hashes \cup b.hashes, theta), k, theta, FALSE, theta)

\* reset
ResetOf(k, ini) == Installed({}, k, MaxTheta, TRUE, ini)

\* Faulty variant: nothing retained is taken for nothing represented.
RetainMatchingEmptied(a, b, keep_matches, k, ini) ==
  LET theta  == Lesser(EffectiveTheta(a), EffectiveTheta(b))
      result == {h \in a.hashes : MembershipFilter(b.hashes, theta, keep_matches, h)}
  IN  Installed(result, k, theta, result = {}, ini)

\* retain_matching: emptiness is established only by an exact result.
RetainMatching(a, b, keep_matches, k, ini) ==
  LET theta  == Lesser(EffectiveTheta(a), EffectiveTheta(b))
      result == {h \in a.hashes : MembershipFilter(b.hashes, theta, keep_matches, h)}
  IN  Installed(result, k, theta, result = {} /\ theta = MaxTheta, ini)

\* The shortcut of a_not_b.
SubtractsNothing(a, b) == a.is_empty \/ (a.hashes # {} /\ b.is_empty)

-----------------------------------------------------------------------------

Fresh(t) == [hashes |-> {}, theta |-> t, is_empty |-> TRUE]

NoHistory(t) == [rep |-> {}, seeds |-> {}, streamed |-> TRUE, p |-> t]

Init ==
  /\ sk = [s \in Sketch |-> Fresh(SampledTheta[s])]
  /\ initial = SampledTheta
  /\ hist = [s \in Sketch |-> NoHistory(SampledTheta[s])]

\* Faulty variant: sketches of any two seeds combine.
CombinableUnchecked(s, o) == TRUE

\* compute_seed_hash(seed_) == compute_seed_hash(other.seed_)
Combinable(s, o) == SeedHash[Seed[s]] = SeedHash[Seed[o]]

HistoryOfUpdate(s, C) ==
  [hist EXCEPT ![s].rep = @ \cup C, ![s].seeds = @ \cup {Seed[s]}]

\* One committed chunk of update(first, last).
Update(s, C) ==
  /\ sk' = [sk EXCEPT ![s] = AbsorbOf(sk[s], C, K[s])]
  /\ hist' = HistoryOfUpdate(s, C)
  /\ UNCHANGED initial

\* Only a union with an equally large or larger k is again the summary of a
\* stream.
HistoryOfMerge(s, o) ==
  [hist EXCEPT
     ![s] = [rep      |-> @.rep \cup hist[o].rep,
             seeds    |-> @.seeds \cup hist[o].seeds,
             streamed |-> @.streamed /\ hist[o].streamed /\ K[o] >= K[s],
             p        |-> Lesser(@.p, hist[o].p)]]

\* merge(other)
Merge(s, o) ==
  /\ ~sk[o].is_empty
  /\ Combinable(s, o)
  /\ sk' = [sk EXCEPT ![s] = MergeOf(sk[s], sk[o], K[s])]
  /\ hist' = HistoryOfMerge(s, o)
  /\ UNCHANGED initial

\* reset()
Reset(s) ==
  /\ sk' = [sk EXCEPT ![s] = ResetOf(K[s], initial[s])]
  /\ hist' = [hist EXCEPT ![s] = NoHistory(initial[s])]
  /\ UNCHANGED initial

\* intersect(other) with an empty sketch.
IntersectEmpty(s, o) ==
  /\ ~sk[s].is_empty
  /\ sk[o].is_empty
  /\ Reset(s)

\* What is left of the history of s when S is what it represents now.
Restricted(s, o, S) ==
  [rep |-> S, seeds |-> hist[s].seeds \cup hist[o].seeds, streamed |-> FALSE,
   p |-> initial[s]]

\* intersect(other)
Intersect(s, o) ==
  /\ ~sk[s].is_empty
  /\ ~sk[o].is_empty
  /\ Combinable(s, o)
  /\ sk' = [sk EXCEPT ![s] = RetainMatching(@, sk[o], TRUE, K[s], initial[s])]
  /\ hist' = [hist EXCEPT ![s] = Restricted(s, o, @.rep \cap hist[o].rep)]
  /\ UNCHANGED initial

\* a_not_b(other)
ANotB(s, o) ==
  /\ ~SubtractsNothing(sk[s], sk[o])
  /\ Combinable(s, o)
  /\ sk' = [sk EXCEPT ![s] = RetainMatching(@, sk[o], FALSE, K[s], initial[s])]
  /\ hist' = [hist EXCEPT ![s] = Restricted(s, o, @.rep \ hist[o].rep)]
  /\ UNCHANGED initial

HistoryOfDeserialize(s, o) ==
  [hist EXCEPT
     ![s] = IF sk[o].is_empty THEN NoHistory(MaxTheta)
            ELSE [hist[o] EXCEPT !.streamed = @ /\ K[o] = K[s]]]

\* s = deserialize(o.serialize_compact()): the image carries effective_theta,
\* the empty flag and the hashes, but neither k nor the sampling probability;
\* the new sketch is constructed with p = 1.  An empty image skips the seed.
Deserialize(s, o) ==
  /\ ~sk[o].is_empty => Combinable(s, o)
  /\ Cardinality(sk[o].hashes) <= K[s]
  /\ initial' = [initial EXCEPT ![s] = MaxTheta]
  /\ sk' = [sk EXCEPT ![s] =
       Installed(sk[o].hashes, K[s], EffectiveTheta(sk[o]), sk[o].is_empty, MaxTheta)]
  /\ hist' = HistoryOfDeserialize(s, o)

Next ==
  \E s \in Sketch :
    \/ \E C \in Chunks : Update(s, C)
    \/ Reset(s)
    \/ \E o \in Sketch :
         Merge(s, o) \/ IntersectEmpty(s, o) \/ Intersect(s, o)
           \/ ANotB(s, o) \/ Deserialize(s, o)

Spec == Init /\ [][Next]_vars

-----------------------------------------------------------------------------
(* Properties.                                                             *)

\* Every sketch is a legal one: at most k hashes, all of them below theta.
TypeOK ==
  /\ sk \in [Sketch -> [hashes : SUBSET (1 .. MaxTheta), theta : 1 .. MaxTheta,
                        is_empty : BOOLEAN]]
  /\ \A s \in Sketch : sk[s] \in Sketches(K[s])
  /\ initial \in [Sketch -> 1 .. MaxTheta]
  /\ hist \in [Sketch -> [rep : SUBSET Hashes, seeds : SUBSET DOMAIN SeedHash,
                          streamed : BOOLEAN, p : 1 .. MaxTheta]]

\* Whatever sequence of operations built it, with whatever operands, a sketch
\* holds exactly the hashes below its theta of the set that the same unions,
\* intersections and differences of the keys yield (theta.hpp 114-151).
Represents ==
  \A s \in Sketch :
    sk[s].hashes = {h \in hist[s].rep : 0 < h /\ h < sk[s].theta}

\* A sketch that calls itself empty represents no key, and one that is not in
\* estimation mode holds every key: the count is exact (theta.hpp 160-171).
\* The hashes 0 and MaxTheta can never be retained.
ExactUnlessEstimating ==
  \A s \in Sketch :
    sk[s].is_empty \/ sk[s].theta = MaxTheta =>
      sk[s].hashes = hist[s].rep \ {0, MaxTheta}

\* Merging the sketches of parts of a stream gives the very sketch that one
\* update over the whole stream would have given.
UnionIsParity ==
  \A s \in Sketch :
    hist[s].streamed =>
      IsSummary(hist[s].rep, K[s], hist[s].p, sk[s].hashes, sk[s].theta)

\* No sketch ever stands for keys that were given to a sketch of another seed,
\* be it by their hashes or by theta and the empty flag alone (theta.hpp 76-77);
\* shortcuts that skip the seed check included.
SeedsDoNotMix ==
  \A s \in Sketch : hist[s].seeds \subseteq {Seed[s]}

MergedInto(a, b, k) == IF b.is_empty THEN a ELSE MergeOf(a, b, k)

\* The order in which sketches of one k are merged does not show.
UnionOrderFree ==
  \A s, o, q \in Sketch :
    K[s] = K[o] /\ K[o] = K[q] /\ initial[s] = initial[o] /\ initial[o] = initial[q] =>
      LET k == K[s] IN
      /\ MergedInto(sk[s], sk[o], k) = MergedInto(sk[o], sk[s], k)
      /\ MergedInto(MergedInto(sk[s], sk[o], k), sk[q], k)
           = MergedInto(sk[s], MergedInto(sk[o], sk[q], k), k)
=============================================================================
