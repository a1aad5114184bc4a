------------------------- MODULE ThetaSketchProofs -------------------------
(***************************************************************************)
(* Safety of the set operations, for every number of sketches, every k,    *)
(* seed and sampling probability, and every sequence of operations.        *)
(***************************************************************************)
EXTENDS ThetaSketch, ThetaPolicyProofs

(* The part of S that a sketch at theta t retains.                         *)
Slice(S, t) == {x \in S : 0 < x /\ x < t}

Values == [hashes : SUBSET (1 .. MaxTheta), theta : 1 .. MaxTheta, is_empty : BOOLEAN]
Histories == [rep : SUBSET Hashes, seeds : SUBSET DOMAIN SeedHash,
              streamed : BOOLEAN, p : 1 .. MaxTheta]

-----------------------------------------------------------------------------
(* The invariant of one sketch a with history h: it is legal, it holds the *)
(* part of rep below theta, it is called empty only if rep has nothing     *)
(* that could be retained, and it is a summary if built by unions only.    *)
Sound(a, h, k) ==
  /\ a \in Sketches(k)
  /\ a.hashes = Slice(h.rep, a.theta)
  /\ a.is_empty => h.rep \subseteq {0, MaxTheta}
  /\ h.streamed => IsSummary(h.rep, k, h.p, a.hashes, a.theta)

IInv ==
  /\ sk \in [Sketch -> Values]
  /\ initial \in [Sketch -> 1 .. MaxTheta]
  /\ hist \in [Sketch -> Histories]
  /\ \A s \in Sketch : Sound(sk[s], hist[s], K[s])

(* Installing the part of S below t installs the part of S below the new   *)
(* theta, and the result is a legal sketch.                                *)
LEMMA InstalledSound ==
  ASSUME NEW S \in SUBSET Hashes, NEW k \in Nat, NEW t \in 1 .. MaxTheta,
         NEW U, U = Slice(S, t)
  PROVE  /\ Retained(U, k) = Slice(S, ThetaAfter(U, k, t))
         /\ ThetaAfter(U, k, t) \in 1 .. MaxTheta
         /\ [hashes |-> Retained(U, k), theta |-> ThetaAfter(U, k, t),
             is_empty |-> FALSE] \in Sketches(k)
<1> DEFINE n == ThetaAfter(U, k, t)
           R == Retained(U, k)
<1>1. U \in SUBSET Hashes /\ (\A h \in U : h < t) /\ t \in Nat
  BY PolicyAssumption DEF Slice
<1>2. Cardinality(R) <= k /\ R = Below(U, n) /\ n <= t /\ n \in Nat /\ (n < t => n \in U)
  BY <1>1, InstallKeeps
<1>3. \A x \in S : x \in Nat /\ x <= MaxTheta
  BY PolicyAssumption DEF Hashes
<1> HIDE DEF n, R
<1>4. n \in 1 .. MaxTheta
  <2>1. n < t => n > 0
    BY <1>2 DEF Slice
  <2> QED BY <1>2, <2>1, PolicyAssumption
<1>5. R = Slice(S, n)
  <2>1. \A x \in S : x < n => x < t
    BY <1>2, <1>3, PolicyAssumption
  <2>2. R = {x \in U : x < n}
    BY <1>2 DEF Below
  <2> QED BY <2>1, <2>2 DEF Slice
<1>6. R \in SUBSET (1 .. MaxTheta) /\ R \subseteq Below(R, n)
  BY <1>3, <1>5, PolicyAssumption DEF Below, Slice
<1>7. [hashes |-> R, theta |-> n, is_empty |-> FALSE] \in Sketches(k)
  BY <1>2, <1>4, <1>6 DEF Sketches
<1> QED BY <1>4, <1>5, <1>7 DEF n, R

(* What is known of the parts of a sound sketch.                           *)
LEMMA SoundParts ==
  ASSUME NEW k \in Nat, NEW a, NEW h \in Histories, Sound(a, h, k)
  PROVE  /\ a.hashes \in SUBSET Hashes /\ a.theta \in 1 .. MaxTheta
         /\ a.is_empty \in BOOLEAN /\ Cardinality(a.hashes) <= k
         /\ h.rep \in SUBSET Hashes /\ h.p \in 1 .. MaxTheta
         /\ a = [hashes |-> a.hashes, theta |-> a.theta, is_empty |-> a.is_empty]
         /\ a.hashes = Slice(h.rep, a.theta)
         /\ a.is_empty => a.hashes = {}
<1>1. a \in Values /\ Cardinality(a.hashes) <= k /\ (a.is_empty => a.hashes = {})
  BY DEF Sound, Sketches, Values
<1> QED BY <1>1, PolicyAssumption DEF Sound, Values, Histories, Hashes

(* update: one chunk.                                                      *)
LEMMA AbsorbSound ==
  ASSUME NEW k \in Nat, NEW a, NEW h \in Histories, Sound(a, h, k),
         NEW C \in SUBSET Hashes,
         NEW g, g.rep = h.rep \cup C, g.streamed = h.streamed, g.p = h.p
  PROVE  Sound(AbsorbOf(a, C, k), g, k)
<1> DEFINE U == a.hashes \cup Screened(C, a.theta)
           S == h.rep \cup C
<1>1. AbsorbOf(a, C, k) = [hashes |-> Retained(U, k), theta |-> ThetaAfter(U, k, a.theta),
                           is_empty |-> FALSE]
  BY DEF AbsorbOf, Installed
<1>2. /\ a.hashes = Slice(h.rep, a.theta) /\ a.theta \in 1 .. MaxTheta
      /\ h.rep \in SUBSET Hashes
  BY SoundParts
<1>3. U = Slice(S, a.theta) /\ S \in SUBSET Hashes
  <2>1. \A x \in C : ScreenHash(a.theta, x) <=> 0 < x /\ x < a.theta
    BY PolicyAssumption DEF ScreenHash, Hashes
  <2> QED BY <1>2, <2>1 DEF Screened, Slice
<1>4. /\ Retained(U, k) = Slice(S, ThetaAfter(U, k, a.theta))
      /\ [hashes |-> Retained(U, k), theta |-> ThetaAfter(U, k, a.theta),
          is_empty |-> FALSE] \in Sketches(k)
  <2> HIDE DEF U, S
  <2> QED BY <1>2, <1>3, InstalledSound
<1>5. h.streamed =>
        IsSummary(S, k, h.p, Retained(U, k), ThetaAfter(U, k, a.theta))
  <2> SUFFICES ASSUME h.streamed
               PROVE  IsSummary(S, k, h.p, Retained(U, k), ThetaAfter(U, k, a.theta))
    OBVIOUS
  <2>1. IsSummary(h.rep, k, h.p, a.hashes, a.theta)
    BY DEF Sound
  <2>2. a.theta \in Nat \ {0} /\ h.p \in Nat
    BY SoundParts
  <2> QED BY <1>2, <2>1, <2>2, InstallSummarizes
<1> DEFINE R == Retained(U, k)
           n == ThetaAfter(U, k, a.theta)
<1> HIDE DEF U, R, n
<1> QED BY <1>1, <1>4, <1>5 DEF Sound, R, n

(* merge: the union of two summaries is the summary of the union, if the   *)
(* other sketch is not the coarser one.                                    *)
LEMMA MergeSummarizes ==
  ASSUME NEW k \in Nat, NEW l \in Nat, l >= k,
         NEW S \in SUBSET Hashes, NEW p \in 1 .. MaxTheta,
         NEW A, NEW u \in 1 .. MaxTheta, IsSummary(S, k, p, A, u),
         NEW T \in SUBSET Hashes, NEW q \in 1 .. MaxTheta,
         NEW B, NEW v \in 1 .. MaxTheta, IsSummary(T, l, q, B, v),
         NEW t, t = Lesser(u, v),
         NEW U, U = Slice(S \cup T, t)
  PROVE  IsSummary(S \cup T, k, Lesser(p, q), Retained(U, k), ThetaAfter(U, k, t))
<1> DEFINE n == ThetaAfter(U, k, t)
           R == Retained(U, k)
<1>1. t \in 1 .. MaxTheta /\ t <= u /\ t <= v /\ (t = u \/ t = v)
  BY DEF Lesser
<1>2. /\ R = Slice(S \cup T, n) /\ n \in 1 .. MaxTheta
  <2> DEFINE V == S \cup T
  <2>1. V \in SUBSET Hashes /\ U = Slice(V, t)
    OBVIOUS
  <2> HIDE DEF V
  <2>2. Retained(U, k) = Slice(V, ThetaAfter(U, k, t))
        /\ ThetaAfter(U, k, t) \in 1 .. MaxTheta
    BY ZenonT(60), <1>1, <2>1, InstalledSound
  <2> QED BY <2>2 DEF V
<1>3. U \in SUBSET Hashes /\ (\A x \in U : x < t) /\ t \in Nat
  <2>1. U \subseteq S \cup T /\ (\A x \in U : x < t)
    BY DEF Slice
  <2> QED BY <1>1, <2>1
<1>4. Cardinality(R) <= k /\ n <= t /\ (n < t => n \in U /\ Cardinality(R) = k)
  BY <1>3, InstallKeeps
<1>5. /\ A = Slice(S, u) /\ u <= p /\ (u < p => u \in S /\ Cardinality(A) = k)
      /\ B = Slice(T, v) /\ v <= q /\ (v < q => v \in T /\ Cardinality(B) = l)
  BY DEF IsSummary, Slice
<1> HIDE DEF n, R
<1>6. R \in SUBSET Hashes /\ IsFiniteSet(R) /\ Cardinality(R) \in Nat
  BY <1>2, HashesFinite DEF Slice
<1>7. n <= Lesser(p, q)
  BY <1>1, <1>2, <1>4, <1>5 DEF Lesser
<1>8. ASSUME n < Lesser(p, q) PROVE n \in S \cup T /\ Cardinality(R) = k
  <2>1. n < p /\ n < q
    <3>1. n \in Int /\ p \in Int /\ q \in Int
      BY <1>2
    <3> QED BY <3>1, <1>8 DEF Lesser
  <2>2. CASE n < t
    BY <1>3, <1>4, <2>2 DEF Slice
  <2>3. CASE n = t /\ t = u
    <3>1. u \in S /\ Cardinality(A) = k /\ A \subseteq R
      BY <1>2, <1>5, <2>1, <2>3 DEF Slice
    <3>2. Cardinality(A) <= Cardinality(R)
      BY <1>6, <3>1, FS_Subset
    <3> QED BY <1>4, <1>6, <2>3, <3>1, <3>2
  <2>4. CASE n = t /\ t = v
    <3>1. v \in T /\ Cardinality(B) = l /\ B \subseteq R
      BY <1>2, <1>5, <2>1, <2>4 DEF Slice
    <3>2. Cardinality(B) <= Cardinality(R)
      BY <1>6, <3>1, FS_Subset
    <3> QED BY <1>4, <1>6, <2>4, <3>1, <3>2
  <2> QED BY <1>1, <1>2, <1>4, <2>2, <2>3, <2>4
<1>9. IsSummary(S \cup T, k, Lesser(p, q), R, n)
  BY <1>2, <1>4, <1>7, <1>8 DEF IsSummary, Slice
<1> QED BY <1>9 DEF R, n

LEMMA MergeSound ==
  ASSUME NEW k \in Nat, NEW a, NEW h \in Histories, Sound(a, h, k),
         NEW l \in Nat, NEW b, NEW i \in Histories, Sound(b, i, l), ~b.is_empty,
         NEW g, g.rep = h.rep \cup i.rep, g.p = Lesser(h.p, i.p),
         g.streamed => h.streamed /\ i.streamed /\ l >= k
  PROVE  Sound(MergeOf(a, b, k), g, k)
<1> DEFINE t == Lesser(a.theta, b.theta)
           U == Screened(a.hashes \cup b.hashes, t)
           S == h.rep \cup i.rep
           R == Retained(U, k)
           n == ThetaAfter(U, k, t)
<1>1. MergeOf(a, b, k) = [hashes |-> R, theta |-> n, is_empty |-> FALSE]
  BY DEF MergeOf, Installed, EffectiveTheta
<1>2. /\ a.hashes = Slice(h.rep, a.theta) /\ a.theta \in 1 .. MaxTheta
      /\ b.hashes = Slice(i.rep, b.theta) /\ b.theta \in 1 .. MaxTheta
      /\ h.rep \in SUBSET Hashes /\ i.rep \in SUBSET Hashes
      /\ h.p \in 1 .. MaxTheta /\ i.p \in 1 .. MaxTheta
  BY SoundParts
<1>3. t \in 1 .. MaxTheta /\ t <= a.theta /\ t <= b.theta
  BY <1>2 DEF Lesser
<1>4. U = Slice(S, t) /\ S \in SUBSET Hashes
  <2> HIDE DEF t
  <2>1. \A x \in S : /\ x < t => x < a.theta /\ x < b.theta
                    /\ x # 0 <=> 0 < x
    BY <1>2, <1>3, PolicyAssumption DEF Hashes
  <2>2. \A x \in a.hashes \cup b.hashes : ScreenHash(t, x) <=> 0 < x /\ x < t
    BY <1>2, <2>1 DEF ScreenHash, Slice
  <2>3. \A x : x \in U <=> x \in a.hashes \cup b.hashes /\ 0 < x /\ x < t
    BY <2>2 DEF Screened
  <2>4. \A x : x \in U <=> x \in S /\ 0 < x /\ x < t
    <3> HIDE DEF U
    <3> QED BY <2>1, <2>3, <1>2 DEF Slice
  <2> HIDE DEF U
  <2> QED BY <2>4, <1>2 DEF Slice
<1>5. /\ R = Slice(S, n)
      /\ [hashes |-> R, theta |-> n, is_empty |-> FALSE] \in Sketches(k)
  <2> HIDE DEF U, S, t
  <2> QED BY <1>3, <1>4, InstalledSound
<1>6. g.streamed => IsSummary(S, k, g.p, R, n)
  <2> SUFFICES ASSUME g.streamed PROVE IsSummary(S, k, Lesser(h.p, i.p), R, n)
    OBVIOUS
  <2>1. IsSummary(h.rep, k, h.p, a.hashes, a.theta)
        /\ IsSummary(i.rep, l, i.p, b.hashes, b.theta) /\ l >= k
    BY DEF Sound
  <2> HIDE DEF U
  <2> QED BY <1>2, <1>4, <2>1, MergeSummarizes
<1> HIDE DEF R, n
<1> QED BY <1>1, <1>5, <1>6 DEF Sound

(* reset, and anything that leaves a fresh sketch behind.                  *)
LEMMA FreshSound ==
  ASSUME NEW k \in Nat, NEW t \in 1 .. MaxTheta
  PROVE  Sound(Fresh(t), NoHistory(t), k) /\ Fresh(t) \in Values
         /\ NoHistory(t) \in Histories
<1>1. Cardinality({}) = 0 /\ Slice({}, t) = {} /\ Below({}, t) = {}
  BY FS_EmptySet DEF Slice, Below
<1>2. Fresh(t) \in Sketches(k)
  BY <1>1 DEF Fresh, Sketches
<1>3. IsSummary({}, k, t, {}, t)
  BY <1>1 DEF IsSummary
<1>4. Sound(Fresh(t), NoHistory(t), k)
  BY <1>1, <1>2, <1>3 DEF Sound, Fresh, NoHistory
<1> QED BY <1>4 DEF Fresh, Values, NoHistory, Histories

LEMMA InstallNothing ==
  ASSUME NEW k \in Nat, NEW t
  PROVE  Retained({}, k) = {} /\ ThetaAfter({}, k, t) = t
  BY FS_EmptySet DEF Retained, ThetaAfter

(* intersect and a_not_b: what both sketches can tell below the smaller    *)
(* theta.  S is the intersection or the difference of what they represent. *)
LEMMA RetainSound ==
  ASSUME NEW k \in Nat, NEW a, NEW h \in Histories, Sound(a, h, k), ~a.is_empty,
         NEW l \in Nat, NEW b, NEW i \in Histories, Sound(b, i, l),
         b.is_empty => a.hashes = {},
         NEW keep \in BOOLEAN, keep => ~b.is_empty,
         NEW ini \in 1 .. MaxTheta,
         NEW S, S = IF keep THEN h.rep \cap i.rep ELSE h.rep \ i.rep,
         NEW g, g.rep = S, ~g.streamed
  PROVE  Sound(RetainMatching(a, b, keep, k, ini), g, k)
<1> DEFINE t == Lesser(a.theta, EffectiveTheta(b))
           U == {x \in a.hashes : MembershipFilter(b.hashes, t, keep, x)}
           R == Retained(U, k)
           n == ThetaAfter(U, k, t)
           gone == U = {} /\ t = MaxTheta
<1>1. RetainMatching(a, b, keep, k, ini) =
        [hashes |-> R, theta |-> IF gone THEN ini ELSE n, is_empty |-> gone]
  BY DEF RetainMatching, Installed, EffectiveTheta
<1>2. /\ a.hashes = Slice(h.rep, a.theta) /\ a.theta \in 1 .. MaxTheta
      /\ b.hashes = Slice(i.rep, b.theta) /\ b.theta \in 1 .. MaxTheta
      /\ h.rep \in SUBSET Hashes /\ i.rep \in SUBSET Hashes
  BY SoundParts
<1>3. t \in 1 .. MaxTheta /\ t <= a.theta /\ (~b.is_empty => t <= b.theta)
  BY <1>2, PolicyAssumption DEF Lesser, EffectiveTheta
<1>4. S \in SUBSET Hashes
  BY <1>2
<1>5. U = Slice(S, t)
  <2> HIDE DEF t
  <2>1. ASSUME NEW x \in h.rep, 0 < x, x < t
        PROVE  /\ x \in a.hashes /\ ScreenHash(t, x)
               /\ x \in b.hashes <=> x \in i.rep
    <3>1. x \in Nat /\ x < a.theta /\ x # 0
      BY <1>2, <1>3, <2>1, PolicyAssumption DEF Hashes
    <3>2. x \in a.hashes /\ ScreenHash(t, x)
      BY <1>2, <2>1, <3>1 DEF Slice, ScreenHash
    <3>3. ~b.is_empty
      BY <3>2
    <3>4. x < b.theta
      BY <1>2, <1>3, <2>1, <3>1, <3>3
    <3> QED BY <1>2, <2>1, <3>2, <3>4 DEF Slice
  <2>2. ASSUME NEW x \in a.hashes, ScreenHash(t, x)
        PROVE  x \in h.rep /\ 0 < x /\ x < t
    BY <1>2, <2>2 DEF Slice, ScreenHash
  <2>3. ASSUME NEW x PROVE x \in U <=> x \in Slice(S, t)
    <3>1. x \in Slice(S, t) <=> x \in h.rep /\ 0 < x /\ x < t /\ (x \in i.rep) = keep
      BY DEF Slice
    <3>2. x \in U <=> x \in a.hashes /\ ScreenHash(t, x) /\ (x \in b.hashes) = keep
      BY DEF MembershipFilter
    <3>3. CASE x \in h.rep /\ 0 < x /\ x < t
      <4>1. x \in a.hashes /\ ScreenHash(t, x) /\ (x \in b.hashes <=> x \in i.rep)
        BY <2>1, <3>3
      <4>2. (x \in b.hashes) = (x \in i.rep)
        BY <4>1
      <4> HIDE DEF U
      <4> QED BY <3>1, <3>2, <3>3, <4>1, <4>2
    <3>4. CASE ~ (x \in h.rep /\ 0 < x /\ x < t)
      <4> HIDE DEF U
      <4> QED BY <2>2, <3>1, <3>2, <3>4
    <3> QED BY <3>3, <3>4
  <2> HIDE DEF U
  <2> QED BY <2>3
<1>6. /\ R = Slice(S, n) /\ n \in 1 .. MaxTheta
      /\ [hashes |-> R, theta |-> n, is_empty |-> FALSE] \in Sketches(k)
  <2> HIDE DEF U, t
  <2> QED BY <1>3, <1>4, <1>5, InstalledSound
<1>7. CASE ~gone
  <2>1. RetainMatching(a, b, keep, k, ini) =
          [hashes |-> R, theta |-> n, is_empty |-> FALSE]
    BY <1>1, <1>7
  <2> HIDE DEF R, n
  <2> QED BY <1>6, <2>1 DEF Sound
<1>8. CASE gone
  <2>1. R = {} /\ U = {}
    BY <1>8, InstallNothing
  <2>2. \A x \in S : ~ (0 < x /\ x < MaxTheta)
    BY <1>5, <1>8 DEF Slice
  <2>3. S \subseteq {0, MaxTheta}
    BY <1>4, <2>2, PolicyAssumption DEF Hashes
  <2>4. Slice(S, ini) = {}
    BY <2>3, PolicyAssumption DEF Slice
  <2>5. Fresh(ini) \in Sketches(k)
    BY FreshSound DEF Sound
  <2>6. RetainMatching(a, b, keep, k, ini) = Fresh(ini)
    BY <1>1, <1>8, <2>1 DEF Fresh
  <2>7. Sound(Fresh(ini), g, k)
    <3>1. Fresh(ini).hashes = Slice(g.rep, Fresh(ini).theta)
      BY <2>4 DEF Fresh
    <3>2. g.rep \subseteq {0, MaxTheta}
      BY <2>3
    <3> QED BY <2>5, <3>1, <3>2 DEF Sound
  <2> QED BY <2>6, <2>7
<1> QED BY <1>7, <1>8

-----------------------------------------------------------------------------
(* Every operation changes one sketch, and leaves it sound.                *)

LEMMA OneChanges ==
  ASSUME IInv, NEW s \in Sketch, NEW x, NEW y \in Histories, Sound(x, y, K[s]),
         sk' = [sk EXCEPT ![s] = x], hist' = [hist EXCEPT ![s] = y],
         initial' \in [Sketch -> 1 .. MaxTheta]
  PROVE  IInv'
<1>1. x \in Values
  BY DEF Sound, Sketches, Values
<1>2. sk' \in [Sketch -> Values] /\ hist' \in [Sketch -> Histories]
  BY <1>1 DEF IInv
<1>3. ASSUME NEW o \in Sketch PROVE Sound(sk'[o], hist'[o], K[o])
  <2>1. CASE o = s
    BY <2>1 DEF IInv
  <2>2. CASE o # s
    <3>1. sk'[o] = sk[o] /\ hist'[o] = hist[o]
      BY <2>2 DEF IInv
    <3> QED BY <3>1 DEF IInv
  <2> QED BY <2>1, <2>2
<1> QED BY <1>2, <1>3 DEF IInv, Sound

LEMMA InitIInv == Init => IInv
<1> SUFFICES ASSUME Init PROVE IInv
  OBVIOUS
<1>1. ASSUME NEW s \in Sketch
      PROVE  /\ sk[s] = Fresh(SampledTheta[s]) /\ hist[s] = NoHistory(SampledTheta[s])
             /\ SampledTheta[s] \in 1 .. MaxTheta /\ K[s] \in Nat
  BY SketchAssumption DEF Init
<1>2. \A s \in Sketch : /\ Sound(sk[s], hist[s], K[s])
                       /\ sk[s] \in Values /\ hist[s] \in Histories
  BY <1>1, FreshSound
<1>3. sk \in [Sketch -> Values] /\ hist \in [Sketch -> Histories]
  BY <1>2 DEF Init
<1>4. initial \in [Sketch -> 1 .. MaxTheta]
  BY SketchAssumption DEF Init
<1> QED BY <1>2, <1>3, <1>4 DEF IInv

LEMMA StepIInv ==
  ASSUME IInv, [Next]_vars
  PROVE  IInv'
<1>1. CASE UNCHANGED vars
  BY <1>1 DEF vars, IInv, Sound
<1>2. ASSUME NEW s \in Sketch
      PROVE  /\ sk[s] \in Values /\ hist[s] \in Histories /\ K[s] \in Nat
             /\ Sound(sk[s], hist[s], K[s]) /\ initial[s] \in 1 .. MaxTheta
             /\ Seed[s] \in DOMAIN SeedHash
  BY SketchAssumption DEF IInv
<1>3. initial \in [Sketch -> 1 .. MaxTheta]
  BY DEF IInv
<1>4. ASSUME NEW s \in Sketch, NEW C \in Chunks, Update(s, C) PROVE IInv'
  <2> DEFINE g == [hist[s] EXCEPT !.rep = @ \cup C, !.seeds = @ \cup {Seed[s]}]
  <2>1. C \in SUBSET Hashes
    BY SketchAssumption
  <2>2. /\ g.rep = hist[s].rep \cup C /\ g.streamed = hist[s].streamed
        /\ g.p = hist[s].p /\ g \in Histories
    BY <1>2, <2>1 DEF Histories
  <2>3. Sound(AbsorbOf(sk[s], C, K[s]), g, K[s])
    <3> HIDE DEF g
    <3> QED BY <1>2, <2>1, <2>2, AbsorbSound
  <2>4. hist' = [hist EXCEPT ![s] = g]
    BY <1>4 DEF Update, HistoryOfUpdate, IInv
  <2> HIDE DEF g
  <2> QED BY <1>3, <1>4, <2>2, <2>3, <2>4, OneChanges DEF Update
<1>5. ASSUME NEW s \in Sketch, Reset(s) PROVE IInv'
  <2>1. ResetOf(K[s], initial[s]) = Fresh(initial[s])
    BY <1>2, InstallNothing DEF ResetOf, Installed, Fresh
  <2>2. /\ Sound(Fresh(initial[s]), NoHistory(initial[s]), K[s])
        /\ NoHistory(initial[s]) \in Histories
    BY <1>2, FreshSound
  <2> QED BY <1>3, <1>5, <2>1, <2>2, OneChanges DEF Reset
<1>6. ASSUME NEW s \in Sketch, NEW o \in Sketch, Merge(s, o) PROVE IInv'
  <2> DEFINE g == [rep      |-> hist[s].rep \cup hist[o].rep,
                   seeds    |-> hist[s].seeds \cup hist[o].seeds,
                   streamed |-> hist[s].streamed /\ hist[o].streamed /\ K[o] >= K[s],
                   p        |-> Lesser(hist[s].p, hist[o].p)]
  <2>1. g \in Histories
    BY <1>2 DEF Histories, Lesser
  <2>2. /\ g.rep = hist[s].rep \cup hist[o].rep
        /\ g.p = Lesser(hist[s].p, hist[o].p)
        /\ g.streamed => hist[s].streamed /\ hist[o].streamed /\ K[o] >= K[s]
    OBVIOUS
  <2>3. Sound(MergeOf(sk[s], sk[o], K[s]), g, K[s])
    <3> HIDE DEF g
    <3>1. ~sk[o].is_empty
      BY <1>6 DEF Merge
    <3>2. /\ K[s] \in Nat /\ hist[s] \in Histories /\ Sound(sk[s], hist[s], K[s])
          /\ K[o] \in Nat /\ hist[o] \in Histories /\ Sound(sk[o], hist[o], K[o])
      BY <1>2
    <3> QED BY <2>2, <3>1, <3>2, MergeSound
  <2>4. hist' = [hist EXCEPT ![s] = g]
    BY <1>6 DEF Merge, HistoryOfMerge, IInv
  <2> HIDE DEF g
  <2> QED BY <1>3, <1>6, <2>1, <2>3, <2>4, OneChanges DEF Merge
<1>7. ASSUME NEW s \in Sketch, NEW o \in Sketch, NEW keep \in BOOLEAN, NEW S,
             S = IF keep THEN hist[s].rep \cap hist[o].rep
                 ELSE hist[s].rep \ hist[o].rep,
             ~sk[s].is_empty, sk[o].is_empty => sk[s].hashes = {}, keep => ~sk[o].is_empty,
             sk' = [sk EXCEPT ![s] = RetainMatching(sk[s], sk[o], keep, K[s], initial[s])],
             hist' = [hist EXCEPT ![s] = Restricted(s, o, S)],
             UNCHANGED initial
      PROVE  IInv'
  <2> DEFINE g == Restricted(s, o, S)
  <2>1. g \in Histories /\ g.rep = S /\ ~g.streamed
    BY <1>2, <1>7 DEF Restricted, Histories
  <2>2. Sound(RetainMatching(sk[s], sk[o], keep, K[s], initial[s]), g, K[s])
    <3> HIDE DEF g
    <3>1. /\ K[s] \in Nat /\ hist[s] \in Histories /\ Sound(sk[s], hist[s], K[s])
          /\ K[o] \in Nat /\ hist[o] \in Histories /\ Sound(sk[o], hist[o], K[o])
          /\ initial[s] \in 1 .. MaxTheta
      BY <1>2
    <3> QED BY <1>7, <2>1, <3>1, RetainSound
  <2> HIDE DEF g
  <2>3. hist' = [hist EXCEPT ![s] = g]
    BY <1>7 DEF g
  <2> QED BY <1>3, <1>7, <2>1, <2>2, <2>3, OneChanges
<1>8. ASSUME NEW s \in Sketch, NEW o \in Sketch, Intersect(s, o) PROVE IInv'
  <2> DEFINE S == hist[s].rep \cap hist[o].rep
  <2>1. /\ sk' = [sk EXCEPT ![s] = RetainMatching(sk[s], sk[o], TRUE, K[s], initial[s])]
        /\ hist' = [hist EXCEPT ![s] = Restricted(s, o, S)]
        /\ ~sk[s].is_empty /\ ~sk[o].is_empty /\ UNCHANGED initial
    BY <1>8 DEF Intersect, IInv
  <2> QED BY <1>7, <2>1
<1>9. ASSUME NEW s \in Sketch, NEW o \in Sketch, ANotB(s, o) PROVE IInv'
  <2> DEFINE S == hist[s].rep \ hist[o].rep
  <2>1. /\ sk' = [sk EXCEPT ![s] = RetainMatching(sk[s], sk[o], FALSE, K[s], initial[s])]
        /\ hist' = [hist EXCEPT ![s] = Restricted(s, o, S)]
        /\ ~sk[s].is_empty /\ (sk[o].is_empty => sk[s].hashes = {}) /\ UNCHANGED initial
    BY <1>9 DEF ANotB, SubtractsNothing, IInv
  <2> QED BY <1>7, <2>1
<1>10. ASSUME NEW s \in Sketch, NEW o \in Sketch, Deserialize(s, o) PROVE IInv'
  <2>1. initial' \in [Sketch -> 1 .. MaxTheta]
    BY <1>3, <1>10, PolicyAssumption DEF Deserialize
  <2>2. CASE sk[o].is_empty
    <3>1. sk[o].hashes = {}
      BY <1>2, <2>2, SoundParts
    <3>2. Installed(sk[o].hashes, K[s], EffectiveTheta(sk[o]), sk[o].is_empty, MaxTheta)
            = Fresh(MaxTheta)
      BY <1>2, <2>2, <3>1, InstallNothing DEF Installed, Fresh
    <3>3. /\ Sound(Fresh(MaxTheta), NoHistory(MaxTheta), K[s])
          /\ NoHistory(MaxTheta) \in Histories
      BY <1>2, FreshSound, PolicyAssumption
    <3>4. sk' = [sk EXCEPT ![s] = Fresh(MaxTheta)]
          /\ hist' = [hist EXCEPT ![s] = NoHistory(MaxTheta)]
      BY <1>10, <2>2, <3>2 DEF Deserialize, HistoryOfDeserialize
    <3> QED BY <2>1, <3>3, <3>4, OneChanges
  <2>3. CASE ~sk[o].is_empty
    <3> DEFINE g == [hist[o] EXCEPT !.streamed = @ /\ K[o] = K[s]]
    <3>1. /\ Cardinality(sk[o].hashes) \in Nat /\ Cardinality(sk[o].hashes) <= K[s]
      <4>1. sk[o].hashes \in SUBSET Hashes
        BY <1>2, SoundParts
      <4> QED BY <1>10, <4>1, HashesFinite DEF Deserialize
    <3>2. Installed(sk[o].hashes, K[s], EffectiveTheta(sk[o]), sk[o].is_empty, MaxTheta)
            = sk[o]
      <4>1. sk[o] = [hashes |-> sk[o].hashes, theta |-> sk[o].theta, is_empty |-> FALSE]
        BY <1>2, <2>3 DEF Values
      <4>2. Retained(sk[o].hashes, K[s]) = sk[o].hashes
            /\ ThetaAfter(sk[o].hashes, K[s], sk[o].theta) = sk[o].theta
        BY <1>2, <3>1 DEF Retained, ThetaAfter
      <4>3. ~sk[o].is_empty /\ sk[o].is_empty = FALSE
        BY <1>2, <2>3 DEF Values
      <4> QED BY <4>1, <4>2, <4>3 DEF Installed, EffectiveTheta
    <3>3. /\ g \in Histories /\ g.rep = hist[o].rep /\ g.p = hist[o].p
          /\ g.streamed => hist[o].streamed /\ K[o] = K[s]
      BY <1>2 DEF Histories
    <3>4. Sound(sk[o], g, K[s])
      <4>1. Sound(sk[o], hist[o], K[o])
        BY <1>2
      <4>2. sk[o] \in Sketches(K[s])
        BY <3>1, <4>1 DEF Sound, Sketches
      <4> HIDE DEF g
      <4> QED BY <3>3, <4>1, <4>2 DEF Sound
    <3>5. sk' = [sk EXCEPT ![s] = sk[o]] /\ hist' = [hist EXCEPT ![s] = g]
      BY <1>10, <2>3, <3>2 DEF Deserialize, HistoryOfDeserialize
    <3> HIDE DEF g
    <3> QED BY <2>1, <3>3, <3>4, <3>5, OneChanges
  <2> QED BY <2>2, <2>3
<1> QED BY <1>1, <1>4, <1>5, <1>6, <1>8, <1>9, <1>10 DEF Next, IntersectEmpty

LEMMA AlwaysIInv == Spec => []IInv
<1> QED BY InitIInv, StepIInv, PTL DEF Spec

-----------------------------------------------------------------------------
(* Results.                                                                *)

(* At most k hashes, all below theta, in every sketch: theta.hpp 186-203.  *)
THEOREM TypeCorrect == Spec => []TypeOK
<1>1. IInv => TypeOK
  BY DEF IInv, TypeOK, Sound, Values, Histories
<1> QED BY <1>1, AlwaysIInv, PTL

(* Every sequence of operations computes the set it stands for:            *)
(* sketch_impl.hpp 338-388.                                                *)
THEOREM RepresentsHolds == Spec => []Represents
<1>1. IInv => Represents
  BY DEF IInv, Represents, Sound, Slice
<1> QED BY <1>1, AlwaysIInv, PTL

(* Outside estimation mode counts are exact: theta.hpp 160-171.            *)
THEOREM ExactnessHolds == Spec => []ExactUnlessEstimating
<1>1. ASSUME IInv, NEW s \in Sketch, sk[s].is_empty \/ sk[s].theta = MaxTheta
      PROVE  sk[s].hashes = hist[s].rep \ {0, MaxTheta}
  <2>1. Sound(sk[s], hist[s], K[s]) /\ hist[s] \in Histories /\ K[s] \in Nat
    BY <1>1, SketchAssumption DEF IInv
  <2>2. /\ hist[s].rep \in SUBSET Hashes
        /\ sk[s].hashes = Slice(hist[s].rep, sk[s].theta)
        /\ sk[s].is_empty => sk[s].hashes = {}
        /\ sk[s].is_empty => hist[s].rep \subseteq {0, MaxTheta}
    BY <2>1, SoundParts DEF Sound
  <2>3. CASE sk[s].is_empty
    BY <2>2, <2>3
  <2>4. CASE sk[s].theta = MaxTheta
    <3>1. \A x \in hist[s].rep : x \notin {0, MaxTheta} <=> 0 < x /\ x < MaxTheta
      BY <2>2, PolicyAssumption DEF Hashes
    <3> QED BY <2>2, <2>4, <3>1 DEF Slice
  <2> QED BY <1>1, <2>3, <2>4
<1>2. IInv => ExactUnlessEstimating
  BY <1>1 DEF ExactUnlessEstimating
<1> QED BY <1>2, AlwaysIInv, PTL

(* Unions of sketches of parts equal the sketch of the whole:              *)
(* sketch_impl.hpp 338-351; by SummaryUnique there is only one.            *)
THEOREM UnionParityHolds == Spec => []UnionIsParity
<1>1. IInv => UnionIsParity
  BY DEF IInv, UnionIsParity, Sound
<1> QED BY <1>1, AlwaysIInv, PTL

-----------------------------------------------------------------------------
(* Order of unions.  A second invariant: theta never exceeds the sampling  *)
(* theta that reset restores, and an empty sketch is at it.  Without it,   *)
(* merging into an empty sketch could raise theta.                         *)

Bounded(a, ini) == a.theta <= ini /\ (a.is_empty => a.theta = ini)

ThetaBounded == \A s \in Sketch : Bounded(sk[s], initial[s])

(* Installing never raises theta.                                          *)
LEMMA InstallLowers ==
  ASSUME NEW S \in SUBSET Hashes, NEW k \in Nat, NEW t \in 1 .. MaxTheta,
         NEW U, U = Slice(S, t)
  PROVE  ThetaAfter(U, k, t) <= t
<1>1. U \in SUBSET Hashes /\ (\A h \in U : h < t) /\ t \in Nat
  BY PolicyAssumption DEF Slice
<1> QED BY <1>1, InstallKeeps

(* Of hashes, screening by theta is cutting at theta.                      *)
LEMMA ScreenedIsSlice ==
  ASSUME NEW S \in SUBSET Hashes, NEW t \in 1 .. MaxTheta
  PROVE  Screened(S, t) = Slice(S, t)
<1>1. \A x \in S : ScreenHash(t, x) <=> 0 < x /\ x < t
  BY PolicyAssumption DEF ScreenHash, Hashes
<1> QED BY <1>1 DEF Screened, Slice

LEMMA ThetaBoundedStep ==
  ASSUME IInv, ThetaBounded, [Next]_vars
  PROVE  ThetaBounded'
<1>1. CASE UNCHANGED vars
  BY <1>1 DEF vars, ThetaBounded, Bounded
<1>2. ASSUME NEW s \in Sketch
      PROVE  /\ K[s] \in Nat /\ initial[s] \in 1 .. MaxTheta
             /\ sk[s].hashes \in SUBSET Hashes /\ sk[s].theta \in 1 .. MaxTheta
             /\ sk[s].is_empty \in BOOLEAN
             /\ sk[s].hashes = Slice(sk[s].hashes, sk[s].theta)
             /\ Bounded(sk[s], initial[s])
  <2>1. /\ K[s] \in Nat /\ initial[s] \in 1 .. MaxTheta /\ hist[s] \in Histories
        /\ Sound(sk[s], hist[s], K[s])
    BY SketchAssumption DEF IInv
  <2> QED BY <2>1, SoundParts DEF ThetaBounded, Slice
<1>3. ASSUME NEW s \in Sketch, NEW x,
             sk' = [sk EXCEPT ![s] = x], initial' = initial, Bounded(x, initial[s])
      PROVE  ThetaBounded'
  <2>1. ASSUME NEW o \in Sketch PROVE Bounded(sk'[o], initial'[o])
    <3>1. CASE o = s
      BY <1>3, <3>1 DEF IInv
    <3>2. CASE o # s
      <4>1. sk'[o] = sk[o]
        BY <1>3, <3>2 DEF IInv
      <4> QED BY <1>2, <1>3, <4>1
    <3> QED BY <3>1, <3>2
  <2> QED BY <2>1 DEF ThetaBounded, Bounded
<1>4. ASSUME NEW s \in Sketch, NEW C \in Chunks, Update(s, C) PROVE ThetaBounded'
  <2> DEFINE t == sk[s].theta
             U == sk[s].hashes \cup Screened(C, t)
             n == ThetaAfter(U, K[s], t)
  <2>1. C \in SUBSET Hashes
    BY SketchAssumption
  <2>2. U = Slice(sk[s].hashes \cup C, t) /\ sk[s].hashes \cup C \in SUBSET Hashes
    BY <1>2, <2>1, ScreenedIsSlice DEF Slice
  <2>3. n <= t /\ n \in 1 .. MaxTheta
    <3> HIDE DEF U
    <3> QED BY <1>2, <2>2, InstallLowers, InstalledSound
  <2>4. AbsorbOf(sk[s], C, K[s]).theta = n /\ ~AbsorbOf(sk[s], C, K[s]).is_empty
    BY DEF AbsorbOf, Installed
  <2>5. Bounded(AbsorbOf(sk[s], C, K[s]), initial[s])
    <3> HIDE DEF n
    <3> QED BY <1>2, <2>3, <2>4 DEF Bounded
  <2> QED BY <1>3, <1>4, <2>5 DEF Update
<1>5. ASSUME NEW s \in Sketch, Reset(s) PROVE ThetaBounded'
  <2>1. Bounded(ResetOf(K[s], initial[s]), initial[s])
    BY <1>2 DEF Bounded, ResetOf, Installed
  <2> QED BY <1>3, <1>5, <2>1 DEF Reset
<1>6. ASSUME NEW s \in Sketch, NEW o \in Sketch, Merge(s, o) PROVE ThetaBounded'
  <2> DEFINE t == Lesser(sk[s].theta, EffectiveTheta(sk[o]))
             V == sk[s].hashes \cup sk[o].hashes
             U == Screened(V, t)
             n == ThetaAfter(U, K[s], t)
  <2>1. t \in 1 .. MaxTheta /\ t <= sk[s].theta
    BY <1>2, PolicyAssumption DEF Lesser, EffectiveTheta
  <2>2. U = Slice(V, t) /\ V \in SUBSET Hashes
    <3> HIDE DEF t
    <3> QED BY <1>2, <2>1, ScreenedIsSlice
  <2>3. n <= t /\ n \in 1 .. MaxTheta
    <3> HIDE DEF U, V, t
    <3> QED BY <1>2, <2>1, <2>2, InstallLowers, InstalledSound
  <2>4. MergeOf(sk[s], sk[o], K[s]).theta = n /\ ~MergeOf(sk[s], sk[o], K[s]).is_empty
    BY DEF MergeOf, Installed
  <2>5. Bounded(MergeOf(sk[s], sk[o], K[s]), initial[s])
    <3> HIDE DEF n, t
    <3> QED BY <1>2, <2>1, <2>3, <2>4 DEF Bounded
  <2> QED BY <1>3, <1>6, <2>5 DEF Merge
<1>7. ASSUME NEW s \in Sketch, NEW o \in Sketch, NEW keep \in BOOLEAN,
             sk' = [sk EXCEPT ![s] = RetainMatching(sk[s], sk[o], keep, K[s], initial[s])],
             initial' = initial, ~sk[s].is_empty
      PROVE  ThetaBounded'
  <2> DEFINE t == Lesser(EffectiveTheta(sk[s]), EffectiveTheta(sk[o]))
             U == {h \in sk[s].hashes : MembershipFilter(sk[o].hashes, t, keep, h)}
             n == ThetaAfter(U, K[s], t)
             x == RetainMatching(sk[s], sk[o], keep, K[s], initial[s])
  <2>1. t \in 1 .. MaxTheta /\ t <= sk[s].theta
    BY <1>2, <1>7, PolicyAssumption DEF Lesser, EffectiveTheta
  <2>2. U = Slice(U, t) /\ U \in SUBSET Hashes
    <3> HIDE DEF t
    <3>1. \A h \in U : 0 < h /\ h < t
      BY <1>2 DEF MembershipFilter, ScreenHash, Slice
    <3> QED BY <1>2, <3>1 DEF Slice
  <2>3. n <= t /\ n \in 1 .. MaxTheta
    <3> HIDE DEF U, t
    <3> QED BY <1>2, <2>1, <2>2, InstallLowers, InstalledSound
  <2>4. x.theta = (IF x.is_empty THEN initial[s] ELSE n)
    BY DEF RetainMatching, Installed
  <2>5. Bounded(x, initial[s])
    <3> HIDE DEF n, t, x
    <3> QED BY <1>2, <2>1, <2>3, <2>4 DEF Bounded
  <2> QED BY <1>3, <1>7, <2>5
<1>8. ASSUME NEW s \in Sketch, NEW o \in Sketch, Intersect(s, o) \/ ANotB(s, o)
      PROVE  ThetaBounded'
  <2>1. CASE Intersect(s, o)
    BY <1>7, <2>1 DEF Intersect, IInv
  <2>2. CASE ANotB(s, o)
    BY <1>7, <2>2 DEF ANotB, SubtractsNothing, IInv
  <2> QED BY <1>8, <2>1, <2>2
<1>9. ASSUME NEW s \in Sketch, NEW o \in Sketch, Deserialize(s, o) PROVE ThetaBounded'
  <2> DEFINE t == EffectiveTheta(sk[o])
             n == ThetaAfter(sk[o].hashes, K[s], t)
             x == Installed(sk[o].hashes, K[s], t, sk[o].is_empty, MaxTheta)
  <2>1. t \in 1 .. MaxTheta
    BY <1>2, PolicyAssumption DEF EffectiveTheta
  <2>2. sk[o].hashes = Slice(sk[o].hashes, t)
    <3>1. t \in Int /\ sk[o].theta \in Int /\ sk[o].theta <= t
      BY <1>2, PolicyAssumption DEF EffectiveTheta
    <3>2. \A h \in sk[o].hashes : h \in Int /\ 0 < h /\ h < sk[o].theta
      BY <1>2, PolicyAssumption DEF Slice, Hashes
    <3>3. \A h \in sk[o].hashes : 0 < h /\ h < t
      BY <3>1, <3>2
    <3> HIDE DEF t
    <3> QED BY <3>3 DEF Slice
  <2>3. n <= t /\ n \in 1 .. MaxTheta
    <3> HIDE DEF t
    <3> QED BY <1>2, <2>1, <2>2, InstallLowers, InstalledSound
  <2>4. x.theta = IF x.is_empty THEN MaxTheta ELSE n
    BY DEF Installed
  <2>5. Bounded(x, MaxTheta)
    <3> HIDE DEF n, t, x
    <3> QED BY <2>1, <2>3, <2>4, PolicyAssumption DEF Bounded
  <2>6. ASSUME NEW q \in Sketch PROVE Bounded(sk'[q], initial'[q])
    <3>1. CASE q = s
      <4>1. sk'[q] = x /\ initial'[q] = MaxTheta
        BY <1>9, <3>1 DEF Deserialize, IInv
      <4> QED BY <2>5, <4>1
    <3>2. CASE q # s
      <4>1. sk'[q] = sk[q] /\ initial'[q] = initial[q]
        BY <1>9, <3>2 DEF Deserialize, IInv
      <4> QED BY <1>2, <4>1
    <3> QED BY <3>1, <3>2
  <2> QED BY <2>6 DEF ThetaBounded, Bounded
<1> QED BY <1>1, <1>4, <1>5, <1>6, <1>8, <1>9 DEF Next, IntersectEmpty

LEMMA AlwaysThetaBounded == Spec => []ThetaBounded
<1>1. Init => ThetaBounded
  BY SketchAssumption DEF Init, ThetaBounded, Bounded, Fresh
<1> QED BY <1>1, AlwaysIInv, ThetaBoundedStep, PTL DEF Spec

(* A sketch that can be an operand of a union at this k.                   *)
Operand(a, k, ini) ==
  /\ a.hashes \in SUBSET Hashes /\ a.theta \in 1 .. MaxTheta
  /\ a.is_empty \in BOOLEAN
  /\ a = [hashes |-> a.hashes, theta |-> a.theta, is_empty |-> a.is_empty]
  /\ a.hashes = Slice(a.hashes, a.theta) /\ Cardinality(a.hashes) <= k
  /\ a.is_empty => a.hashes = {}
  /\ Bounded(a, ini)

(* The hashes of S below t, installed.                                     *)
Cut(S, t, k) ==
  [hashes   |-> Retained(Slice(S, t), k),
   theta    |-> ThetaAfter(Slice(S, t), k, t),
   is_empty |-> FALSE]

(* The hashes of C joined to what has been installed, and cut at v as well.*)
Recut(d, C, v, k) == Cut(d.hashes \cup C, Lesser(d.theta, v), k)

LEMMA MergeIsCut ==
  ASSUME NEW k \in Nat, NEW ini \in 1 .. MaxTheta,
         NEW a, Operand(a, k, ini), NEW b, Operand(b, k, ini), ~b.is_empty
  PROVE  /\ MergeOf(a, b, k) = Cut(a.hashes \cup b.hashes, Lesser(a.theta, b.theta), k)
         /\ Operand(MergeOf(a, b, k), k, ini) /\ ~MergeOf(a, b, k).is_empty
<1> DEFINE V == a.hashes \cup b.hashes
           t == Lesser(a.theta, b.theta)
           U == Slice(V, t)
           R == Retained(U, k)
           n == ThetaAfter(U, k, t)
           m == [hashes |-> R, theta |-> n, is_empty |-> FALSE]
<1>1. t \in 1 .. MaxTheta /\ t <= a.theta /\ t <= b.theta /\ t <= ini
  BY DEF Operand, Bounded, Lesser
<1>2. V \in SUBSET Hashes /\ Screened(V, t) = U
  <2>1. V \in SUBSET Hashes
    BY DEF Operand
  <2> HIDE DEF V, t
  <2> QED BY <1>1, <2>1, ScreenedIsSlice
<1>3. MergeOf(a, b, k) = m
  BY <1>2 DEF MergeOf, EffectiveTheta, Installed
<1>4. R = Slice(V, n) /\ n \in 1 .. MaxTheta /\ n <= t /\ m \in Sketches(k)
  <2> HIDE DEF V, t
  <2> QED BY <1>1, <1>2, InstalledSound, InstallLowers
<1>5. R \in SUBSET Hashes /\ R = Slice(R, n) /\ Cardinality(R) <= k
  <2>1. m.hashes = R /\ Cardinality(m.hashes) <= k
    <3> HIDE DEF R, n
    <3> QED BY <1>4 DEF Sketches
  <2> HIDE DEF V, n, R
  <2> QED BY <1>2, <1>4, <2>1 DEF Slice
<1>6. Operand(m, k, ini) /\ ~m.is_empty
  <2> HIDE DEF R, n, t
  <2>1. n <= ini
    BY <1>1, <1>4
  <2> QED BY <1>4, <1>5, <2>1 DEF Operand, Bounded
<1>7. m = Cut(V, t, k)
  BY DEF Cut
<1> HIDE DEF m
<1> QED BY <1>3, <1>6, <1>7

(* Merging into an empty sketch copies the other one.                      *)
LEMMA MergeIntoEmpty ==
  ASSUME NEW k \in Nat, NEW ini \in 1 .. MaxTheta,
         NEW a, Operand(a, k, ini), a.is_empty, NEW b, Operand(b, k, ini), ~b.is_empty
  PROVE  MergeOf(a, b, k) = b
<1> DEFINE t == Lesser(a.theta, b.theta)
           U == Slice(a.hashes \cup b.hashes, t)
<1>1. t = b.theta
  BY DEF Lesser, Operand, Bounded
<1>2. U = b.hashes
  BY <1>1 DEF Operand
<1>3. Cardinality(b.hashes) \in Nat /\ Cardinality(b.hashes) <= k
  BY HashesFinite DEF Operand
<1>4. Retained(U, k) = b.hashes /\ ThetaAfter(U, k, t) = b.theta
  BY <1>1, <1>2, <1>3 DEF Retained, ThetaAfter
<1>5. MergeOf(a, b, k) = [hashes |-> b.hashes, theta |-> b.theta, is_empty |-> FALSE]
  <2>1. MergeOf(a, b, k) = Cut(a.hashes \cup b.hashes, t, k)
    BY MergeIsCut
  <2> QED BY <1>4, <2>1 DEF Cut
<1> QED BY <1>5 DEF Operand

(* A truncation in between does not show: what it cut off would have been  *)
(* cut off at the end.  Both ways give the summary, and there is one.      *)
LEMMA CutTwice ==
  ASSUME NEW k \in Nat, NEW S \in SUBSET Hashes, NEW C \in SUBSET Hashes,
         NEW u \in 1 .. MaxTheta, NEW v \in 1 .. MaxTheta
  PROVE  Recut(Cut(S, u, k), C, v, k) = Cut(S \cup C, Lesser(u, v), k)
<1> PICK U : U = Slice(S, u)
  OBVIOUS
<1> PICK n : n = ThetaAfter(U, k, u)
  OBVIOUS
<1> PICK R : R = Retained(U, k)
  OBVIOUS
<1> PICK V : V = Slice(R \cup C, Lesser(n, v))
  OBVIOUS
<1> PICK W : W = Slice(S \cup C, Lesser(u, v))
  OBVIOUS
<1> SUFFICES /\ Retained(V, k) = Retained(W, k)
             /\ ThetaAfter(V, k, Lesser(n, v)) = ThetaAfter(W, k, Lesser(u, v))
  <2>1. Cut(S, u, k).hashes = R /\ Cut(S, u, k).theta = n
    BY DEF Cut
  <2> QED BY <2>1 DEF Cut, Recut
<1> DEFINE t == Lesser(u, v)
<1>1. t \in 1 .. MaxTheta /\ t <= u /\ t <= v
  BY DEF Lesser
<1>2. R = Slice(S, n) /\ n \in 1 .. MaxTheta /\ n <= u
  BY InstalledSound, InstallLowers
<1>3. (\A h \in U : h < u) /\ U \in SUBSET Hashes /\ u \in Nat
  BY PolicyAssumption DEF Slice
<1>4. n < u => n \in U /\ Cardinality(R) = k
  BY <1>3, InstallKeeps
<1>5. Cardinality(R) <= k
  BY <1>3, InstallKeeps
<1>6. CASE n >= t
  <2>1. Lesser(n, v) = t
    BY <1>2, <1>6 DEF Lesser
  <2>2. V = W
    <3>1. ASSUME NEW x \in S, x < t PROVE x < n
      <4>1. x \in Int /\ n \in Int /\ t \in Int
        BY <1>1, <1>2, PolicyAssumption DEF Hashes
      <4> QED BY <1>6, <3>1, <4>1
    <3> HIDE DEF t
    <3> QED BY <1>2, <2>1, <3>1 DEF Slice, t
  <2> QED BY <2>1, <2>2
<1>7. CASE n < t
  <2>1. Lesser(n, v) = n
    BY <1>1, <1>2, <1>7 DEF Lesser
  <2> DEFINE X == Slice(S, t)
             Y == Slice(C, t)
  <2>2. X \in SUBSET Hashes /\ Y \in SUBSET Hashes
    BY DEF Slice
  <2>3. \A x \in S \cup C : x < n => x < t
    BY <1>1, <1>2, <1>7, PolicyAssumption DEF Hashes
  <2>4. IsSummary(X, k, t, R, n)
    <3>1. R = {h \in X : 0 < h /\ h < n}
      BY <1>2, <2>3 DEF Slice
    <3>2. n \in X /\ Cardinality(R) = k
      BY <1>1, <1>2, <1>4, <1>7 DEF Slice
    <3> HIDE DEF X, t
    <3> QED BY <1>1, <1>2, <1>5, <1>7, <3>1, <3>2 DEF IsSummary
  <2>5. R \cup Screened(Y, n) = V
    <3>1. Screened(Y, n) = Slice(Y, n)
      BY <1>2, <2>2, ScreenedIsSlice
    <3>2. Slice(Y, n) = Slice(C, n) /\ R = Slice(R, n)
      BY <1>2, <2>3 DEF Slice
    <3>3. V = Slice(R, n) \cup Slice(C, n)
      BY <2>1 DEF Slice
    <3> HIDE DEF Y
    <3> QED BY <3>1, <3>2, <3>3
  <2>6. X \cup Y = W
    BY DEF Slice
  <2>7. IsSummary(W, k, t, Retained(V, k), ThetaAfter(V, k, n))
    <3> HIDE DEF X, Y, t
    <3>1. t \in Nat /\ n \in Nat \ {0}
      BY <1>1, <1>2
    <3> DEFINE G == R \cup Screened(Y, n)
    <3>2. IsSummary(X \cup Y, k, t, Retained(G, k), ThetaAfter(G, k, n))
      BY <2>2, <2>4, <3>1, InstallSummarizes
    <3> QED BY <2>5, <2>6, <3>2
  <2>8. IsSummary(W, k, t, Retained(W, k), ThetaAfter(W, k, t))
    <3> DEFINE none == {}
    <3>1. IsSummary({}, k, t, {}, t)
      BY <1>1, FS_EmptySet DEF IsSummary
    <3>2. W \in SUBSET Hashes /\ Screened(W, t) = W
      <4>1. W \in SUBSET Hashes /\ W = Slice(W, t)
        BY <2>2 DEF Slice
      <4> HIDE DEF t
      <4> QED BY <1>1, <4>1, ScreenedIsSlice
    <3>3. {} \in SUBSET Hashes /\ t \in Nat \ {0}
      BY <1>1
    <3> HIDE DEF t
    <3>4. IsSummary({} \cup W, k, t, Retained({} \cup W, k), ThetaAfter({} \cup W, k, t))
      BY <3>1, <3>2, <3>3, InstallSummarizes
    <3>5. {} \cup W = W
      OBVIOUS
    <3> QED BY <3>4, <3>5
  <2>9. /\ W \in SUBSET Hashes /\ V \in SUBSET Hashes
        /\ V = Slice(R \cup C, n) /\ R \cup C \in SUBSET Hashes
        /\ W = Slice(S \cup C, t) /\ S \cup C \in SUBSET Hashes
    BY <1>2, <2>1 DEF Slice
  <2>10. ThetaAfter(V, k, n) \in 1 .. MaxTheta /\ ThetaAfter(W, k, t) \in 1 .. MaxTheta
    <3> HIDE DEF t
    <3> QED BY <1>1, <1>2, <2>9, InstalledSound
  <2> HIDE DEF t
  <2>11. t \in Nat \ {0} /\ ThetaAfter(V, k, n) \in Nat \ {0}
         /\ ThetaAfter(W, k, t) \in Nat \ {0}
    BY <1>1, <2>10
  <2> QED BY <2>1, <2>7, <2>8, <2>9, <2>11, SummaryUnique DEF t
<1> QED BY <1>1, <1>2, <1>6, <1>7

LEMMA MergeCommutes ==
  ASSUME NEW k \in Nat, NEW ini \in 1 .. MaxTheta,
         NEW a, Operand(a, k, ini), NEW b, Operand(b, k, ini)
  PROVE  MergedInto(a, b, k) = MergedInto(b, a, k)
<1>1. CASE a.is_empty /\ b.is_empty
  <2>1. a = b
    BY <1>1 DEF Operand, Bounded
  <2> QED BY <2>1
<1>2. CASE a.is_empty /\ ~b.is_empty
  BY <1>2, MergeIntoEmpty DEF MergedInto
<1>3. CASE ~a.is_empty /\ b.is_empty
  BY <1>3, MergeIntoEmpty DEF MergedInto
<1>4. CASE ~a.is_empty /\ ~b.is_empty
  <2>1. a.hashes \cup b.hashes = b.hashes \cup a.hashes
        /\ Lesser(a.theta, b.theta) = Lesser(b.theta, a.theta)
    BY DEF Lesser, Operand
  <2> QED BY <1>4, <2>1 DEF MergedInto, MergeOf, EffectiveTheta
<1> QED BY <1>1, <1>2, <1>3, <1>4 DEF Operand

LEMMA MergeAssociates ==
  ASSUME NEW k \in Nat, NEW ini \in 1 .. MaxTheta,
         NEW a, Operand(a, k, ini), NEW b, Operand(b, k, ini), NEW c, Operand(c, k, ini)
  PROVE  MergedInto(MergedInto(a, b, k), c, k) = MergedInto(a, MergedInto(b, c, k), k)
<1> DEFINE ab == MergeOf(a, b, k)
           bc == MergeOf(b, c, k)
<1>1. CASE c.is_empty
  BY <1>1 DEF MergedInto
<1>2. CASE ~c.is_empty /\ b.is_empty
  BY <1>2, MergeIntoEmpty DEF MergedInto
<1>3. CASE ~c.is_empty /\ ~b.is_empty /\ a.is_empty
  <2>1. Operand(bc, k, ini) /\ ~bc.is_empty
    BY <1>3, MergeIsCut
  <2>2. ab = b
    BY <1>3, MergeIntoEmpty
  <2> HIDE DEF bc
  <2>3. MergeOf(a, bc, k) = bc
    BY <1>3, <2>1, MergeIntoEmpty
  <2> QED BY <1>3, <2>1, <2>2, <2>3 DEF MergedInto, bc
<1>4. ASSUME NEW d, Operand(d, k, ini), ~d.is_empty, NEW e, Operand(e, k, ini), ~e.is_empty,
             NEW f, Operand(f, k, ini), ~f.is_empty
      PROVE  MergeOf(MergeOf(d, e, k), f, k)
               = Cut((d.hashes \cup e.hashes) \cup f.hashes,
                     Lesser(Lesser(d.theta, e.theta), f.theta), k)
  <2> PICK S : S = d.hashes \cup e.hashes
    OBVIOUS
  <2> PICK u : u = Lesser(d.theta, e.theta)
    OBVIOUS
  <2> PICK m : m = MergeOf(d, e, k)
    OBVIOUS
  <2>1. m = Cut(S, u, k) /\ Operand(m, k, ini)
    BY <1>4, MergeIsCut
  <2>2. MergeOf(m, f, k) = Recut(m, f.hashes, f.theta, k)
    BY <1>4, <2>1, MergeIsCut DEF Recut
  <2>3. /\ S \in SUBSET Hashes /\ u \in 1 .. MaxTheta
        /\ f.hashes \in SUBSET Hashes /\ f.theta \in 1 .. MaxTheta
    BY <1>4 DEF Operand, Lesser
  <2>4. Recut(Cut(S, u, k), f.hashes, f.theta, k)
          = Cut(S \cup f.hashes, Lesser(u, f.theta), k)
    BY <2>3, CutTwice
  <2> QED BY <2>1, <2>2, <2>4
<1>5. CASE ~c.is_empty /\ ~b.is_empty /\ ~a.is_empty
  <2>1. /\ Operand(ab, k, ini) /\ ~ab.is_empty
        /\ Operand(bc, k, ini) /\ ~bc.is_empty
    BY <1>5, MergeIsCut
  <2>2. /\ (a.hashes \cup b.hashes) \cup c.hashes = (b.hashes \cup c.hashes) \cup a.hashes
        /\ Lesser(Lesser(a.theta, b.theta), c.theta)
             = Lesser(Lesser(b.theta, c.theta), a.theta)
    <3>1. a.theta \in Int /\ b.theta \in Int /\ c.theta \in Int
      BY DEF Operand
    <3> QED BY <3>1 DEF Lesser
  <2>3. MergeOf(ab, c, k) = MergeOf(bc, a, k)
    <3>1. MergeOf(ab, c, k) = Cut((a.hashes \cup b.hashes) \cup c.hashes,
                                  Lesser(Lesser(a.theta, b.theta), c.theta), k)
      BY <1>4, <1>5
    <3>2. MergeOf(bc, a, k) = Cut((b.hashes \cup c.hashes) \cup a.hashes,
                                  Lesser(Lesser(b.theta, c.theta), a.theta), k)
      BY <1>4, <1>5
    <3> HIDE DEF ab, bc
    <3> QED BY <2>2, <3>1, <3>2
  <2> HIDE DEF ab, bc
  <2>4. MergedInto(bc, a, k) = MergedInto(a, bc, k)
    BY <2>1, MergeCommutes
  <2>5. MergedInto(a, b, k) = ab /\ MergedInto(b, c, k) = bc
    BY <1>5 DEF MergedInto, ab, bc
  <2> QED BY <1>5, <2>1, <2>3, <2>4, <2>5 DEF MergedInto
<1> QED BY <1>1, <1>2, <1>3, <1>5 DEF Operand

(* The order in which sketches of one k and one p are merged does not show:*)
(* sketch_impl.hpp 338-351.                                                *)
THEOREM UnionOrderDoesNotShow == Spec => []UnionOrderFree
<1>1. ASSUME IInv, ThetaBounded, NEW s \in Sketch
      PROVE  Operand(sk[s], K[s], initial[s]) /\ K[s] \in Nat
             /\ initial[s] \in 1 .. MaxTheta
  <2>1. /\ K[s] \in Nat /\ initial[s] \in 1 .. MaxTheta /\ hist[s] \in Histories
        /\ Sound(sk[s], hist[s], K[s])
    BY <1>1, SketchAssumption DEF IInv
  <2> QED BY <1>1, <2>1, SoundParts DEF ThetaBounded, Operand, Slice
<1>2. IInv /\ ThetaBounded => UnionOrderFree
  <2> SUFFICES ASSUME IInv, ThetaBounded, NEW s \in Sketch, NEW o \in Sketch, NEW q \in Sketch,
                      K[s] = K[o], K[o] = K[q],
                      initial[s] = initial[o], initial[o] = initial[q],
                      NEW k, k = K[s]
               PROVE  /\ MergedInto(sk[s], sk[o], k) = MergedInto(sk[o], sk[s], k)
                      /\ MergedInto(MergedInto(sk[s], sk[o], k), sk[q], k)
                           = MergedInto(sk[s], MergedInto(sk[o], sk[q], k), k)
    BY DEF UnionOrderFree
  <2> DEFINE ini == initial[s]
  <2>1. /\ k \in Nat /\ ini \in 1 .. MaxTheta
        /\ Operand(sk[s], k, ini) /\ Operand(sk[o], k, ini) /\ Operand(sk[q], k, ini)
    BY <1>1
  <2> HIDE DEF ini
  <2> QED BY <2>1, MergeCommutes, MergeAssociates
<1> QED BY <1>2, AlwaysIInv, AlwaysThetaBounded, PTL

-----------------------------------------------------------------------------
(* Seeds.                                                                  *)

(* What the check of seed hashes relies on: no two of the seeds in use     *)
(* have one 16-bit hash.  Run seed_collision shows what happens otherwise. *)
NoSeedCollision ==
  \A s, o \in Sketch : SeedHash[Seed[s]] = SeedHash[Seed[o]] => Seed[s] = Seed[o]

(* If no two seeds in use collide, no sketch ever stands for keys given to *)
(* one of another seed, through any sequence of operations and shortcuts:  *)
(* theta.hpp 76-77.                                                        *)
THEOREM SeedsKeptApart ==
  ASSUME NoSeedCollision
  PROVE  Spec => []SeedsDoNotMix
<1>1. Init => SeedsDoNotMix
  BY DEF Init, SeedsDoNotMix, NoHistory
<1>2. ASSUME IInv, SeedsDoNotMix, [Next]_vars PROVE SeedsDoNotMix'
  <2>1. CASE UNCHANGED vars
    BY <1>2, <2>1 DEF vars, SeedsDoNotMix
  <2>2. ASSUME NEW s \in Sketch, NEW g, g.seeds \subseteq {Seed[s]},
               hist' = [hist EXCEPT ![s] = g]
        PROVE  SeedsDoNotMix'
    BY <1>2, <2>2 DEF SeedsDoNotMix, IInv
  <2>3. ASSUME NEW s \in Sketch
        PROVE  hist[s] \in Histories /\ hist[s].seeds \subseteq {Seed[s]}
    BY <1>2 DEF IInv, SeedsDoNotMix
  <2>4. ASSUME NEW s \in Sketch, NEW o \in Sketch, Combinable(s, o)
        PROVE  hist[o].seeds \subseteq {Seed[s]}
    BY <2>3, <2>4 DEF Combinable, NoSeedCollision
  <2>5. ASSUME NEW s \in Sketch, NEW C \in Chunks, Update(s, C) PROVE SeedsDoNotMix'
    <3> DEFINE g == [hist[s] EXCEPT !.rep = @ \cup C, !.seeds = @ \cup {Seed[s]}]
    <3>1. g.seeds \subseteq {Seed[s]}
      BY <2>3 DEF Histories
    <3>2. hist' = [hist EXCEPT ![s] = g]
      BY <1>2, <2>5 DEF Update, HistoryOfUpdate, IInv
    <3> HIDE DEF g
    <3> QED BY <2>2, <3>1, <3>2
  <2>6. ASSUME NEW s \in Sketch, Reset(s) PROVE SeedsDoNotMix'
    BY <2>2, <2>6 DEF Reset, NoHistory
  <2>7. ASSUME NEW s \in Sketch, NEW o \in Sketch, Merge(s, o) PROVE SeedsDoNotMix'
    <3> DEFINE g == [rep      |-> hist[s].rep \cup hist[o].rep,
                     seeds    |-> hist[s].seeds \cup hist[o].seeds,
                     streamed |-> hist[s].streamed /\ hist[o].streamed /\ K[o] >= K[s],
                     p        |-> Lesser(hist[s].p, hist[o].p)]
    <3>1. g.seeds \subseteq {Seed[s]}
      BY <2>3, <2>4, <2>7 DEF Merge
    <3>2. hist' = [hist EXCEPT ![s] = g]
      BY <1>2, <2>7 DEF Merge, HistoryOfMerge, IInv
    <3> HIDE DEF g
    <3> QED BY <2>2, <3>1, <3>2
  <2>8. ASSUME NEW s \in Sketch, NEW o \in Sketch, NEW S, Combinable(s, o),
               hist' = [hist EXCEPT ![s] = Restricted(s, o, S)]
        PROVE  SeedsDoNotMix'
    <3>1. Restricted(s, o, S).seeds \subseteq {Seed[s]}
      BY <2>3, <2>4, <2>8 DEF Restricted
    <3> QED BY <2>2, <2>8, <3>1
  <2>9. ASSUME NEW s \in Sketch, NEW o \in Sketch, Intersect(s, o) \/ ANotB(s, o)
        PROVE  SeedsDoNotMix'
    <3>1. CASE Intersect(s, o)
      BY <1>2, <2>8, <3>1 DEF Intersect, IInv
    <3>2. CASE ANotB(s, o)
      BY <1>2, <2>8, <3>2 DEF ANotB, IInv
    <3> QED BY <2>9, <3>1, <3>2
  <2>10. ASSUME NEW s \in Sketch, NEW o \in Sketch, Deserialize(s, o)
         PROVE  SeedsDoNotMix'
    <3>1. CASE sk[o].is_empty
      <4>1. hist' = [hist EXCEPT ![s] = NoHistory(MaxTheta)]
        BY <2>10, <3>1 DEF Deserialize, HistoryOfDeserialize
      <4> QED BY <2>2, <4>1 DEF NoHistory
    <3>2. CASE ~sk[o].is_empty
      <4> DEFINE g == [hist[o] EXCEPT !.streamed = @ /\ K[o] = K[s]]
      <4>1. hist' = [hist EXCEPT ![s] = g] /\ g.seeds = hist[o].seeds
        BY <2>3, <2>10, <3>2 DEF Deserialize, HistoryOfDeserialize, Histories
      <4>2. g.seeds \subseteq {Seed[s]}
        BY <2>4, <2>10, <3>2, <4>1 DEF Deserialize
      <4> HIDE DEF g
      <4> QED BY <2>2, <4>1, <4>2
    <3> QED BY <3>1, <3>2
  <2> QED BY <1>2, <2>1, <2>5, <2>6, <2>7, <2>9, <2>10 DEF Next, IntersectEmpty
<1> QED BY <1>1, <1>2, AlwaysIInv, PTL DEF Spec
=============================================================================
