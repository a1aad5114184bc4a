------------------------- MODULE ThetaPolicyProofs -------------------------
(***************************************************************************)
(* Facts about the operators of ThetaPolicy, for every max_theta, every    *)
(* nominal k and every set of hashes.                                      *)
(***************************************************************************)
EXTENDS ThetaPolicy, FiniteSetTheorems, WellFoundedInduction, TLAPS

(* A nonempty set of naturals has a least element.                         *)
LEMMA LeastElement ==
  ASSUME NEW T \in SUBSET Nat, T # {}
  PROVE  \E x \in T : \A y \in T : x <= y
<1>1. PICK x \in T : \A y \in T : ~ (<<y, x>> \in OpToRel(<, Nat))
  BY NatLessThanWellFounded, WFMin
<1>2. ASSUME NEW y \in T PROVE x <= y
  <2>1. ~ (<<y, x>> \in OpToRel(<, Nat))
    BY <1>1
  <2>2. <<y, x>> \in Nat \X Nat /\ <<y, x>>[1] = y /\ <<y, x>>[2] = x
    OBVIOUS
  <2>3. ~ (y < x)
    BY <2>1, <2>2 DEF OpToRel
  <2> QED BY <2>3
<1> QED BY <1>2

(* Sets of hashes are finite, and so are the parts of them.                *)
LEMMA HashesFinite ==
  ASSUME NEW S \in SUBSET Hashes
  PROVE  IsFiniteSet(S) /\ Cardinality(S) \in Nat
<1>1. IsFiniteSet(Hashes)
  BY FS_Interval, PolicyAssumption DEF Hashes
<1> QED BY <1>1, FS_Subset, FS_CardinalityType

(* A nonempty set of hashes has a greatest element.                        *)
LEMMA GreatestElement ==
  ASSUME NEW S \in SUBSET Hashes, S # {}
  PROVE  \E x \in S : \A y \in S : y <= x
<1> DEFINE Bounds == {b \in Nat : \A s \in S : s <= b}
<1>1. MaxTheta \in Bounds
  BY PolicyAssumption DEF Hashes
<1>2. PICK b \in Bounds : \A c \in Bounds : b <= c
  <2> HIDE DEF Bounds
  <2>1. Bounds \in SUBSET Nat
    BY DEF Bounds
  <2> QED BY <1>1, <2>1, LeastElement
<1>3. b \in S
  <2> SUFFICES ASSUME b \notin S PROVE FALSE
    OBVIOUS
  <2>1. \A s \in S : s \in Nat /\ s <= b - 1
    BY <1>2, PolicyAssumption DEF Hashes
  <2>2. b - 1 \in Nat
    <3>1. PICK s \in S : TRUE
      OBVIOUS
    <3> QED BY <2>1, <3>1, <1>2
  <2>3. b - 1 \in Bounds
    BY <2>1, <2>2
  <2> QED BY <2>3, <1>2
<1> QED BY <1>2, <1>3

(* Element number n of the ascending array exists when the array is longer *)
(* than n: data + k is read by install only if there is such an element.   *)
LEMMA NthExists ==
  ASSUME NEW S \in SUBSET Hashes, NEW n \in Nat, n < Cardinality(S)
  PROVE  /\ Nth(S, n) \in S
         /\ Cardinality(Below(S, Nth(S, n))) = n
<1>1. \A x : Below(S, x) \in SUBSET Hashes
  BY DEF Below
<1>2. \A x : IsFiniteSet(Below(S, x)) /\ Cardinality(Below(S, x)) \in Nat
  BY <1>1, HashesFinite
<1>3. IsFiniteSet(S) /\ Cardinality(S) \in Nat
  BY HashesFinite
<1>4. S \in SUBSET Nat
  BY PolicyAssumption DEF Hashes
<1> DEFINE Ranked == {h \in S : Cardinality(Below(S, h)) >= n}
<1>5. ASSUME NEW R \in SUBSET Hashes, NEW m \in R, \A y \in R : y <= m,
             R \subseteq S, \A y \in S : y < m => y \in R
      PROVE  Cardinality(Below(S, m)) = Cardinality(R) - 1
  <2>1. ASSUME NEW y PROVE y \in Below(S, m) <=> y \in R \ {m}
    <3>1. m \in Nat /\ \A z \in S : z \in Nat
      BY <1>4, <1>5
    <3>2. y \in Below(S, m) <=> y \in S /\ y < m
      BY DEF Below
    <3>3. ASSUME y \in S, y < m PROVE y \in R /\ y # m
      BY <3>1, <3>3, <1>5
    <3>4. ASSUME y \in R, y # m PROVE y \in S /\ y < m
      <4>1. y \in S /\ y <= m
        BY <3>4, <1>5
      <4> QED BY <4>1, <3>1, <3>4
    <3> QED BY <3>2, <3>3, <3>4
  <2>2. Below(S, m) = R \ {m}
    BY <2>1
  <2>3. IsFiniteSet(R)
    BY HashesFinite
  <2> QED BY <2>2, <2>3, FS_RemoveElement
<1>6. Ranked # {}
  <2>1. S # {}
    BY <1>3, FS_EmptySet
  <2>2. PICK m \in S : \A y \in S : y <= m
    BY <2>1, GreatestElement
  <2>3. Cardinality(Below(S, m)) = Cardinality(S) - 1
    BY <2>2, <1>5
  <2>4. Cardinality(Below(S, m)) >= n
    BY <2>3, <1>3
  <2> QED BY <2>4
<1>7. PICK h \in Ranked : \A g \in Ranked : h <= g
  <2> HIDE DEF Ranked
  <2>1. Ranked \in SUBSET Nat
    BY <1>4 DEF Ranked
  <2> QED BY <1>6, <2>1, LeastElement
<1>8. Cardinality(Below(S, h)) = n
  <2> SUFFICES ASSUME Cardinality(Below(S, h)) > n PROVE FALSE
    BY <1>2
  <2>1. Below(S, h) # {}
    BY <1>2, FS_EmptySet
  <2>2. PICK m \in Below(S, h) : \A y \in Below(S, h) : y <= m
    BY <1>1, <2>1, GreatestElement
  <2>3. \A y \in S : y < m => y \in Below(S, h)
    BY <2>2, <1>4 DEF Below
  <2>4. Below(S, h) \subseteq S
    BY DEF Below
  <2>5. Cardinality(Below(S, m)) = Cardinality(Below(S, h)) - 1
    BY <1>1, <2>2, <2>3, <2>4, <1>5
  <2>6. m \in Ranked
    BY <2>5, <2>2, <2>4, <1>2
  <2> QED BY <2>6, <2>2, <1>7, <1>4 DEF Below
<1> QED BY <1>8 DEF Nth

(* What install keeps: at most k hashes, all of them below the new theta.  *)
LEMMA InstallKeeps ==
  ASSUME NEW S \in SUBSET Hashes, NEW k \in Nat, NEW t \in Nat,
         \A h \in S : h < t
  PROVE  /\ Cardinality(Retained(S, k)) <= k
         /\ Retained(S, k) = Below(S, ThetaAfter(S, k, t))
         /\ ThetaAfter(S, k, t) <= t
         /\ ThetaAfter(S, k, t) < t =>
              ThetaAfter(S, k, t) \in S /\ Cardinality(Retained(S, k)) = k
         /\ ThetaAfter(S, k, t) \in Nat
<1>0. IsFiniteSet(S) /\ Cardinality(S) \in Nat /\ S \in SUBSET Nat
  BY HashesFinite, PolicyAssumption DEF Hashes
<1>1. CASE Cardinality(S) > k
  <2>1. Nth(S, k) \in S /\ Cardinality(Below(S, Nth(S, k))) = k
    BY <1>1, <1>0, NthExists
  <2>2. Retained(S, k) = Below(S, Nth(S, k)) /\ ThetaAfter(S, k, t) = Nth(S, k)
    BY <1>1 DEF Retained, ThetaAfter
  <2>3. Nth(S, k) < t /\ Nth(S, k) \in Nat
    BY <2>1, <1>0
  <2> QED BY <2>1, <2>2, <2>3
<1>2. CASE ~ (Cardinality(S) > k)
  <2>1. Retained(S, k) = S /\ ThetaAfter(S, k, t) = t
    BY <1>2 DEF Retained, ThetaAfter
  <2>2. Below(S, t) = S
    BY DEF Below
  <2> QED BY <1>0, <1>2, <2>1, <2>2
<1> QED BY <1>1, <1>2

(* There is at most one summary of a set: a sketch that satisfies Parity   *)
(* does not depend on how its keys were batched, chunked or ordered, nor   *)
(* on which merges brought them together.                                  *)
THEOREM SummaryUnique ==
  ASSUME NEW S \in SUBSET Hashes, NEW k \in Nat, NEW p \in Nat \ {0},
         NEW hs1, NEW t1 \in Nat \ {0}, IsSummary(S, k, p, hs1, t1),
         NEW hs2, NEW t2 \in Nat \ {0}, IsSummary(S, k, p, hs2, t2)
  PROVE  hs1 = hs2 /\ t1 = t2
<1>1. ASSUME NEW a \in Nat \ {0}, NEW b \in Nat \ {0}, NEW A, NEW B,
             IsSummary(S, k, p, A, a), IsSummary(S, k, p, B, b), a < b
      PROVE  FALSE
  <2>1. a \in S /\ Cardinality(A) = k
    BY <1>1 DEF IsSummary
  <2>2. /\ A = {h \in S : 0 < h /\ h < a} /\ B = {h \in S : 0 < h /\ h < b}
        /\ A \in SUBSET Hashes /\ B \in SUBSET Hashes
    BY <1>1 DEF IsSummary
  <2>3. A \cup {a} \subseteq B /\ a \notin A
    <3>1. a > 0 /\ a < b /\ ~ (a < a) /\ \A h \in S : h < a => h < b
      BY <1>1, PolicyAssumption DEF Hashes
    <3> QED BY <3>1, <2>1, <2>2
  <2>4. Cardinality(A \cup {a}) = k + 1
    BY <2>1, <2>2, <2>3, HashesFinite, FS_AddElement
  <2>5. Cardinality(A \cup {a}) <= Cardinality(B)
    BY <2>2, <2>3, HashesFinite, FS_Subset
  <2>6. Cardinality(B) <= k
    BY <1>1 DEF IsSummary
  <2>7. Cardinality(B) \in Nat
    BY <2>2, HashesFinite
  <2> QED BY <2>4, <2>5, <2>6, <2>7
<1>2. t1 = t2
  BY <1>1
<1> QED BY <1>2 DEF IsSummary

(* Folding more keys into a summary and installing gives the summary of    *)
(* the larger set: the step that every chunk of every update takes.        *)
LEMMA InstallSummarizes ==
  ASSUME NEW S \in SUBSET Hashes, NEW C \in SUBSET Hashes,
         NEW k \in Nat, NEW p \in Nat, NEW hs, NEW t \in Nat \ {0},
         IsSummary(S, k, p, hs, t)
  PROVE  LET U == hs \cup Screened(C, t)
         IN  IsSummary(S \cup C, k, p, Retained(U, k), ThetaAfter(U, k, t))
<1> DEFINE U == hs \cup Screened(C, t)
<1> DEFINE R == Retained(U, k)
<1> DEFINE n == ThetaAfter(U, k, t)
<1>1. S \in SUBSET Nat /\ C \in SUBSET Nat
  BY PolicyAssumption DEF Hashes
<1>2. U = {h \in S \cup C : 0 < h /\ h < t}
  <2>1. hs = {h \in S : 0 < h /\ h < t}
    BY DEF IsSummary
  <2>2. ASSUME NEW h \in C PROVE ScreenHash(t, h) <=> 0 < h /\ h < t
    BY <1>1 DEF ScreenHash
  <2>3. Screened(C, t) = {h \in C : 0 < h /\ h < t}
    BY <2>2 DEF Screened
  <2> QED BY <2>1, <2>3
<1>3. U \in SUBSET Hashes /\ \A h \in U : h < t
  BY <1>2
<1>4. /\ Cardinality(R) <= k /\ R = Below(U, n) /\ n <= t /\ n \in Nat
      /\ n < t => n \in U /\ Cardinality(R) = k
  <2> HIDE DEF U
  <2> QED BY <1>3, InstallKeeps
<1>5. R = {h \in S \cup C : 0 < h /\ h < n}
  <2> HIDE DEF n, R
  <2>1. \A h \in S \cup C : h < n => h < t
    BY <1>1, <1>4
  <2>2. R = {h \in U : h < n}
    BY <1>4 DEF Below
  <2> HIDE DEF U
  <2> QED BY <1>2, <2>1, <2>2
<1>6. ASSUME n < p PROVE n \in S \cup C /\ Cardinality(R) = k
  <2>1. CASE n < t
    <3> HIDE DEF n, R, U
    <3> QED BY <2>1, <1>4, <1>2
  <2>2. CASE n = t
    <3>1. t < p
      BY <1>6, <2>2
    <3>2. t \in S /\ Cardinality(hs) = k
      BY <3>1 DEF IsSummary
    <3>3. hs \subseteq R
      <4> HIDE DEF n, U, R
      <4> QED BY <1>5, <2>2 DEF IsSummary
    <3>4. R \in SUBSET Hashes
      <4> HIDE DEF n, U
      <4> QED BY <1>5
    <3>5. Cardinality(hs) <= Cardinality(R) /\ Cardinality(R) \in Nat
      <4> HIDE DEF n, U, R
      <4> QED BY <3>3, <3>4, HashesFinite, FS_Subset
    <3>6. Cardinality(R) = k
      <4> HIDE DEF n, U, R
      <4> QED BY <3>2, <3>5, <1>4
    <3> QED
      <4> HIDE DEF n, U, R
      <4> QED BY <3>2, <3>6, <2>2
  <2> HIDE DEF n, U, R
  <2> QED BY <2>1, <2>2, <1>4
<1>7. n <= p
  <2> HIDE DEF n, U, R
  <2>1. t <= p
    BY DEF IsSummary
  <2> QED BY <2>1, <1>4
<1>8. IsSummary(S \cup C, k, p, R, n)
  <2> HIDE DEF n, U, R
  <2> QED BY <1>4, <1>5, <1>6, <1>7 DEF IsSummary
<1> QED BY <1>8
=============================================================================
