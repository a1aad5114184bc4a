------------------------- MODULE ThetaArraysProofs -------------------------
(***************************************************************************)
(* The arrays of the Theta sketch, for every max_theta, k and sampling     *)
(* threshold, and whatever order and duplicates the screen returns: they   *)
(* are ascending and below theta whenever an operation starts, and what    *)
(* sorting, merging, searching and truncating does to them is what         *)
(* ThetaSketch says of sets.                                               *)
(*                                                                         *)
(* The device algorithms are loops.  What a loop computes is proved by     *)
(* induction in the form of LeastElement: the least round that violates    *)
(* the loop's invariant is not the first one, and the one before it does   *)
(* not, which is a contradiction.                                          *)
(***************************************************************************)
EXTENDS ThetaArrays, ThetaPolicyProofs, FunctionTheorems

-----------------------------------------------------------------------------
(* Loops and ranks.                                                        *)

IsLoop(f, N, a, G) == f[0] = a /\ \A n \in 1 .. N : f[n] = G[n][f[n - 1]]

(* A function defined round by round exists.                               *)
LEMMA Rounds ==
  ASSUME NEW R, NEW a \in R, NEW N \in Nat, NEW G \in [1 .. N -> [R -> R]]
  PROVE  \E f \in [0 .. N -> R] : IsLoop(f, N, a, G)
<1> DEFINE Good(m, f) == f[0] = a /\ \A n \in 1 .. m : f[n] = G[n][f[n - 1]]
           Bad == {m \in 0 .. N : ~ \E f \in [0 .. m -> R] : Good(m, f)}
<1>1. Bad = {}
  <2> SUFFICES ASSUME Bad # {} PROVE FALSE
    OBVIOUS
  <2>1. PICK m \in Bad : \A y \in Bad : m <= y
    <3>1. Bad \in SUBSET Nat
      OBVIOUS
    <3> HIDE DEF Bad
    <3> QED BY <3>1, LeastElement
  <2>2. m \in 0 .. N /\ ~ \E f \in [0 .. m -> R] : Good(m, f)
    OBVIOUS
  <2>3. m # 0
    <3> SUFFICES ASSUME m = 0 PROVE FALSE
      OBVIOUS
    <3> DEFINE f == [n \in 0 .. 0 |-> a]
    <3>1. f \in [0 .. 0 -> R] /\ Good(0, f)
      OBVIOUS
    <3> QED BY <3>1, <2>2
  <2>4. m - 1 \in 0 .. N /\ m - 1 \notin Bad
    BY <2>1, <2>2, <2>3, SMTT(60)
  <2>5. PICK f \in [0 .. m - 1 -> R] : Good(m - 1, f)
    BY <2>4
  <2> DEFINE g == [n \in 0 .. m |-> IF n = m THEN G[m][f[m - 1]] ELSE f[n]]
  <2>6. g \in [0 .. m -> R]
    BY <2>2, <2>3
  <2>7. \A n \in 0 .. m - 1 : g[n] = f[n]
    BY <2>2
  <2>8. g[m] = G[m][f[m - 1]]
    BY <2>2
  <2> HIDE DEF g
  <2>9. Good(m, g)
    <3>1. g[0] = a
      BY <2>2, <2>3, <2>5, <2>7
    <3>2. ASSUME NEW n \in 1 .. m PROVE g[n] = G[n][g[n - 1]]
      <4>1. CASE n = m
        BY <2>2, <2>3, <2>7, <2>8, <4>1
      <4>2. CASE n # m
        <5>1. n \in 1 .. m - 1 /\ n \in 0 .. m - 1 /\ n - 1 \in 0 .. m - 1
          BY <2>2, <4>2
        <5> QED BY <5>1, <2>5, <2>7
      <4> QED BY <4>1, <4>2
    <3> QED BY <3>1, <3>2
  <2> QED BY <2>2, <2>6, <2>9
<1>2. N \in 0 .. N
  OBVIOUS
<1> QED BY <1>1, <1>2 DEF IsLoop

(* Numbers below n that tell n things apart are all the numbers below n.   *)
LEMMA Ranked ==
  ASSUME NEW D, IsFiniteSet(D), NEW r \in [D -> Nat],
         \A d \in D : r[d] < Cardinality(D),
         \A d, e \in D : r[d] = r[e] => d = e
  PROVE  \A n \in Nat : n < Cardinality(D) => \E d \in D : r[d] = n
<1> DEFINE c == Cardinality(D)
           T == 0 .. c - 1
<1>1. c \in Nat
  BY FS_CardinalityType
<1>2. IsFiniteSet(T) /\ Cardinality(T) = c
  <2>1. /\ IsFiniteSet(0 .. c - 1)
        /\ Cardinality(0 .. c - 1) = IF 0 > c - 1 THEN 0 ELSE c - 1 - 0 + 1
    BY <1>1, FS_Interval, SMTT(60)
  <2> QED BY <1>1, <2>1
<1>3. r \in [D -> T]
  BY <1>1
<1> HIDE DEF T
<1>4. r \in Injection(D, T)
  BY <1>3 DEF Injection, IsInjective
<1>5. r \in Surjection(D, T)
  BY <1>2, <1>4, FS_Injection
<1> QED BY <1>1, <1>5 DEF Surjection, T

(* A part that leaves an element out is smaller.                           *)
LEMMA SmallerPart ==
  ASSUME NEW B, IsFiniteSet(B), NEW A \in SUBSET B, NEW x \in B, x \notin A
  PROVE  /\ Cardinality(A) \in Nat /\ Cardinality(B) \in Nat
         /\ Cardinality(A) < Cardinality(B)
<1>1. A \in SUBSET (B \ {x})
  OBVIOUS
<1>2. IsFiniteSet(B \ {x}) /\ Cardinality(B \ {x}) = Cardinality(B) - 1
  BY FS_RemoveElement
<1>3. IsFiniteSet(A) /\ Cardinality(A) <= Cardinality(B \ {x})
  BY <1>1, <1>2, FS_Subset
<1> QED BY <1>2, <1>3, FS_CardinalityType

(* How many smaller elements there are is in the order of the elements.    *)
LEMMA RankOrder ==
  ASSUME NEW P \in SUBSET Int, IsFiniteSet(P), NEW p \in P, NEW q \in P
  PROVE  /\ Cardinality(Below(P, p)) \in Nat
         /\ Cardinality(Below(P, p)) < Cardinality(P)
         /\ p < q <=> Cardinality(Below(P, p)) < Cardinality(Below(P, q))
<1>1. ASSUME NEW a \in P
      PROVE  /\ IsFiniteSet(Below(P, a)) /\ Cardinality(Below(P, a)) \in Nat
             /\ Cardinality(Below(P, a)) < Cardinality(P)
  <2>1. Below(P, a) \in SUBSET P /\ a \notin Below(P, a)
    BY DEF Below
  <2> QED BY <2>1, SmallerPart, FS_Subset
<1>2. ASSUME NEW a \in P, NEW b \in P, a < b
      PROVE  Cardinality(Below(P, a)) < Cardinality(Below(P, b))
  <2>1. ~ (a < a) /\ \A y \in P : y < a => y < b
    BY <1>2
  <2>2. Below(P, a) \in SUBSET Below(P, b) /\ a \in Below(P, b) /\ a \notin Below(P, a)
    BY <1>2, <2>1 DEF Below
  <2> QED BY <1>1, <2>2, SmallerPart
<1>3. p < q \/ p = q \/ q < p
  OBVIOUS
<1>4. p = q => Cardinality(Below(P, p)) = Cardinality(Below(P, q))
  OBVIOUS
<1> QED BY <1>1, <1>2, <1>3, <1>4

(* Element number n of a finite set of numbers.                            *)
LEMMA NthOf ==
  ASSUME NEW P \in SUBSET Int, IsFiniteSet(P)
  PROVE  /\ \A n \in Nat : n < Cardinality(P) =>
              Nth(P, n) \in P /\ Cardinality(Below(P, Nth(P, n))) = n
         /\ \A p \in P : Nth(P, Cardinality(Below(P, p))) = p
<1> DEFINE r == [p \in P |-> Cardinality(Below(P, p))]
<1>1. r \in [P -> Nat] /\ \A p \in P : r[p] < Cardinality(P)
  BY RankOrder
<1>2. \A p, q \in P : r[p] = r[q] => p = q
  <2> SUFFICES ASSUME NEW p \in P, NEW q \in P, r[p] = r[q] PROVE p = q
    OBVIOUS
  <2>1. ~ (p < q) /\ ~ (q < p)
    BY RankOrder
  <2> QED BY <2>1
<1>3. \A n \in Nat : n < Cardinality(P) => \E p \in P : r[p] = n
  <2> HIDE DEF r
  <2> QED BY <1>1, <1>2, Ranked
<1>4. ASSUME NEW n \in Nat, n < Cardinality(P)
      PROVE  Nth(P, n) \in P /\ Cardinality(Below(P, Nth(P, n))) = n
  <2>1. \E p \in P : Cardinality(Below(P, p)) = n
    BY <1>3, <1>4
  <2> QED BY <2>1 DEF Nth
<1>5. ASSUME NEW p \in P PROVE Nth(P, Cardinality(Below(P, p))) = p
  <2> DEFINE n == Cardinality(Below(P, p))
  <2>1. n \in Nat /\ n < Cardinality(P)
    BY RankOrder
  <2>2. Nth(P, n) \in P /\ Cardinality(Below(P, Nth(P, n))) = n
    <3> HIDE DEF n
    <3> QED BY <2>1, <1>4
  <2>3. r[Nth(P, n)] = r[p]
    BY <2>2
  <2> HIDE DEF r, n
  <2> QED BY <1>2, <2>2, <2>3 DEF n
<1> QED BY <1>4, <1>5

-----------------------------------------------------------------------------
(* Arrays.                                                                 *)

Sorted(s)  == \A i, j \in DOMAIN s : i < j => s[i] <= s[j]
Ascends(s) == \A i, j \in DOMAIN s : i < j => s[i] < s[j]

LEMMA ArrayParts ==
  ASSUME NEW s \in Seq(Nat)
  PROVE  /\ Len(s) \in Nat /\ DOMAIN s = 1 .. Len(s)
         /\ \A i \in 1 .. Len(s) : s[i] \in Nat
         /\ IsFiniteSet(DOMAIN s) /\ Cardinality(DOMAIN s) = Len(s)
<1>1. /\ Len(s) \in Nat /\ DOMAIN s = 1 .. Len(s)
      /\ \A i \in 1 .. Len(s) : s[i] \in Nat
  OBVIOUS
<1>2. /\ IsFiniteSet(1 .. Len(s))
      /\ Cardinality(1 .. Len(s)) = IF 1 > Len(s) THEN 0 ELSE Len(s) - 1 + 1
  BY <1>1, FS_Interval
<1> QED BY <1>1, <1>2

(* An array in which neighbours are in order is in order.                  *)
LEMMA StepwiseSorted ==
  ASSUME NEW s \in Seq(Nat), \A i \in 1 .. Len(s) - 1 : s[i] <= s[i + 1]
  PROVE  Sorted(s)
<1>1. /\ Len(s) \in Nat /\ DOMAIN s = 1 .. Len(s)
      /\ \A i \in 1 .. Len(s) : s[i] \in Nat
  BY ArrayParts
<1> SUFFICES ASSUME NEW i \in 1 .. Len(s), NEW k \in 1 .. Len(s), i < k, ~ (s[i] <= s[k])
             PROVE  FALSE
  BY <1>1 DEF Sorted
<1> DEFINE Bad == {j \in 1 .. Len(s) : i < j /\ ~ (s[i] <= s[j])}
<1>2. Bad \in SUBSET Nat /\ k \in Bad
  OBVIOUS
<1>3. PICK j \in Bad : \A y \in Bad : j <= y
  <2> HIDE DEF Bad
  <2> QED BY <1>2, LeastElement
<1>4. j \in 1 .. Len(s) /\ i < j /\ ~ (s[i] <= s[j])
  BY <1>3
<1>5. j - 1 \in 1 .. Len(s) /\ j - 1 \in 1 .. Len(s) - 1 /\ j - 1 \notin Bad
  BY <1>1, <1>3, <1>4
<1>6. s[i] <= s[j - 1]
  <2>1. CASE j - 1 = i
    BY <1>1, <2>1
  <2>2. CASE j - 1 # i
    BY <1>1, <1>4, <1>5, <2>2
  <2> QED BY <2>1, <2>2
<1>7. s[j - 1] <= s[j - 1 + 1] /\ j - 1 + 1 = j
  BY <1>4, <1>5
<1> QED BY <1>1, <1>4, <1>5, <1>6, <1>7

(* Selecting positions keeps the elements there, in their order.           *)
LEMMA CompactedIs ==
  ASSUME NEW s \in Seq(Nat), NEW P \in SUBSET DOMAIN s
  PROVE  /\ Compacted(s, P) \in Seq(Nat)
         /\ Len(Compacted(s, P)) = Cardinality(P)
         /\ Cardinality(P) \in Nat /\ Cardinality(P) <= Len(s)
         /\ ToSet(Compacted(s, P)) = {s[i] : i \in P}
         /\ \A m, n \in 1 .. Cardinality(P) :
              m < n => \E i, j \in P : /\ i < j
                                       /\ Compacted(s, P)[m] = s[i]
                                       /\ Compacted(s, P)[n] = s[j]
<1> DEFINE c == Cardinality(P)
           C == Compacted(s, P)
<1>1. /\ Len(s) \in Nat /\ DOMAIN s = 1 .. Len(s) /\ \A i \in 1 .. Len(s) : s[i] \in Nat
      /\ IsFiniteSet(DOMAIN s) /\ Cardinality(DOMAIN s) = Len(s)
  BY ArrayParts
<1>2. IsFiniteSet(P) /\ c \in Nat /\ c <= Len(s) /\ P \in SUBSET Int
  BY <1>1, FS_Subset, FS_CardinalityType
<1>3. /\ \A n \in Nat : n < c => Nth(P, n) \in P /\ Cardinality(Below(P, Nth(P, n))) = n
      /\ \A p \in P : Nth(P, Cardinality(Below(P, p))) = p
  BY <1>2, NthOf
<1>4. C = [n \in 1 .. c |-> s[Nth(P, n - 1)]]
  BY DEF Compacted
<1> HIDE DEF c, C
<1>5. \A n \in 1 .. c : n - 1 \in Nat /\ n - 1 < c /\ Nth(P, n - 1) \in P
  BY <1>2, <1>3
<1>6. C \in [1 .. c -> Nat]
  BY <1>1, <1>4, <1>5
<1>7. C \in Seq(Nat) /\ Len(C) = c /\ DOMAIN C = 1 .. c
  BY <1>2, <1>6
<1>8. ToSet(C) = {s[i] : i \in P}
  <2>1. ASSUME NEW n \in 1 .. c PROVE C[n] \in {s[i] : i \in P}
    BY <1>4, <1>5
  <2>2. ASSUME NEW i \in P PROVE \E n \in 1 .. c : s[i] = C[n]
    <3> DEFINE b == Cardinality(Below(P, i))
    <3>1. b \in Nat /\ b < c
      BY <1>2, RankOrder DEF c
    <3>2. Nth(P, b) = i
      BY <1>3
    <3> HIDE DEF b
    <3>3. b + 1 \in 1 .. c /\ (b + 1) - 1 = b
      BY <1>2, <3>1
    <3> QED BY <1>4, <3>2, <3>3
  <2> QED BY <1>7, <2>1, <2>2, ZenonT(60) DEF ToSet
<1>9. ASSUME NEW m \in 1 .. c, NEW n \in 1 .. c, m < n
      PROVE  \E i, j \in P : i < j /\ C[m] = s[i] /\ C[n] = s[j]
  <2> DEFINE i == Nth(P, m - 1)
             j == Nth(P, n - 1)
  <2>1. i \in P /\ j \in P /\ Cardinality(Below(P, i)) = m - 1 /\ Cardinality(Below(P, j)) = n - 1
    BY <1>3, <1>5
  <2>2. C[m] = s[i] /\ C[n] = s[j]
    BY <1>4
  <2> HIDE DEF i, j
  <2>3. m - 1 < n - 1
    BY <1>2, <1>9
  <2>4. i < j
    BY <1>2, <2>1, <2>3, RankOrder
  <2> QED BY <2>1, <2>2, <2>4
<1> QED BY <1>2, <1>7, <1>8, <1>9 DEF c, C

(* unique_sorted of a sorted array: the same values, each once.            *)
LEMMA RunHeadsIs ==
  ASSUME NEW s \in Seq(Nat), Sorted(s)
  PROVE  /\ RunHeads(s) \in Seq(Nat) /\ Len(RunHeads(s)) <= Len(s)
         /\ Ascends(RunHeads(s)) /\ ToSet(RunHeads(s)) = ToSet(s)
<1> DEFINE P == {i \in DOMAIN s : i = 1 \/ s[i] # s[i - 1]}
           H == Compacted(s, P)
<1>1. Len(s) \in Nat /\ DOMAIN s = 1 .. Len(s) /\ \A i \in 1 .. Len(s) : s[i] \in Nat
  BY ArrayParts
<1>2. RunHeads(s) = H
  BY DEF RunHeads
<1>P. P \in SUBSET DOMAIN s /\ \A i \in P : i = 1 \/ s[i] # s[i - 1]
  OBVIOUS
<1>Q. \A i \in DOMAIN s : i = 1 \/ s[i] # s[i - 1] => i \in P
  OBVIOUS
<1> HIDE DEF P
<1>3. /\ H \in Seq(Nat) /\ Len(H) = Cardinality(P) /\ Cardinality(P) <= Len(s)
      /\ ToSet(H) = {s[i] : i \in P}
      /\ \A m, n \in 1 .. Cardinality(P) :
           m < n => \E i, j \in P : i < j /\ H[m] = s[i] /\ H[n] = s[j]
  BY <1>P, CompactedIs
<1> HIDE DEF H
<1>4. Ascends(H)
  <2> SUFFICES ASSUME NEW m \in 1 .. Len(H), NEW n \in 1 .. Len(H), m < n
               PROVE  H[m] < H[n]
    <3>1. DOMAIN H = 1 .. Len(H)
      BY <1>3
    <3> QED BY <3>1 DEF Ascends
  <2>1. PICK i \in P, j \in P : i < j /\ H[m] = s[i] /\ H[n] = s[j]
    BY <1>3
  <2>2. i \in 1 .. Len(s) /\ j \in 1 .. Len(s) /\ j - 1 \in 1 .. Len(s)
        /\ s[j] # s[j - 1]
    BY <1>1, <1>P, <2>1
  <2>3. s[i] <= s[j - 1]
    <3>1. CASE i = j - 1
      BY <1>1, <2>2, <3>1
    <3>2. CASE i < j - 1
      BY <1>1, <2>2, <3>2 DEF Sorted
    <3> QED BY <2>1, <2>2, <3>1, <3>2
  <2>4. s[j - 1] <= s[j]
    <3>1. j - 1 < j /\ j - 1 \in DOMAIN s /\ j \in DOMAIN s
      BY <1>1, <2>2
    <3> QED BY <3>1 DEF Sorted
  <2>5. s[i] \in Nat /\ s[j] \in Nat /\ s[j - 1] \in Nat
    BY <1>1, <2>2
  <2> QED BY <2>1, <2>2, <2>3, <2>4, <2>5, SMTT(60)
<1>5. ToSet(s) = {s[i] : i \in P}
  <2> SUFFICES ASSUME NEW k \in 1 .. Len(s) PROVE \E i \in P : s[k] = s[i]
    BY <1>1, <1>P DEF ToSet
  <2> DEFINE Same == {i \in 1 .. Len(s) : s[i] = s[k]}
  <2>1. Same \in SUBSET Nat /\ k \in Same
    OBVIOUS
  <2>2. PICK i \in Same : \A y \in Same : i <= y
    <3> HIDE DEF Same
    <3> QED BY <2>1, LeastElement
  <2>3. i \in 1 .. Len(s) /\ s[i] = s[k]
    BY <2>2
  <2>4. i = 1 \/ (i - 1 \in 1 .. Len(s) /\ i - 1 \notin Same)
    BY <1>1, <2>2, <2>3
  <2>5. i \in P
    BY <1>1, <1>Q, <2>3, <2>4
  <2> HIDE DEF Same
  <2> QED BY <2>3, <2>5
<1> QED BY <1>2, <1>3, <1>4, <1>5

(* The radix sort, when it looks at all the bits the keys have.            *)
LEMMA RadixSortedIs ==
  ASSUME NEW s \in Seq(Nat), NEW bits, 2 ^ bits \in Nat,
         \A i \in DOMAIN s : s[i] < 2 ^ bits
  PROVE  /\ RadixSorted(s, bits) \in Seq(Nat) /\ Len(RadixSorted(s, bits)) = Len(s)
         /\ Sorted(RadixSorted(s, bits)) /\ ToSet(RadixSorted(s, bits)) = ToSet(s)
<1> DEFINE D == DOMAIN s
           Low(i) == s[i] % 2 ^ bits
           Before(i, j) == Low(i) < Low(j) \/ (Low(i) = Low(j) /\ i < j)
           Ahead(i) == {j \in D : Before(j, i)}
           r == [i \in D |-> Cardinality(Ahead(i))]
           At(n) == CHOOSE i \in D : Cardinality(Ahead(i)) = n - 1
           R == RadixSorted(s, bits)
<1>1. /\ Len(s) \in Nat /\ D = 1 .. Len(s) /\ \A i \in D : s[i] \in Nat
      /\ IsFiniteSet(D) /\ Cardinality(D) = Len(s)
  BY ArrayParts
<1>2. R = [n \in D |-> s[At(n)]]
  BY DEF RadixSorted
<1>3. \A i \in D : Low(i) = s[i]
  <2> SUFFICES ASSUME NEW i \in D PROVE s[i] % 2 ^ bits = s[i]
    OBVIOUS
  <2> DEFINE m == 2 ^ bits
  <2>1. m \in Nat /\ s[i] \in Nat /\ s[i] < m
    BY <1>1
  <2> HIDE DEF m
  <2>2. s[i] % m = s[i]
    BY <2>1, SMTT(60)
  <2> QED BY <2>2 DEF m
<1>4. \A i, j \in D : Before(i, j) <=> s[i] < s[j] \/ (s[i] = s[j] /\ i < j)
  BY <1>3
<1> HIDE DEF Low, Before
<1>5. ASSUME NEW i \in D, NEW j \in D
      PROVE  /\ ~ Before(i, i) /\ (Before(i, j) \/ i = j \/ Before(j, i))
             /\ \A k \in D : Before(k, i) /\ Before(i, j) => Before(k, j)
  <2>1. s[i] \in Nat /\ s[j] \in Nat /\ i \in Nat /\ j \in Nat
    BY <1>1
  <2>2. ASSUME NEW k \in D, Before(k, i), Before(i, j) PROVE Before(k, j)
    <3>1. s[k] \in Nat /\ k \in Nat
      BY <1>1
    <3> QED BY <1>4, <2>1, <2>2, <3>1
  <2> QED BY <1>4, <2>1, <2>2
<1>6. ASSUME NEW i \in D, NEW j \in D, Before(i, j)
      PROVE  Cardinality(Ahead(i)) < Cardinality(Ahead(j))
  <2>1. Ahead(i) \in SUBSET Ahead(j) /\ i \in Ahead(j) /\ i \notin Ahead(i)
    BY <1>5, <1>6
  <2>2. IsFiniteSet(Ahead(j))
    BY <1>1, FS_Subset
  <2> HIDE DEF Ahead
  <2> QED BY <2>1, <2>2, SmallerPart
<1>7. \A i \in D : Cardinality(Ahead(i)) \in Nat /\ Cardinality(Ahead(i)) < Cardinality(D)
  <2> SUFFICES ASSUME NEW i \in D
               PROVE  Cardinality(Ahead(i)) \in Nat /\ Cardinality(Ahead(i)) < Cardinality(D)
    OBVIOUS
  <2>1. Ahead(i) \in SUBSET D /\ i \notin Ahead(i)
    BY <1>5
  <2> HIDE DEF Ahead
  <2> QED BY <1>1, <2>1, SmallerPart
<1> HIDE DEF Ahead
<1>8. r \in [D -> Nat] /\ \A i \in D : r[i] < Cardinality(D)
  BY <1>7
<1>9. \A i, j \in D : r[i] = r[j] => i = j
  <2> SUFFICES ASSUME NEW i \in D, NEW j \in D, r[i] = r[j], i # j PROVE FALSE
    OBVIOUS
  <2>1. r[i] < r[j] \/ r[j] < r[i]
    BY <1>5, <1>6
  <2>2. r[i] \in Nat /\ r[j] \in Nat
    BY <1>8
  <2> HIDE DEF r
  <2> QED BY <2>1, <2>2
<1>10. \A n \in Nat : n < Len(s) => \E i \in D : r[i] = n
  <2>1. IsFiniteSet(D)
    BY <1>1
  <2> HIDE DEF r, D
  <2>2. \A n \in Nat : n < Cardinality(D) => \E i \in D : r[i] = n
    BY <1>8, <1>9, <2>1, Ranked
  <2> QED BY <1>1, <2>2
<1>11. ASSUME NEW n \in D PROVE At(n) \in D /\ r[At(n)] = n - 1
  <2>1. n - 1 \in Nat /\ n - 1 < Len(s)
    BY <1>1
  <2>2. \E i \in D : Cardinality(Ahead(i)) = n - 1
    BY <1>10, <2>1
  <2> HIDE DEF D
  <2> QED BY <2>2
<1>12. \A i \in D : r[i] + 1 \in D /\ At(r[i] + 1) = i
  <2> SUFFICES ASSUME NEW i \in D PROVE r[i] + 1 \in D /\ At(r[i] + 1) = i
    OBVIOUS
  <2>1. r[i] \in Nat /\ r[i] < Len(s)
    BY <1>1, <1>8
  <2> HIDE DEF r
  <2>2. r[i] + 1 \in D /\ (r[i] + 1) - 1 = r[i]
    BY <1>1, <2>1
  <2> HIDE DEF At
  <2> QED BY <1>9, <1>11, <2>2
<1> HIDE DEF At, r
<1>13. R \in [D -> Nat]
  BY <1>1, <1>2, <1>11
<1>14. R \in Seq(Nat) /\ Len(R) = Len(s) /\ DOMAIN R = D
  BY <1>1, <1>13
<1>15. Sorted(R)
  <2> SUFFICES ASSUME NEW m \in D, NEW n \in D, m < n PROVE R[m] <= R[n]
    BY <1>14 DEF Sorted
  <2>1. At(m) \in D /\ At(n) \in D /\ r[At(m)] = m - 1 /\ r[At(n)] = n - 1
    BY <1>11
  <2>2. ~ (r[At(n)] < r[At(m)]) /\ At(n) # At(m)
    BY <1>1, <2>1, SMTT(60)
  <2>3. Before(At(m), At(n))
    BY <1>5, <1>6, <2>1, <2>2 DEF r
  <2>4. s[At(m)] <= s[At(n)]
    BY <1>1, <1>4, <2>1, <2>3, SMTT(60)
  <2> QED BY <1>2, <2>4
<1>16. ToSet(R) = ToSet(s)
  <2>1. \A n \in D : \E i \in D : R[n] = s[i]
    BY <1>2, <1>11
  <2>2. \A i \in D : \E n \in D : s[i] = R[n]
    BY <1>2, <1>12
  <2> QED BY <1>14, <2>1, <2>2 DEF ToSet
<1> QED BY <1>14, <1>15, <1>16

(* A round of the merge: the range that the next result M[n] comes from has *)
(* one, and it is not larger than what is left of the other range.  Of the *)
(* first n results, T[n] come from the first range.                        *)
TakesFirst(a, b, M, T, n) ==
  /\ T[n - 1] < Len(a)
  /\ M[n] = a[T[n - 1] + 1] /\ T[n] = T[n - 1] + 1
  /\ n - 1 - T[n - 1] < Len(b) => a[T[n - 1] + 1] <= b[n - 1 - T[n - 1] + 1]

TakesSecond(a, b, M, T, n) ==
  /\ n - 1 - T[n - 1] < Len(b)
  /\ M[n] = b[n - 1 - T[n - 1] + 1] /\ T[n] = T[n - 1]
  /\ T[n - 1] < Len(a) => b[n - 1 - T[n - 1] + 1] <= a[T[n - 1] + 1]

IsPath(a, b, M, T) ==
  /\ T[0] = 0
  /\ \A n \in 0 .. Len(a) + Len(b) :
       T[n] \in 0 .. Len(a) /\ n - T[n] \in 0 .. Len(b)
  /\ \A n \in 1 .. Len(a) + Len(b) :
       TakesFirst(a, b, M, T, n) \/ TakesSecond(a, b, M, T, n)

LEMMA MergePath ==
  ASSUME NEW a \in Seq(Nat), NEW b \in Seq(Nat)
  PROVE  /\ MergedKeys(a, b) \in [1 .. Len(a) + Len(b) -> Nat]
         /\ \E T \in [0 .. Len(a) + Len(b) -> Int] : IsPath(a, b, MergedKeys(a, b), T)
<1> DEFINE total == Len(a) + Len(b)
           M == MergedKeys(a, b)
           FromFirst(i, j) == i < Len(a) /\ (j = Len(b) \/ a[i + 1] <= b[j + 1])
           Next1(n, i) == IF FromFirst(i, n - 1 - i) THEN i + 1 ELSE i
           Is(f) == f = [n \in 0 .. total |->
                           IF n = 0 THEN 0
                           ELSE LET i == f[n - 1]
                                IN  IF FromFirst(i, n - 1 - i) THEN i + 1 ELSE i]
           T == CHOOSE f : Is(f)
<1>1. /\ Len(a) \in Nat /\ Len(b) \in Nat /\ total \in Nat
      /\ \A i \in 1 .. Len(a) : a[i] \in Nat
      /\ \A i \in 1 .. Len(b) : b[i] \in Nat
  BY ArrayParts
<1>2. M = [n \in 1 .. total |->
             IF FromFirst(T[n - 1], n - 1 - T[n - 1])
             THEN a[T[n - 1] + 1] ELSE b[n - 1 - T[n - 1] + 1]]
  BY DEF MergedKeys
<1> HIDE DEF M, FromFirst, total
<1>3. Is(T)
  <2> DEFINE G == [n \in 1 .. total |-> [i \in Int |-> Next1(n, i)]]
  <2> DEFINE Z == Int
  <2>1. G \in [1 .. total -> [Z -> Z]]
    OBVIOUS
  <2>2. PICK f \in [0 .. total -> Z] :
          IsLoop(f, total, 0, G)
    <3>1. 0 \in Z /\ total \in Nat
      BY <1>1
    <3> HIDE DEF G, Z
    <3> QED BY <2>1, <3>1, Rounds
  <2>3. \A n \in 1 .. total : f[n] = Next1(n, f[n - 1])
    <3> SUFFICES ASSUME NEW n \in 1 .. total PROVE f[n] = Next1(n, f[n - 1])
      OBVIOUS
    <3>1. n - 1 \in 0 .. total
      BY <1>1
    <3>2. f[n - 1] \in Int
      BY <3>1
    <3>3. G[n][f[n - 1]] = Next1(n, f[n - 1])
      <4> HIDE DEF Next1
      <4> QED BY <3>2
    <3> QED BY <2>2, <3>3 DEF IsLoop
  <2>4. Is(f)
    <3> DEFINE g == [n \in 0 .. total |-> IF n = 0 THEN 0 ELSE Next1(n, f[n - 1])]
    <3>1. \A n \in 0 .. total : f[n] = g[n]
      <4> SUFFICES ASSUME NEW n \in 0 .. total PROVE f[n] = g[n]
        OBVIOUS
      <4>1. CASE n = 0
        BY <2>2, <4>1 DEF IsLoop
      <4>2. CASE n # 0
        <5>1. n \in 1 .. total
          BY <1>1, <4>2
        <5> HIDE DEF Next1
        <5> QED BY <2>3, <4>2, <5>1
      <4> QED BY <4>1, <4>2
    <3>2. f = g
      <4> HIDE DEF Next1
      <4>1. DOMAIN f = 0 .. total /\ DOMAIN g = 0 .. total
        OBVIOUS
      <4>2. f = [n \in 0 .. total |-> f[n]] /\ g = [n \in 0 .. total |-> g[n]]
        OBVIOUS
      <4> HIDE DEF g
      <4> QED BY <3>1, <4>2
    <3> QED BY <3>2
  <2> HIDE DEF Is
  <2> QED BY <2>4
<1> HIDE DEF T
<1>4. /\ T[0] = 0
      /\ \A n \in 1 .. total : T[n] = Next1(n, T[n - 1])
  <2> SUFFICES /\ T[0] = 0
               /\ \A n \in 1 .. total : T[n] = IF n = 0 THEN 0 ELSE Next1(n, T[n - 1])
    <3> HIDE DEF Next1
    <3> QED BY <1>1
  <2> QED BY <1>1, <1>3
<1> HIDE DEF Is
<1> DEFINE Fits(n) == T[n] \in 0 .. Len(a) /\ n - T[n] \in 0 .. Len(b)
<1>5. ASSUME NEW n \in 1 .. total, Fits(n - 1)
      PROVE  /\ Fits(n)
             /\ FromFirst(T[n - 1], n - 1 - T[n - 1]) \/ n - 1 - T[n - 1] < Len(b)
  <2> DEFINE i == T[n - 1]
             j == n - 1 - T[n - 1]
  <2>1. i \in 0 .. Len(a) /\ j \in 0 .. Len(b) /\ n = i + j + 1 /\ i + j < Len(a) + Len(b)
    BY <1>1, <1>5 DEF total
  <2>2. T[n] = IF FromFirst(i, j) THEN i + 1 ELSE i
    BY <1>4
  <2> HIDE DEF i, j
  <2>3. CASE FromFirst(i, j)
    <3>1. i < Len(a)
      BY <2>3 DEF FromFirst
    <3> QED BY <1>1, <2>1, <2>2, <2>3, <3>1, SMTT(60) DEF i, j
  <2>4. CASE ~ FromFirst(i, j)
    <3>1. i >= Len(a) \/ j # Len(b)
      BY <1>1, <2>1, <2>4 DEF FromFirst
    <3>2. j < Len(b)
      BY <1>1, <2>1, <3>1
    <3> QED BY <1>1, <2>1, <2>2, <2>4, <3>2, SMTT(60) DEF i, j
  <2> QED BY <2>3, <2>4
<1>6. \A n \in 0 .. total : Fits(n)
  <2> DEFINE Bad == {n \in 0 .. total : ~ Fits(n)}
  <2> SUFFICES ASSUME Bad # {} PROVE FALSE
    OBVIOUS
  <2>1. Bad \in SUBSET Nat
    OBVIOUS
  <2>2. PICK n \in Bad : \A y \in Bad : n <= y
    <3> HIDE DEF Bad
    <3> QED BY <2>1, LeastElement
  <2>3. n # 0
    BY <1>1, <1>4, <2>2
  <2>4. n \in 1 .. total /\ n - 1 \in 0 .. total /\ n - 1 \notin Bad
    BY <1>1, <2>2, <2>3
  <2>5. Fits(n - 1)
    BY <2>4
  <2>6. Fits(n)
    <3> HIDE DEF Fits, Bad
    <3> QED BY <1>5, <2>4, <2>5
  <2> QED BY <2>2, <2>6
<1>7. ASSUME NEW n \in 1 .. total
      PROVE  /\ M[n] \in Nat
             /\ \/ /\ T[n - 1] < Len(a)
                   /\ M[n] = a[T[n - 1] + 1] /\ T[n] = T[n - 1] + 1
                   /\ n - 1 - T[n - 1] < Len(b) =>
                        a[T[n - 1] + 1] <= b[n - 1 - T[n - 1] + 1]
                \/ /\ n - 1 - T[n - 1] < Len(b)
                   /\ M[n] = b[n - 1 - T[n - 1] + 1] /\ T[n] = T[n - 1]
                   /\ T[n - 1] < Len(a) =>
                        b[n - 1 - T[n - 1] + 1] <= a[T[n - 1] + 1]
  <2> DEFINE i == T[n - 1]
             j == n - 1 - T[n - 1]
  <2>1. Fits(n - 1)
    BY <1>1, <1>6
  <2>2. i \in 0 .. Len(a) /\ j \in 0 .. Len(b)
    BY <2>1
  <2>3. FromFirst(i, j) \/ j < Len(b)
    <3> HIDE DEF Fits
    <3> QED BY <1>5, <2>1
  <2>4. /\ T[n] = IF FromFirst(i, j) THEN i + 1 ELSE i
        /\ M[n] = IF FromFirst(i, j) THEN a[i + 1] ELSE b[j + 1]
    BY <1>2, <1>4
  <2> SUFFICES /\ M[n] \in Nat
               /\ \/ /\ i < Len(a) /\ M[n] = a[i + 1] /\ T[n] = i + 1
                     /\ j < Len(b) => a[i + 1] <= b[j + 1]
                  \/ /\ j < Len(b) /\ M[n] = b[j + 1] /\ T[n] = i
                     /\ i < Len(a) => b[j + 1] <= a[i + 1]
    OBVIOUS
  <2> HIDE DEF i, j
  <2>5. CASE FromFirst(i, j)
    <3>1. i < Len(a) /\ (j = Len(b) \/ a[i + 1] <= b[j + 1])
      BY <2>5 DEF FromFirst
    <3>2. i + 1 \in 1 .. Len(a)
      BY <1>1, <2>2, <3>1
    <3> QED BY <1>1, <2>2, <2>4, <2>5, <3>1, <3>2
  <2>6. CASE ~ FromFirst(i, j)
    <3>1. j < Len(b) /\ j + 1 \in 1 .. Len(b)
      BY <1>1, <2>2, <2>3, <2>6
    <3>2. i < Len(a) => ~ (a[i + 1] <= b[j + 1]) /\ i + 1 \in 1 .. Len(a)
      BY <1>1, <2>2, <2>6 DEF FromFirst
    <3> QED BY <1>1, <2>2, <2>4, <2>6, <3>1, <3>2
  <2> QED BY <2>5, <2>6
<1>8. M \in [1 .. total -> Nat]
  BY <1>2, <1>7
<1>9. T \in [0 .. total -> Int]
  <2>1. DOMAIN T = 0 .. total /\ T = [n \in 0 .. total |-> T[n]]
    BY <1>3 DEF Is
  <2>2. \A n \in 0 .. total : T[n] \in Int
    BY <1>6
  <2> QED BY <2>1, <2>2
<1>10. \A n \in 1 .. total : TakesFirst(a, b, M, T, n) \/ TakesSecond(a, b, M, T, n)
  BY <1>7 DEF TakesFirst, TakesSecond
<1>11. IsPath(a, b, M, T)
  BY <1>4, <1>6, <1>10 DEF IsPath, total
<1> QED BY <1>8, <1>9, <1>11 DEF M, total

(* The merge of two sorted ranges.                                         *)
LEMMA MergedKeysIs ==
  ASSUME NEW a \in Seq(Nat), NEW b \in Seq(Nat), Sorted(a), Sorted(b)
  PROVE  /\ MergedKeys(a, b) \in Seq(Nat)
         /\ Len(MergedKeys(a, b)) = Len(a) + Len(b)
         /\ Sorted(MergedKeys(a, b))
         /\ ToSet(MergedKeys(a, b)) = ToSet(a) \cup ToSet(b)
<1> DEFINE total == Len(a) + Len(b)
           M == MergedKeys(a, b)
<1>1. /\ Len(a) \in Nat /\ Len(b) \in Nat
      /\ DOMAIN a = 1 .. Len(a) /\ DOMAIN b = 1 .. Len(b)
      /\ \A i \in 1 .. Len(a) : a[i] \in Nat
      /\ \A i \in 1 .. Len(b) : b[i] \in Nat
  BY ArrayParts
<1>2. total \in Nat
  BY <1>1
<1>3. M \in [1 .. total -> Nat]
  BY MergePath
<1>0. PICK T \in [0 .. total -> Int] : IsPath(a, b, M, T)
  BY MergePath
<1> HIDE DEF M
<1>4. /\ T[0] = 0
      /\ \A n \in 0 .. total : T[n] \in 0 .. Len(a) /\ n - T[n] \in 0 .. Len(b)
      /\ \A n \in 1 .. total : TakesFirst(a, b, M, T, n) \/ TakesSecond(a, b, M, T, n)
  BY <1>0 DEF IsPath
<1> HIDE DEF total
<1>5. M \in Seq(Nat) /\ Len(M) = total /\ DOMAIN M = 1 .. total
  BY <1>2, <1>3
<1>6. ASSUME NEW n \in 1 .. total
      PROVE  /\ n - 1 \in 0 .. total /\ n \in 0 .. total
             /\ T[n - 1] \in 0 .. Len(a) /\ n - 1 - T[n - 1] \in 0 .. Len(b)
  <2>1. n - 1 \in 0 .. total /\ n \in 0 .. total
    BY <1>2
  <2> QED BY <1>4, <2>1
<1>7. \A n \in 1 .. total - 1 : M[n] <= M[n + 1]
  <2> SUFFICES ASSUME NEW n \in 1 .. total - 1 PROVE M[n] <= M[n + 1]
    OBVIOUS
  <2> DEFINE i == T[n - 1]
             j == n - 1 - T[n - 1]
  <2>1. /\ n \in 1 .. total /\ n + 1 \in 1 .. total /\ (n + 1) - 1 = n
    BY <1>2
  <2>2. i \in 0 .. Len(a) /\ j \in 0 .. Len(b) /\ T[n] \in 0 .. Len(a) /\ n - T[n] \in 0 .. Len(b)
    BY <1>6, <2>1
  <2>3. \/ /\ i < Len(a) /\ M[n] = a[i + 1] /\ T[n] = i + 1
           /\ j < Len(b) => a[i + 1] <= b[j + 1]
        \/ /\ j < Len(b) /\ M[n] = b[j + 1] /\ T[n] = i
           /\ i < Len(a) => b[j + 1] <= a[i + 1]
    BY <1>4, <2>1 DEF TakesFirst, TakesSecond
  <2>4. \/ T[n] < Len(a) /\ M[n + 1] = a[T[n] + 1]
        \/ n - T[n] < Len(b) /\ M[n + 1] = b[n - T[n] + 1]
    <3>1. TakesFirst(a, b, M, T, n + 1) \/ TakesSecond(a, b, M, T, n + 1)
      BY <1>4, <2>1
    <3> QED BY <2>1, <3>1 DEF TakesFirst, TakesSecond
  <2>5. j = n - 1 - i
    OBVIOUS
  <2> HIDE DEF i, j
  <2>6. CASE /\ i < Len(a) /\ M[n] = a[i + 1] /\ T[n] = i + 1
             /\ j < Len(b) => a[i + 1] <= b[j + 1]
    <3>1. n - T[n] = j
      BY <2>2, <2>5, <2>6
    <3>2. CASE T[n] < Len(a) /\ M[n + 1] = a[T[n] + 1]
      <4>1. i + 1 \in 1 .. Len(a) /\ i + 2 \in 1 .. Len(a) /\ i + 1 < i + 2 /\ T[n] + 1 = i + 2
        BY <1>1, <2>2, <2>6, <3>2
      <4>2. a[i + 1] <= a[i + 2]
        BY <1>1, <4>1 DEF Sorted
      <4> QED BY <2>6, <3>2, <4>1, <4>2
    <3>3. CASE n - T[n] < Len(b) /\ M[n + 1] = b[n - T[n] + 1]
      BY <2>6, <3>1, <3>3
    <3> QED BY <2>4, <3>2, <3>3
  <2>7. CASE /\ j < Len(b) /\ M[n] = b[j + 1] /\ T[n] = i
             /\ i < Len(a) => b[j + 1] <= a[i + 1]
    <3>1. n - T[n] = j + 1
      BY <2>2, <2>5, <2>7
    <3>2. CASE T[n] < Len(a) /\ M[n + 1] = a[T[n] + 1]
      BY <2>7, <3>2
    <3>3. CASE n - T[n] < Len(b) /\ M[n + 1] = b[n - T[n] + 1]
      <4>1. j + 1 \in 1 .. Len(b) /\ j + 2 \in 1 .. Len(b) /\ j + 1 < j + 2 /\ n - T[n] + 1 = j + 2
        BY <1>1, <2>2, <2>7, <3>1, <3>3
      <4>2. b[j + 1] <= b[j + 2]
        BY <1>1, <4>1 DEF Sorted
      <4> QED BY <2>7, <3>3, <4>1, <4>2
    <3> QED BY <2>4, <3>2, <3>3
  <2> QED BY <2>3, <2>6, <2>7
<1>8. Sorted(M)
  BY <1>5, <1>7, StepwiseSorted
<1>9. \A n \in 1 .. total : M[n] \in ToSet(a) \cup ToSet(b)
  <2> SUFFICES ASSUME NEW n \in 1 .. total PROVE M[n] \in ToSet(a) \cup ToSet(b)
    OBVIOUS
  <2>1. T[n - 1] \in 0 .. Len(a) /\ n - 1 - T[n - 1] \in 0 .. Len(b)
    BY <1>6
  <2>2. \/ T[n - 1] < Len(a) /\ M[n] = a[T[n - 1] + 1]
        \/ n - 1 - T[n - 1] < Len(b) /\ M[n] = b[n - 1 - T[n - 1] + 1]
    BY <1>4 DEF TakesFirst, TakesSecond
  <2>3. CASE T[n - 1] < Len(a) /\ M[n] = a[T[n - 1] + 1]
    <3>1. T[n - 1] + 1 \in DOMAIN a
      BY <1>1, <2>1, <2>3
    <3> QED BY <2>3, <3>1 DEF ToSet
  <2>4. CASE n - 1 - T[n - 1] < Len(b) /\ M[n] = b[n - 1 - T[n - 1] + 1]
    <3>1. n - 1 - T[n - 1] + 1 \in DOMAIN b
      BY <1>1, <2>1, <2>4
    <3> QED BY <2>4, <3>1 DEF ToSet
  <2> QED BY <2>2, <2>3, <2>4
<1>10. ASSUME NEW k \in 1 .. Len(a) PROVE \E n \in 1 .. total : M[n] = a[k]
  <2> DEFINE Past == {n \in 0 .. total : T[n] >= k}
  <2>1. Past \in SUBSET Nat /\ total \in Past
    <3>1. total \in 0 .. total
      BY <1>2
    <3>2. T[total] \in 0 .. Len(a) /\ total - T[total] \in 0 .. Len(b)
      BY <1>4, <3>1
    <3>3. T[total] >= k
      BY <1>1, <3>2 DEF total
    <3> QED BY <3>1, <3>3
  <2>2. PICK n \in Past : \A y \in Past : n <= y
    <3> HIDE DEF Past
    <3> QED BY <2>1, LeastElement
  <2>3. n \in 0 .. total /\ T[n] >= k /\ n # 0
    BY <1>4, <2>2
  <2>4. n \in 1 .. total /\ n - 1 \in 0 .. total /\ n - 1 \notin Past
    BY <1>2, <2>2, <2>3
  <2>5. T[n - 1] \in 0 .. Len(a) /\ T[n - 1] < k
    BY <1>6, <2>4
  <2>6. T[n] = T[n - 1] + 1 => M[n] = a[T[n - 1] + 1]
    BY <1>4, <2>4, <2>5 DEF TakesFirst, TakesSecond
  <2>7. T[n] = T[n - 1] + 1 \/ T[n] = T[n - 1]
    BY <1>4, <2>4 DEF TakesFirst, TakesSecond
  <2>8. T[n - 1] + 1 = k /\ T[n] = T[n - 1] + 1
    BY <2>3, <2>5, <2>7
  <2> QED BY <2>4, <2>6, <2>8
<1>11. ASSUME NEW k \in 1 .. Len(b) PROVE \E n \in 1 .. total : M[n] = b[k]
  <2> DEFINE Past == {n \in 0 .. total : n - T[n] >= k}
  <2>1. Past \in SUBSET Nat /\ total \in Past
    <3>1. total \in 0 .. total
      BY <1>2
    <3>2. T[total] \in 0 .. Len(a) /\ total - T[total] \in 0 .. Len(b)
      BY <1>4, <3>1
    <3>3. total - T[total] >= k
      BY <1>1, <3>2 DEF total
    <3> QED BY <3>1, <3>3
  <2>2. PICK n \in Past : \A y \in Past : n <= y
    <3> HIDE DEF Past
    <3> QED BY <2>1, LeastElement
  <2>3. n \in 0 .. total /\ n - T[n] >= k /\ n # 0
    BY <1>4, <2>2
  <2>4. n \in 1 .. total /\ n - 1 \in 0 .. total /\ n - 1 \notin Past
    BY <1>2, <2>2, <2>3
  <2>5. n - 1 - T[n - 1] \in 0 .. Len(b) /\ n - 1 - T[n - 1] < k /\ T[n - 1] \in 0 .. Len(a)
    BY <1>6, <2>4
  <2>6. \/ T[n] = T[n - 1] + 1
        \/ T[n] = T[n - 1] /\ M[n] = b[n - 1 - T[n - 1] + 1]
    BY <1>4, <2>4 DEF TakesFirst, TakesSecond
  <2>7. n - 1 - T[n - 1] + 1 = k /\ T[n] = T[n - 1]
    BY <2>3, <2>4, <2>5, <2>6, SMTT(60)
  <2>8. M[n] = b[n - 1 - T[n - 1] + 1]
    <3>1. ~ (T[n] = T[n - 1] + 1)
      BY <2>5, <2>7
    <3> QED BY <2>6, <3>1
  <2> QED BY <2>4, <2>7, <2>8
<1>12. ToSet(M) = ToSet(a) \cup ToSet(b)
  <2>1. /\ ToSet(M) = {M[n] : n \in 1 .. total}
        /\ ToSet(a) = {a[i] : i \in 1 .. Len(a)}
        /\ ToSet(b) = {b[i] : i \in 1 .. Len(b)}
    BY <1>1, <1>5 DEF ToSet
  <2>2. ToSet(M) \subseteq ToSet(a) \cup ToSet(b)
    BY <1>9, <2>1
  <2>3. ToSet(a) \subseteq ToSet(M) /\ ToSet(b) \subseteq ToSet(M)
    BY <1>10, <1>11, <2>1
  <2> QED BY <2>2, <2>3
<1> QED BY <1>5, <1>8, <1>12 DEF M, total

(* A round of the binary search: r.count elements after the first r.first  *)
(* are left, those before them are below h, and those after them are not.  *)
Halving(s, h, n, r) ==
  /\ r.first \in Nat /\ r.count \in Nat
  /\ r.first + r.count <= Len(s) /\ r.count <= Len(s) - n
  /\ \A i \in 1 .. Len(s) : i <= r.first => s[i] < h
  /\ \A i \in 1 .. Len(s) : r.first + r.count < i => h <= s[i]

Half(s, h, r) ==
  LET half == r.count \div 2
  IN  IF r.count = 0 THEN r
      ELSE IF s[r.first + half + 1] < h
           THEN [first |-> r.first + half + 1, count |-> r.count - half - 1]
           ELSE [first |-> r.first, count |-> half]

(* A round keeps that, and leaves fewer elements.                          *)
LEMMA HalvingRound ==
  ASSUME NEW s \in Seq(Nat), Sorted(s), NEW h \in Nat, NEW n \in 1 .. Len(s),
         NEW r, Halving(s, h, n - 1, r)
  PROVE  Halving(s, h, n, Half(s, h, r))
<1> DEFINE N == Len(s)
           half == r.count \div 2
           p == r.first + half + 1
<1>1. N \in Nat /\ DOMAIN s = 1 .. N /\ \A i \in 1 .. N : s[i] \in Nat
  BY ArrayParts
<1>2. /\ r.first \in Nat /\ r.count \in Nat
      /\ r.first + r.count <= N /\ r.count <= N - (n - 1)
      /\ \A i \in 1 .. N : i <= r.first => s[i] < h
      /\ \A i \in 1 .. N : r.first + r.count < i => h <= s[i]
  BY DEF Halving
<1>3. CASE r.count = 0
  <2>1. Half(s, h, r) = r
    BY <1>3 DEF Half
  <2>2. r.count <= N - n
    BY <1>1, <1>3
  <2>3. Halving(s, h, n, r)
    BY <1>2, <2>2 DEF Halving
  <2> QED BY <2>1, <2>3
<1>4. CASE r.count # 0
  <2>1. half \in Nat /\ half < r.count
    <3> DEFINE c == r.count
    <3>1. c \in Nat /\ c # 0
      BY <1>2, <1>4
    <3> HIDE DEF c
    <3>2. c \div 2 \in Nat /\ c \div 2 < c
      BY <3>1
    <3> QED BY <3>2 DEF c
  <2>2. Half(s, h, r) = IF s[p] < h THEN [first |-> p, count |-> r.count - half - 1]
                        ELSE [first |-> r.first, count |-> half]
    BY <1>4 DEF Half
  <2> HIDE DEF half
  <2>3. p \in 1 .. N /\ s[p] \in Nat
    BY <1>1, <1>2, <2>1, SMTT(60)
  <2>4. \A i \in 1 .. N : (i <= p => s[i] <= s[p]) /\ (p <= i => s[p] <= s[i])
    BY <1>1, <2>3, SMTT(60) DEF Sorted
  <2>5. CASE s[p] < h
    <3> DEFINE q == Half(s, h, r)
    <3>1. q.first = p /\ q.count = r.count - half - 1
      BY <2>2, <2>5
    <3> HIDE DEF q
    <3>2. /\ q.first \in Nat /\ q.count \in Nat
          /\ q.first + q.count = r.first + r.count
          /\ q.count <= N - n
      <4> DEFINE f == r.first
                 c == r.count
      <4>1. f \in Nat /\ c \in Nat /\ c <= N - (n - 1) /\ N \in Nat
        BY <1>1, <1>2
      <4>2. half \in Nat /\ half < c /\ q.first = f + half + 1 /\ q.count = c - half - 1
        BY <2>1, <3>1
      <4> SUFFICES q.first \in Nat /\ q.count \in Nat /\ q.first + q.count = f + c
                   /\ q.count <= N - n
        OBVIOUS
      <4> HIDE DEF f, c, N
      <4> QED BY <4>1, <4>2
    <3>3. \A i \in 1 .. N : i <= q.first => s[i] < h
      BY <1>1, <2>3, <2>4, <2>5, <3>1
    <3> QED BY <1>2, <3>2, <3>3 DEF Halving, q
  <2>6. CASE ~ (s[p] < h)
    <3> DEFINE q == Half(s, h, r)
    <3>1. q.first = r.first /\ q.count = half
      BY <2>2, <2>6
    <3> HIDE DEF q
    <3>2. /\ q.first \in Nat /\ q.count \in Nat
          /\ q.first + q.count = p - 1 /\ q.first + q.count <= N
          /\ q.count <= N - n
      BY <1>1, <1>2, <2>1, <3>1, SMTT(60)
    <3>3. \A i \in 1 .. N : q.first + q.count < i => h <= s[i]
      <4> SUFFICES ASSUME NEW i \in 1 .. N, q.first + q.count < i PROVE h <= s[i]
        OBVIOUS
      <4>1. p <= i
        BY <2>3, <3>2
      <4>2. s[p] <= s[i] /\ h <= s[p] /\ s[i] \in Nat
        BY <1>1, <2>3, <2>4, <2>6, <4>1
      <4> QED BY <2>3, <4>2
    <3> QED BY <1>2, <3>1, <3>2, <3>3 DEF Halving, q
  <2> QED BY <2>5, <2>6
<1> QED BY <1>3, <1>4

(* The binary search of a sorted array is membership.                      *)
LEMMA BinarySearchIs ==
  ASSUME NEW s \in Seq(Nat), Sorted(s), NEW h \in Nat
  PROVE  BinarySearch(s, h) <=> h \in ToSet(s)
<1> DEFINE N == Len(s)
           Start == [first |-> 0, count |-> Len(s)]
           Is(f) == f = [n \in 0 .. N |-> IF n = 0 THEN Start ELSE Half(s, h, f[n - 1])]
           L == CHOOSE f : Is(f)
           at == L[N].first
<1>1. N \in Nat /\ DOMAIN s = 1 .. N /\ \A i \in 1 .. N : s[i] \in Nat
  BY ArrayParts
<1>2. BinarySearch(s, h) <=> at < N /\ ~ (h < s[at + 1])
  BY DEF BinarySearch, Half
<1> HIDE DEF N
<1>3. Is(L)
  <2> DEFINE R == [first : Int, count : Int]
             G == [n \in 1 .. N |-> [r \in R |-> Half(s, h, r)]]
  <2>1. ASSUME NEW r \in R PROVE Half(s, h, r) \in R
    <3> DEFINE half == r.count \div 2
    <3>1. r.first \in Int /\ r.count \in Int /\ half \in Int
      OBVIOUS
    <3> HIDE DEF half
    <3>2. /\ [first |-> r.first + half + 1, count |-> r.count - half - 1] \in R
          /\ [first |-> r.first, count |-> half] \in R
      BY <3>1
    <3> QED BY <3>2 DEF Half, half
  <2>2. Start \in R
    BY <1>1 DEF N
  <2> HIDE DEF R, Start
  <2>3. G \in [1 .. N -> [R -> R]]
    BY <2>1
  <2>4. PICK f \in [0 .. N -> R] : IsLoop(f, N, Start, G)
    <3> HIDE DEF G
    <3> QED BY <1>1, <2>2, <2>3, Rounds
  <2>5. f[0] = Start /\ \A n \in 1 .. N : f[n] = Half(s, h, f[n - 1])
    <3>1. ASSUME NEW n \in 1 .. N PROVE f[n] = Half(s, h, f[n - 1])
      <4>1. n - 1 \in 0 .. N
        BY <1>1
      <4>2. f[n - 1] \in R /\ f[n] = G[n][f[n - 1]]
        BY <2>4, <4>1 DEF IsLoop
      <4> QED BY <4>2
    <3> QED BY <2>4, <3>1 DEF IsLoop
  <2>6. Is(f)
    <3> DEFINE g == [n \in 0 .. N |-> IF n = 0 THEN Start ELSE Half(s, h, f[n - 1])]
    <3>1. ASSUME NEW n \in 0 .. N PROVE f[n] = g[n]
      <4>1. CASE n = 0
        BY <2>5, <4>1
      <4>2. CASE n # 0
        <5>1. n \in 1 .. N
          BY <1>1, <4>2
        <5> QED BY <2>5, <4>2, <5>1
      <4> QED BY <4>1, <4>2
    <3>2. f = [n \in 0 .. N |-> f[n]] /\ g = [n \in 0 .. N |-> g[n]]
      OBVIOUS
    <3> HIDE DEF g
    <3>3. f = g
      BY <3>1, <3>2
    <3> QED BY <3>3 DEF g
  <2> HIDE DEF Is
  <2> QED BY <2>6
<1> HIDE DEF L
<1>4. L[0] = Start /\ \A n \in 1 .. N : L[n] = Half(s, h, L[n - 1])
  <2>1. ASSUME NEW n \in 0 .. N
        PROVE  L[n] = IF n = 0 THEN Start ELSE Half(s, h, L[n - 1])
    BY <1>3
  <2>2. 0 \in 0 .. N /\ \A n \in 1 .. N : n \in 0 .. N /\ n # 0
    BY <1>1
  <2> QED BY <2>1, <2>2
<1> HIDE DEF Is
<1>5. \A n \in 0 .. N : Halving(s, h, n, L[n])
  <2> DEFINE Bad == {n \in 0 .. N : ~ Halving(s, h, n, L[n])}
  <2> SUFFICES ASSUME Bad # {} PROVE FALSE
    OBVIOUS
  <2>1. Bad \in SUBSET Nat
    OBVIOUS
  <2>2. PICK n \in Bad : \A y \in Bad : n <= y
    <3> HIDE DEF Bad
    <3> QED BY <2>1, LeastElement
  <2>3. Halving(s, h, 0, Start)
    BY <1>1 DEF Halving, N
  <2>4. n # 0
    BY <1>4, <2>2, <2>3
  <2>5. n \in 1 .. N /\ n - 1 \in 0 .. N /\ n - 1 \notin Bad
    BY <1>1, <2>2, <2>4
  <2>6. Halving(s, h, n - 1, L[n - 1])
    BY <2>5
  <2>7. Halving(s, h, n, Half(s, h, L[n - 1]))
    BY <2>5, <2>6, HalvingRound DEF N
  <2> QED BY <1>4, <2>2, <2>5, <2>7
<1>6. /\ at \in Nat /\ at <= N
      /\ \A i \in 1 .. N : (i <= at => s[i] < h) /\ (at < i => h <= s[i])
  <2> DEFINE r == L[N]
  <2>1. Halving(s, h, N, r)
    BY <1>1, <1>5
  <2> HIDE DEF r
  <2>2. /\ r.first \in Nat /\ r.count \in Nat /\ r.first + r.count <= N /\ r.count <= N - N
        /\ \A i \in 1 .. N : i <= r.first => s[i] < h
        /\ \A i \in 1 .. N : r.first + r.count < i => h <= s[i]
    BY <2>1 DEF Halving, N
  <2>3. r.count = 0 /\ r.first + r.count = r.first
    BY <1>1, <2>2
  <2> QED BY <2>2, <2>3 DEF r
<1> HIDE DEF at
<1>7. ASSUME at < N, ~ (h < s[at + 1]) PROVE h \in ToSet(s)
  <2>1. at + 1 \in 1 .. N /\ at < at + 1
    BY <1>1, <1>6, <1>7
  <2>2. h = s[at + 1]
    BY <1>1, <1>6, <1>7, <2>1
  <2> QED BY <1>1, <2>1, <2>2 DEF ToSet
<1>8. ASSUME h \in ToSet(s) PROVE at < N /\ ~ (h < s[at + 1])
  <2>1. PICK i \in 1 .. N : h = s[i]
    BY <1>1, <1>8 DEF ToSet
  <2>2. ~ (i <= at)
    BY <1>1, <1>6, <2>1
  <2>3. at < N /\ at + 1 \in 1 .. N /\ at + 1 <= i
    BY <1>1, <1>6, <2>2
  <2>4. s[at + 1] <= s[i]
    BY <1>1, <2>3 DEF Sorted
  <2> QED BY <1>1, <2>1, <2>3, <2>4
<1> QED BY <1>2, <1>7, <1>8

(* bit_width(x) bits hold x, and whatever is below it.                     *)
LEMMA BitWidthIs ==
  ASSUME NEW x \in 1 .. MaxTheta
  PROVE  2 ^ BitWidth(x) \in Nat /\ x < 2 ^ BitWidth(x)
<1> DEFINE p == [n \in 0 .. MaxTheta |-> 2 ^ n]
           Good(n) == p[n] \in Nat /\ n < p[n]
           Bad == {n \in 0 .. MaxTheta : ~ Good(n)}
           Enough == {n \in 0 .. x : x < p[n]}
<1>1. MaxTheta \in Nat /\ MaxTheta # 0
  BY PolicyAssumption
<1>2. \A n \in 0 .. MaxTheta : p[n] = 2 ^ n
  OBVIOUS
<1>3. p[0] = 1 /\ \A n \in 0 .. MaxTheta - 1 : p[n + 1] = 2 * p[n]
  <2>1. p[0] = 1
    BY <1>1, PowerAssumption
  <2>2. ASSUME NEW n \in 0 .. MaxTheta - 1 PROVE p[n + 1] = 2 * p[n]
    <3>1. n \in 0 .. MaxTheta /\ n + 1 \in 0 .. MaxTheta
      BY <1>1
    <3>2. 2 ^ (n + 1) = 2 * 2 ^ n
      BY <3>1, PowerAssumption
    <3> QED BY <1>2, <3>1, <3>2
  <2> QED BY <2>1, <2>2
<1> HIDE DEF p
<1>4. Bad = {}
  <2> SUFFICES ASSUME Bad # {} PROVE FALSE
    OBVIOUS
  <2>1. Bad \in SUBSET Nat
    OBVIOUS
  <2>2. PICK n \in Bad : \A y \in Bad : n <= y
    <3> HIDE DEF Bad
    <3> QED BY <2>1, LeastElement
  <2>3. n \in 0 .. MaxTheta /\ ~ Good(n) /\ n # 0
    BY <1>3, <2>2
  <2>4. n - 1 \in 0 .. MaxTheta - 1 /\ n - 1 \in 0 .. MaxTheta /\ n - 1 \notin Bad
        /\ n - 1 + 1 = n
    BY <1>1, <2>2, <2>3
  <2>5. p[n - 1] \in Nat /\ n - 1 < p[n - 1]
    BY <2>4
  <2>6. p[n] = 2 * p[n - 1]
    BY <1>3, <2>4
  <2>7. p[n] \in Nat /\ n < p[n]
    BY <2>3, <2>5, <2>6
  <2> QED BY <2>3, <2>7
<1>5. \A n \in 0 .. MaxTheta : p[n] \in Nat /\ n < p[n]
  BY <1>4
<1>6. Enough \in SUBSET Nat /\ x \in Enough
  BY <1>5
<1>7. PICK n \in Enough : \A y \in Enough : n <= y
  <2> HIDE DEF Enough
  <2> QED BY <1>6, LeastElement
<1>8. n \in 0 .. x /\ x < 2 ^ n /\ (n = 0 \/ 2 ^ (n - 1) <= x)
  <2>1. n \in 0 .. x /\ n \in 0 .. MaxTheta /\ x < p[n]
    BY <1>1, <1>7
  <2>2. CASE n # 0
    <3>1. n - 1 \in 0 .. x /\ n - 1 \in 0 .. MaxTheta /\ n - 1 \notin Enough
      BY <1>1, <1>7, <2>1, <2>2
    <3>2. p[n - 1] <= x
      BY <1>5, <3>1
    <3> QED BY <1>2, <2>1, <3>1, <3>2
  <2> QED BY <1>2, <2>1, <2>2
<1>9. BitWidth(x) \in 0 .. x /\ x < 2 ^ BitWidth(x)
  <2> DEFINE b == BitWidth(x)
  <2>1. b = CHOOSE m \in 0 .. x : x < 2 ^ m /\ (m = 0 \/ 2 ^ (m - 1) <= x)
    BY DEF BitWidth
  <2> HIDE DEF b
  <2>2. b \in 0 .. x /\ x < 2 ^ b
    BY <1>8, <2>1
  <2> QED BY <2>2 DEF b
<1>10. BitWidth(x) \in 0 .. MaxTheta
  BY <1>1, <1>9
<1> QED BY <1>2, <1>5, <1>9, <1>10

(* Element n of an ascending array is element n of the set it holds.       *)
LEMMA AscendingIs ==
  ASSUME NEW u \in Seq(Nat), Ascends(u)
  PROVE  /\ ToSet(u) \in SUBSET Nat /\ IsFiniteSet(ToSet(u))
         /\ Cardinality(ToSet(u)) = Len(u)
         /\ \A n \in 1 .. Len(u) : u[n] = Nth(ToSet(u), n - 1)
<1> DEFINE S == ToSet(u)
           N == Len(u)
           Part(n) == {u[i] : i \in 1 .. n}
<1>1. N \in Nat /\ DOMAIN u = 1 .. N /\ \A i \in 1 .. N : u[i] \in Nat
  BY ArrayParts
<1>2. S = {u[i] : i \in 1 .. N}
  BY <1>1 DEF ToSet
<1> HIDE DEF N, S
<1>3. ASSUME NEW n \in 0 .. N PROVE IsFiniteSet(Part(n)) /\ Cardinality(Part(n)) = n
  <2> DEFINE D == 1 .. n
             f == [i \in D |-> u[i]]
             P == Part(n)
  <2>1. IsFiniteSet(D) /\ Cardinality(D) = n
    <3>1. IsFiniteSet(1 .. n) /\ Cardinality(1 .. n) = IF 1 > n THEN 0 ELSE n - 1 + 1
      BY FS_Interval
    <3> QED BY <3>1
  <2>2. \A i, j \in D : u[i] = u[j] => i = j
    <3> SUFFICES ASSUME NEW i \in D, NEW j \in D, u[i] = u[j], i # j PROVE FALSE
      OBVIOUS
    <3>1. i \in 1 .. N /\ j \in 1 .. N /\ (i < j \/ j < i)
      BY <1>1
    <3>2. u[i] < u[j] \/ u[j] < u[i]
      BY <1>1, <3>1 DEF Ascends
    <3>3. u[i] \in Nat
      BY <1>1, <3>1
    <3> QED BY <3>2, <3>3
  <2>3. f \in [D -> P] /\ \A y \in P : \E i \in D : f[i] = y
    OBVIOUS
  <2>4. f \in Bijection(D, P)
    <3>1. \A i, j \in D : f[i] = f[j] => i = j
      BY <2>2
    <3> HIDE DEF f, D, P
    <3> QED BY <2>3, <3>1 DEF Bijection, Injection, Surjection, IsInjective
  <2> HIDE DEF f, D, P
  <2>5. IsFiniteSet(P) /\ Cardinality(P) = Cardinality(D)
    BY <2>1, <2>4, FS_Bijection DEF ExistsBijection
  <2> QED BY <2>1, <2>5 DEF P
<1>4. S \in SUBSET Nat /\ IsFiniteSet(S) /\ Cardinality(S) = N
  <2>1. N \in 0 .. N /\ S = Part(N)
    BY <1>1, <1>2
  <2>2. IsFiniteSet(Part(N)) /\ Cardinality(Part(N)) = N
    BY <1>3, <2>1
  <2> QED BY <1>1, <1>2, <2>1, <2>2
<1>5. ASSUME NEW n \in 1 .. N PROVE u[n] = Nth(S, n - 1)
  <2>1. Below(S, u[n]) = Part(n - 1)
    <3>1. ASSUME NEW i \in 1 .. N PROVE u[i] < u[n] <=> i \in 1 .. n - 1
      <4>1. i < n \/ i = n \/ n < i
        OBVIOUS
      <4>2. u[i] \in Nat /\ u[n] \in Nat
        BY <1>1
      <4>3. (i < n => u[i] < u[n]) /\ (n < i => u[n] < u[i])
        BY <1>1 DEF Ascends
      <4>4. i < n <=> i \in 1 .. n - 1
        BY <1>1
      <4> QED BY <4>1, <4>2, <4>3, <4>4
    <3>2. \A i \in 1 .. n - 1 : i \in 1 .. N
      BY <1>1
    <3> QED BY <1>2, <3>1, <3>2 DEF Below
  <2>2. n - 1 \in 0 .. N
    BY <1>1
  <2>3. Cardinality(Below(S, u[n])) = n - 1
    BY <1>3, <2>1, <2>2
  <2>4. u[n] \in S /\ S \in SUBSET Int
    BY <1>1, <1>2
  <2>5. Nth(S, Cardinality(Below(S, u[n]))) = u[n]
    BY <1>4, <2>4, NthOf
  <2> QED BY <2>3, <2>5
<1> QED BY <1>4, <1>5 DEF S, N

(* The first elements of an ascending array.                               *)
LEMMA PrefixIs ==
  ASSUME NEW u \in Seq(Nat), Ascends(u), NEW r \in 0 .. Len(u)
  PROVE  /\ SubSeq(u, 1, r) \in Seq(Nat) /\ Len(SubSeq(u, 1, r)) = r
         /\ Ascends(SubSeq(u, 1, r))
         /\ r = Len(u) => SubSeq(u, 1, r) = u
         /\ r < Len(u) => ToSet(SubSeq(u, 1, r)) = Below(ToSet(u), u[r + 1])
<1> DEFINE v == SubSeq(u, 1, r)
           N == Len(u)
<1>1. N \in Nat /\ DOMAIN u = 1 .. N /\ \A i \in 1 .. N : u[i] \in Nat
  BY ArrayParts
<1>2. v \in Seq(Nat) /\ Len(v) = r /\ \A i \in 1 .. r : v[i] = u[i]
  OBVIOUS
<1>3. r = N => v = u
  <2>1. v = [i \in 1 .. r |-> v[i]] /\ u = [i \in 1 .. N |-> u[i]]
    BY <1>1, <1>2
  <2> HIDE DEF v, N
  <2> QED BY <1>2, <2>1
<1> HIDE DEF v, N
<1>4. DOMAIN v = 1 .. r /\ \A i \in 1 .. r : i \in 1 .. N
  BY <1>1, <1>2 DEF N
<1>5. Ascends(v)
  BY <1>1, <1>2, <1>4 DEF Ascends
<1>6. ASSUME r < N PROVE ToSet(v) = Below(ToSet(u), u[r + 1])
  <2>1. r + 1 \in 1 .. N
    BY <1>1, <1>6 DEF N
  <2>2. ASSUME NEW i \in 1 .. N PROVE u[i] < u[r + 1] <=> i \in 1 .. r
    <3>1. i < r + 1 \/ i = r + 1 \/ r + 1 < i
      OBVIOUS
    <3>2. u[i] \in Nat /\ u[r + 1] \in Nat
      BY <1>1, <2>1
    <3>3. (i < r + 1 => u[i] < u[r + 1]) /\ (r + 1 < i => u[r + 1] < u[i])
      BY <1>1, <2>1 DEF Ascends
    <3>4. i < r + 1 <=> i \in 1 .. r
      BY <1>1
    <3> QED BY <3>1, <3>2, <3>3, <3>4
  <2>3. ToSet(v) = {u[i] : i \in 1 .. r}
    BY <1>2, <1>4 DEF ToSet
  <2>4. ToSet(u) = {u[i] : i \in 1 .. N}
    BY <1>1 DEF ToSet
  <2> QED BY <1>4, <2>2, <2>3, <2>4 DEF Below
<1> QED BY <1>2, <1>3, <1>5, <1>6 DEF v, N

-----------------------------------------------------------------------------
(* Buffers.                                                                *)

(* The written part of b is the ascending array of S.                      *)
Holding(b, S) ==
  \E w \in Seq(Nat), cap \in Nat :
    Len(w) <= cap /\ Ascends(w) /\ b = Buffer(w, cap) /\ S = ToSet(w)

LEMMA BufferIs ==
  ASSUME NEW w \in Seq(Nat), NEW cap \in Nat, Len(w) <= cap
  PROVE  /\ Buffer(w, cap).data \in Seq(Nat) /\ Len(Buffer(w, cap).data) = cap
         /\ Buffer(w, cap).size = Len(w)
         /\ \A i \in 1 .. Len(w) : Buffer(w, cap).data[i] = w[i]
         /\ \A r \in 0 .. Len(w) : SubSeq(Buffer(w, cap).data, 1, r) = SubSeq(w, 1, r)
         /\ Written(Buffer(w, cap)) = w
<1> DEFINE N == Len(w)
           d == [i \in 1 .. cap |-> IF i <= N THEN w[i] ELSE Unwritten]
           B == Buffer(w, cap)
<1>1. N \in Nat /\ DOMAIN w = 1 .. N /\ \A i \in 1 .. N : w[i] \in Nat
  BY ArrayParts
<1>2. B = [data |-> d, size |-> N]
  BY DEF Buffer
<1>3. B.data = d /\ B.size = N
  BY <1>2
<1> HIDE DEF N
<1>4. d \in [1 .. cap -> Nat]
  BY <1>1 DEF Unwritten
<1>5. d \in Seq(Nat) /\ Len(d) = cap
  BY <1>4
<1>6. \A i \in 1 .. N : d[i] = w[i]
  BY <1>1 DEF N
<1> HIDE DEF d, B
<1>7. ASSUME NEW r \in 0 .. N PROVE SubSeq(d, 1, r) = SubSeq(w, 1, r)
  <2>1. \A i \in 1 .. r : i \in 1 .. N /\ i \in 1 .. cap
    BY <1>1 DEF N
  <2>2. SubSeq(d, 1, r) = [i \in 1 .. r |-> d[i]]
    BY <1>1, <1>5, <2>1
  <2>3. SubSeq(w, 1, r) = [i \in 1 .. r |-> w[i]]
    BY <1>1, <2>1 DEF N
  <2> QED BY <1>6, <2>1, <2>2, <2>3
<1>8. SubSeq(w, 1, N) = w
  <2>1. SubSeq(w, 1, N) = [i \in 1 .. N |-> w[i]]
    BY <1>1 DEF N
  <2>2. w = [i \in 1 .. N |-> w[i]]
    BY <1>1
  <2> QED BY <2>1, <2>2
<1>9. Written(B) = SubSeq(d, 1, N)
  BY <1>3 DEF Written
<1>10. N \in 0 .. N
  BY <1>1
<1>11. Written(B) = w
  BY <1>7, <1>8, <1>9, <1>10
<1> QED BY <1>3, <1>5, <1>6, <1>7, <1>11 DEF N, B

(* What a buffer holds can be read from it.                                *)
LEMMA WrittenIs ==
  ASSUME NEW b, NEW S, Holding(b, S)
  PROVE  /\ Written(b) \in Seq(Nat) /\ Ascends(Written(b)) /\ ToSet(Written(b)) = S
         /\ b.size = Len(Written(b))
<1>1. PICK w \in Seq(Nat), cap \in Nat :
        Len(w) <= cap /\ Ascends(w) /\ b = Buffer(w, cap) /\ S = ToSet(w)
  BY DEF Holding
<1> QED BY <1>1, BufferIs

(* A buffer that is full holds its elements.                               *)
LEMMA FullIs ==
  ASSUME NEW w \in Seq(Nat), Ascends(w)
  PROVE  Holding(Buffer(w, Len(w)), ToSet(w))
<1>1. Len(w) \in Nat
  OBVIOUS
<1> QED BY <1>1 DEF Holding

(* An array is empty if and only if the set is.                            *)
LEMMA EmptyIs ==
  ASSUME NEW w \in Seq(Nat)
  PROVE  w = <<>> <=> ToSet(w) = {}
<1>1. Len(w) \in Nat /\ DOMAIN w = 1 .. Len(w)
  BY ArrayParts
<1>2. ToSet(w) = {w[i] : i \in 1 .. Len(w)}
  BY <1>1 DEF ToSet
<1>3. w = <<>> <=> Len(w) = 0
  OBVIOUS
<1>4. Len(w) = 0 => ToSet(w) = {}
  BY <1>2
<1>5. Len(w) # 0 => 1 \in 1 .. Len(w)
  BY <1>1
<1> QED BY <1>2, <1>3, <1>4, <1>5

(* select                                                                  *)
LEMMA SelectIs ==
  ASSUME NEW u \in Seq(Nat), Ascends(u), NEW chosen
  PROVE  Holding(Select(u, chosen), ToSet(u) \cap chosen)
<1> DEFINE P == {i \in DOMAIN u : u[i] \in chosen}
           w == Compacted(u, P)
<1>1. Len(u) \in Nat /\ DOMAIN u = 1 .. Len(u) /\ \A i \in 1 .. Len(u) : u[i] \in Nat
  BY ArrayParts
<1>2. P \in SUBSET DOMAIN u
  OBVIOUS
<1>3. {u[i] : i \in P} = ToSet(u) \cap chosen
  BY DEF ToSet
<1>4. Select(u, chosen) = Buffer(w, Len(u))
  BY DEF Select
<1> HIDE DEF P
<1>5. /\ w \in Seq(Nat) /\ Len(w) = Cardinality(P)
      /\ Cardinality(P) \in Nat /\ Cardinality(P) <= Len(u)
      /\ ToSet(w) = {u[i] : i \in P}
      /\ \A m, n \in 1 .. Cardinality(P) :
           m < n => \E i, j \in P : i < j /\ w[m] = u[i] /\ w[n] = u[j]
  BY <1>2, CompactedIs
<1> HIDE DEF w
<1>6. Ascends(w)
  <2> SUFFICES ASSUME NEW m \in 1 .. Cardinality(P), NEW n \in 1 .. Cardinality(P), m < n
               PROVE  w[m] < w[n]
    <3>1. DOMAIN w = 1 .. Cardinality(P)
      BY <1>5
    <3> QED BY <3>1 DEF Ascends
  <2>1. PICK i \in P, j \in P : i < j /\ w[m] = u[i] /\ w[n] = u[j]
    BY <1>5
  <2>2. u[i] < u[j]
    BY <1>2, <2>1 DEF Ascends
  <2> QED BY <2>1, <2>2
<1> QED BY <1>1, <1>3, <1>4, <1>5, <1>6 DEF Holding

(* unique_sorted                                                           *)
LEMMA UniqueSortedIs ==
  ASSUME NEW s \in Seq(Nat), Sorted(s)
  PROVE  Holding(UniqueSorted(s), ToSet(s))
<1>1. Len(s) \in Nat
  OBVIOUS
<1>2. /\ RunHeads(s) \in Seq(Nat) /\ Len(RunHeads(s)) <= Len(s)
      /\ Ascends(RunHeads(s)) /\ ToSet(RunHeads(s)) = ToSet(s)
  BY RunHeadsIs
<1> QED BY <1>1, <1>2 DEF UniqueSorted, Holding

(* sort_unique of hashes below bound.                                      *)
LEMMA SortUniqueIs ==
  ASSUME NEW s \in Seq(Nat), NEW bound \in 1 .. MaxTheta, \A h \in ToSet(s) : h < bound
  PROVE  Holding(SortUnique(s, bound), ToSet(s))
<1> DEFINE bits == BitWidth(bound)
           R == RadixSorted(s, bits)
<1>1. /\ Len(s) \in Nat /\ DOMAIN s = 1 .. Len(s) /\ \A i \in 1 .. Len(s) : s[i] \in Nat
      /\ bound \in Nat
  BY ArrayParts, PolicyAssumption
<1>2. 2 ^ bits \in Nat /\ bound < 2 ^ bits
  BY BitWidthIs
<1>3. \A i \in DOMAIN s : s[i] < bound /\ s[i] \in Nat
  BY <1>1 DEF ToSet
<1> HIDE DEF bits
<1>4. \A i \in DOMAIN s : s[i] < 2 ^ bits
  <2> DEFINE m == 2 ^ bits
  <2>1. m \in Nat /\ bound < m
    BY <1>2
  <2> HIDE DEF m
  <2>2. \A i \in DOMAIN s : s[i] < m
    BY <1>1, <1>3, <2>1
  <2> QED BY <2>2 DEF m
<1>5. R \in Seq(Nat) /\ Sorted(R) /\ ToSet(R) = ToSet(s)
  BY <1>2, <1>4, RadixSortedIs
<1>6. Holding(UniqueSorted(R), ToSet(s))
  <2> HIDE DEF R
  <2> QED BY <1>5, UniqueSortedIs
<1> QED BY <1>6 DEF SortUnique, bits

(* merge_unique                                                            *)
LEMMA MergeUniqueIs ==
  ASSUME NEW a \in Seq(Nat), NEW b \in Seq(Nat), Ascends(a), Ascends(b)
  PROVE  Holding(MergeUnique(a, b), ToSet(a) \cup ToSet(b))
<1>1. CASE a = <<>>
  <2>1. MergeUnique(a, b) = Buffer(b, Len(b)) /\ ToSet(a) = {}
    BY <1>1, EmptyIs DEF MergeUnique
  <2> QED BY <2>1, FullIs
<1>2. CASE a # <<>> /\ b = <<>>
  <2>1. MergeUnique(a, b) = Buffer(a, Len(a)) /\ ToSet(b) = {}
    BY <1>2, EmptyIs DEF MergeUnique
  <2> QED BY <2>1, FullIs
<1>3. CASE a # <<>> /\ b # <<>>
  <2> DEFINE M == MergedKeys(a, b)
  <2>1. MergeUnique(a, b) = UniqueSorted(M)
    BY <1>3 DEF MergeUnique
  <2>2. Sorted(a) /\ Sorted(b)
    <3>1. DOMAIN a = 1 .. Len(a) /\ DOMAIN b = 1 .. Len(b)
          /\ (\A i \in 1 .. Len(a) : a[i] \in Nat) /\ (\A i \in 1 .. Len(b) : b[i] \in Nat)
      BY ArrayParts
    <3>2. Sorted(a)
      BY <3>1 DEF Sorted, Ascends
    <3>3. Sorted(b)
      BY <3>1 DEF Sorted, Ascends
    <3> QED BY <3>2, <3>3
  <2>3. M \in Seq(Nat) /\ Sorted(M) /\ ToSet(M) = ToSet(a) \cup ToSet(b)
    BY <2>2, MergedKeysIs
  <2> HIDE DEF M
  <2> QED BY <2>1, <2>3, UniqueSortedIs
<1> QED BY <1>1, <1>2, <1>3

-----------------------------------------------------------------------------
(* The operations on one sketch.                                           *)

(* The array of a sketch whenever an operation starts.                     *)
Lawful(a, k) ==
  /\ a \in [hashes : Seq(Nat), theta : 1 .. MaxTheta, is_empty : BOOLEAN]
  /\ Ascends(a.hashes)
  /\ \A h \in ToSet(a.hashes) : 0 < h /\ h < a.theta
  /\ Len(a.hashes) <= k
  /\ a.is_empty => a.hashes = <<>>

AsSet(a) == [a EXCEPT !.hashes = ToSet(@)]

LEMMA AsSetIs ==
  ASSUME NEW s, NEW t, NEW e
  PROVE  AsSet([hashes |-> s, theta |-> t, is_empty |-> e]) =
           [hashes |-> ToSet(s), theta |-> t, is_empty |-> e]
BY DEF AsSet

(* The set operations of ThetaSketch are those of ThetaPolicy.             *)
LEMMA SetsInstalledIs ==
  ASSUME NEW S, NEW k, NEW t, NEW e, NEW i
  PROVE  Sets!Installed(S, k, t, e, i) = Installed(S, k, t, e, i)
<1>1. \A x : Sets!Below(S, x) = Below(S, x)
  BY DEF Sets!Below, Below
<1>2. Sets!Nth(S, k) = Nth(S, k)
  BY DEF Sets!Nth, Nth, Sets!Below, Below, Sets!Cardinality, Cardinality
<1>3. Sets!Cardinality(S) = Cardinality(S)
  BY DEF Sets!Cardinality, Cardinality
<1>4. Sets!Retained(S, k) = Retained(S, k)
  BY <1>1, <1>2, <1>3 DEF Sets!Retained, Retained
<1>5. Sets!ThetaAfter(S, k, t) = ThetaAfter(S, k, t)
  BY <1>2, <1>3 DEF Sets!ThetaAfter, ThetaAfter
<1> QED BY <1>4, <1>5 DEF Sets!Installed, Installed

(* What is known of the parts of a lawful sketch.                          *)
LEMMA LawfulParts ==
  ASSUME NEW a, NEW k, Lawful(a, k)
  PROVE  /\ a = [hashes |-> a.hashes, theta |-> a.theta, is_empty |-> a.is_empty]
         /\ AsSet(a) = [hashes |-> ToSet(a.hashes), theta |-> a.theta,
                        is_empty |-> a.is_empty]
         /\ a.hashes \in Seq(Nat) /\ Ascends(a.hashes)
         /\ a.theta \in 1 .. MaxTheta /\ a.is_empty \in BOOLEAN
         /\ ToSet(a.hashes) \in SUBSET Hashes
         /\ \A h \in ToSet(a.hashes) : 0 < h /\ h < a.theta
         /\ a.is_empty => a.hashes = <<>>
<1>1. /\ a \in [hashes : Seq(Nat), theta : 1 .. MaxTheta, is_empty : BOOLEAN]
      /\ Ascends(a.hashes) /\ Len(a.hashes) <= k
      /\ \A h \in ToSet(a.hashes) : 0 < h /\ h < a.theta
      /\ a.is_empty => a.hashes = <<>>
  BY DEF Lawful
<1>2. a.hashes \in Seq(Nat) /\ a.theta \in 1 .. MaxTheta /\ a.is_empty \in BOOLEAN
  BY <1>1
<1>3. ToSet(a.hashes) \in SUBSET Nat
  BY <1>1, <1>2, AscendingIs
<1>4. ToSet(a.hashes) \in SUBSET Hashes
  BY <1>1, <1>2, <1>3, PolicyAssumption DEF Hashes
<1>5. a = [hashes |-> a.hashes, theta |-> a.theta, is_empty |-> a.is_empty]
  BY <1>1
<1>6. AsSet(a) = [hashes |-> ToSet(a.hashes), theta |-> a.theta, is_empty |-> a.is_empty]
  BY <1>1 DEF AsSet
<1> QED BY <1>1, <1>2, <1>4, <1>5, <1>6

(* install of a buffer is the installation of the set it holds.            *)
LEMMA InstallIs ==
  ASSUME NEW b, NEW S, Holding(b, S), NEW k \in Nat,
         NEW theta \in 1 .. MaxTheta, \A h \in S : 0 < h /\ h < theta,
         NEW ini \in 1 .. MaxTheta, NEW empty \in BOOLEAN, empty => S = {}
  PROVE  /\ Lawful(Install(b, theta, empty, k, ini), k)
         /\ AsSet(Install(b, theta, empty, k, ini)) = Installed(S, k, theta, empty, ini)
<1>1. PICK w \in Seq(Nat), cap \in Nat :
        Len(w) <= cap /\ Ascends(w) /\ b = Buffer(w, cap) /\ S = ToSet(w)
  BY DEF Holding
<1> DEFINE N == Len(w)
           r == Lesser(N, k)
           v == SubSeq(w, 1, r)
           t == IF N > k THEN w[k + 1] ELSE theta
           a == [hashes |-> v, theta |-> IF empty THEN ini ELSE t, is_empty |-> empty]
<1>2. N \in Nat /\ DOMAIN w = 1 .. N /\ \A i \in 1 .. N : w[i] \in Nat /\ w[i] \in S
  BY <1>1, ArrayParts DEF ToSet
<1>3. /\ b.data \in Seq(Nat) /\ Len(b.data) = cap /\ b.size = N
      /\ \A i \in 1 .. N : b.data[i] = w[i]
      /\ \A n \in 0 .. N : SubSeq(b.data, 1, n) = SubSeq(w, 1, n)
  BY <1>1, BufferIs
<1>4. /\ IsFiniteSet(S) /\ Cardinality(S) = N
      /\ \A n \in 1 .. N : w[n] = Nth(S, n - 1)
  BY <1>1, AscendingIs
<1> HIDE DEF N
<1>5. r \in 0 .. N /\ r <= k /\ (N > k => r = k) /\ (~ (N > k) => r = N)
  BY <1>2 DEF Lesser
<1> HIDE DEF r
<1>6. /\ v \in Seq(Nat) /\ Len(v) = r /\ Ascends(v) /\ (r = N => v = w)
      /\ r < N => ToSet(v) = Below(S, w[r + 1])
  BY <1>1, <1>5, PrefixIs DEF N
<1>7. Install(b, theta, empty, k, ini) = a
  <2>1. (IF cap = r THEN b.data ELSE SubSeq(b.data, 1, r)) = v
    <3>1. CASE cap = r
      <4>1. SubSeq(b.data, 1, r) = b.data
        <5>1. SubSeq(b.data, 1, r) = [i \in 1 .. r |-> b.data[i]]
          BY <1>3, <1>5, <3>1
        <5>2. b.data = [i \in 1 .. r |-> b.data[i]]
          BY <1>3, <3>1
        <5> QED BY <5>1, <5>2
      <4> QED BY <1>3, <1>5, <3>1, <4>1
    <3>2. CASE cap # r
      BY <1>3, <1>5, <3>2
    <3> QED BY <3>1, <3>2
  <2>2. (IF b.size > k THEN b.data[k + 1] ELSE theta) = t
    <3>1. N > k => k + 1 \in 1 .. N
      BY <1>2
    <3> QED BY <1>3, <3>1
  <2>3. Lesser(b.size, k) = r
    BY <1>3 DEF r
  <2> HIDE DEF v, t
  <2> QED BY <1>3, <2>1, <2>2, <2>3 DEF Install
<1>8. t \in 1 .. MaxTheta /\ \A h \in ToSet(v) : 0 < h /\ h < t
  <2>1. CASE N > k
    <3>1. k + 1 \in 1 .. N /\ r < N /\ r = k
      BY <1>2, <1>5, <2>1
    <3>2. t = w[k + 1] /\ t \in Nat /\ 0 < t /\ t < theta /\ ToSet(v) = Below(S, t)
      BY <1>2, <1>6, <2>1, <3>1
    <3>3. t \in 1 .. MaxTheta
      BY <3>2, PolicyAssumption
    <3> HIDE DEF v, t
    <3> QED BY <3>2, <3>3 DEF Below
  <2>2. CASE ~ (N > k)
    BY <1>1, <1>5, <1>6, <2>2
  <2> QED BY <2>1, <2>2
<1>9. ToSet(v) = Retained(S, k) /\ t = ThetaAfter(S, k, theta)
  <2>1. CASE N > k
    <3>1. k + 1 \in 1 .. N /\ r < N /\ r = k /\ (k + 1) - 1 = k
      BY <1>2, <1>5, <2>1
    <3>2. t = w[k + 1] /\ ToSet(v) = Below(S, w[k + 1]) /\ w[k + 1] = Nth(S, k)
      BY <1>4, <1>6, <2>1, <3>1
    <3> QED BY <1>4, <2>1, <3>2 DEF Retained, ThetaAfter
  <2>2. CASE ~ (N > k)
    BY <1>1, <1>4, <1>5, <1>6, <2>2 DEF Retained, ThetaAfter
  <2> QED BY <2>1, <2>2
<1>10. empty => v = <<>>
  <2>1. empty => w = <<>>
    BY <1>1, EmptyIs
  <2>2. w = <<>> => v = <<>>
    <3> SUFFICES ASSUME w = <<>> PROVE v = <<>>
      OBVIOUS
    <3>1. N = 0
      BY DEF N
    <3>2. r = N
      BY <1>5, <3>1
    <3> QED BY <1>6, <3>2
  <2> QED BY <2>1, <2>2
<1>11. empty => ToSet(v) = {}
  BY <1>6, <1>10, EmptyIs
<1> HIDE DEF v, t
<1>12. Lawful(a, k)
  <2>1. a \in [hashes : Seq(Nat), theta : 1 .. MaxTheta, is_empty : BOOLEAN]
    BY <1>6, <1>8
  <2>2. a.hashes = v /\ a.theta = (IF empty THEN ini ELSE t) /\ a.is_empty = empty
    OBVIOUS
  <2>3. \A h \in ToSet(v) : 0 < h /\ h < a.theta
    BY <1>8, <1>11, <2>2
  <2> HIDE DEF a
  <2> QED BY <1>5, <1>6, <1>10, <2>1, <2>2, <2>3 DEF Lawful
<1>13. AsSet(a) = Installed(S, k, theta, empty, ini)
  <2>1. AsSet(a) = [hashes |-> ToSet(v), theta |-> IF empty THEN ini ELSE t, is_empty |-> empty]
    BY DEF AsSet
  <2> HIDE DEF a
  <2> QED BY <1>9, <2>1 DEF Installed
<1> QED BY <1>7, <1>12, <1>13

(* update: a chunk whose survivors are C.                                  *)
LEMMA FoldedIs ==
  ASSUME NEW k \in Nat, NEW a, Lawful(a, k), NEW C \in SUBSET Hashes,
         NEW s \in Seq(Nat), ToSet(s) = Screened(C, a.theta)
  PROVE  /\ Lawful(Folded(a, s, k), k)
         /\ AsSet(Folded(a, s, k)) = Sets!AbsorbOf(AsSet(a), C, k)
<1> DEFINE S == Screened(C, a.theta)
           A == ToSet(a.hashes)
           incoming == SortUnique(s, a.theta)
           combined == IF a.hashes = <<>> THEN incoming
                       ELSE MergeUnique(a.hashes, Written(incoming))
<1>1. /\ a = [hashes |-> a.hashes, theta |-> a.theta, is_empty |-> a.is_empty]
      /\ AsSet(a) = [hashes |-> A, theta |-> a.theta, is_empty |-> a.is_empty]
      /\ a.hashes \in Seq(Nat) /\ Ascends(a.hashes)
      /\ a.theta \in 1 .. MaxTheta /\ A \in SUBSET Hashes
      /\ \A h \in A : 0 < h /\ h < a.theta
  BY LawfulParts
<1>2. \A h \in S : 0 < h /\ h < a.theta
  BY <1>1, PolicyAssumption DEF Screened, ScreenHash, Hashes
<1>3. Sets!AbsorbOf(AsSet(a), C, k) = Installed(A \cup S, k, a.theta, FALSE, a.theta)
  <2>1. AsSet(a).hashes = A /\ AsSet(a).theta = a.theta
    BY <1>1
  <2>2. Sets!Screened(C, a.theta) = S
    BY DEF Sets!Screened, Sets!ScreenHash, Screened, ScreenHash
  <2> HIDE DEF A, S
  <2>3. Sets!AbsorbOf(AsSet(a), C, k) = Sets!Installed(A \cup S, k, a.theta, FALSE, a.theta)
    BY <2>1, <2>2 DEF Sets!AbsorbOf
  <2> QED BY <2>3, SetsInstalledIs
<1>4. CASE s = <<>>
  <2>1. S = {}
    BY <1>4, EmptyIs
  <2>2. Folded(a, s, k) = [a EXCEPT !.is_empty = FALSE]
    BY <1>4 DEF Folded
  <2> DEFINE f == [hashes |-> a.hashes, theta |-> a.theta, is_empty |-> FALSE]
  <2>3. Folded(a, s, k) = f
    BY <1>1, <2>2
  <2>4. f.hashes = a.hashes /\ f.theta = a.theta /\ f.is_empty = FALSE
        /\ f \in [hashes : Seq(Nat), theta : 1 .. MaxTheta, is_empty : BOOLEAN]
    BY <1>1
  <2>5. AsSet(f) = [hashes |-> A, theta |-> a.theta, is_empty |-> FALSE]
    BY AsSetIs
  <2>6. ~ (Cardinality(A) > k)
    <3>1. Cardinality(A) = Len(a.hashes) /\ Len(a.hashes) <= k /\ Len(a.hashes) \in Nat
      BY <1>1, AscendingIs DEF Lawful
    <3> QED BY <3>1
  <2>7. Installed(A \cup S, k, a.theta, FALSE, a.theta) =
          [hashes |-> A, theta |-> a.theta, is_empty |-> FALSE]
    <3>1. A \cup S = A
      BY <2>1
    <3> HIDE DEF A, S
    <3> QED BY <2>6, <3>1 DEF Installed, Retained, ThetaAfter
  <2> HIDE DEF f
  <2>8. Lawful(f, k)
    BY <1>1, <2>4 DEF Lawful
  <2> QED BY <1>3, <2>3, <2>5, <2>7, <2>8
<1>5. CASE s # <<>>
  <2>1. Folded(a, s, k) = Install(combined, a.theta, FALSE, k, a.theta)
    BY <1>5 DEF Folded
  <2>2. Holding(incoming, S)
    BY <1>1, <1>2, SortUniqueIs
  <2>3. Holding(combined, A \cup S)
    <3> HIDE DEF incoming
    <3>1. CASE a.hashes = <<>>
      <4>1. A = {}
        BY <1>1, <3>1, EmptyIs
      <4> HIDE DEF A, S
      <4>2. A \cup S = S
        BY <4>1
      <4> QED BY <2>2, <3>1, <4>2
    <3>2. CASE a.hashes # <<>>
      <4>1. /\ Written(incoming) \in Seq(Nat) /\ Ascends(Written(incoming))
            /\ ToSet(Written(incoming)) = S
        BY <2>2, WrittenIs
      <4>2. Holding(MergeUnique(a.hashes, Written(incoming)),
                    A \cup ToSet(Written(incoming)))
        BY <1>1, <4>1, MergeUniqueIs
      <4> QED BY <3>2, <4>1, <4>2
    <3> QED BY <3>1, <3>2
  <2>4. \A h \in A \cup S : 0 < h /\ h < a.theta
    BY <1>1, <1>2
  <2> DEFINE th == a.theta
             U == A \cup S
  <2>5. Holding(combined, U) /\ th \in 1 .. MaxTheta /\ \A h \in U : 0 < h /\ h < th
    BY <1>1, <2>3, <2>4
  <2>6. Folded(a, s, k) = Install(combined, th, FALSE, k, th)
        /\ Sets!AbsorbOf(AsSet(a), C, k) = Installed(U, k, th, FALSE, th)
    BY <1>3, <2>1
  <2> HIDE DEF combined, A, S, th, U
  <2>7. /\ Lawful(Install(combined, th, FALSE, k, th), k)
        /\ AsSet(Install(combined, th, FALSE, k, th)) = Installed(U, k, th, FALSE, th)
    BY <2>5, InstallIs, ZenonT(60)
  <2> QED BY <2>6, <2>7
<1> QED BY <1>4, <1>5

(* merge                                                                   *)
LEMMA MergedIs ==
  ASSUME NEW k \in Nat, NEW a, Lawful(a, k), NEW l \in Nat, NEW b, Lawful(b, l)
  PROVE  /\ Lawful(Merged(a, b, k), k)
         /\ AsSet(Merged(a, b, k)) = Sets!MergeOf(AsSet(a), AsSet(b), k)
<1> DEFINE A == ToSet(a.hashes)
           B == ToSet(b.hashes)
           theta == Lesser(a.theta, Sets!EffectiveTheta(b))
           U == {h \in A \cup B : ScreenHash(theta, h)}
           combined == MergeUnique(a.hashes, b.hashes)
           screened == Select(Written(combined), {h \in Hashes : ScreenHash(theta, h)})
<1>1. /\ AsSet(a) = [hashes |-> A, theta |-> a.theta, is_empty |-> a.is_empty]
      /\ a.hashes \in Seq(Nat) /\ Ascends(a.hashes)
      /\ a.theta \in 1 .. MaxTheta /\ A \in SUBSET Hashes
  BY LawfulParts
<1>2. /\ AsSet(b) = [hashes |-> B, theta |-> b.theta, is_empty |-> b.is_empty]
      /\ b.hashes \in Seq(Nat) /\ Ascends(b.hashes)
      /\ b.theta \in 1 .. MaxTheta /\ B \in SUBSET Hashes
  BY LawfulParts
<1>3. Merged(a, b, k) = Install(screened, theta, FALSE, k, theta)
  BY DEF Merged
<1> HIDE DEF A, B
<1>4. theta \in 1 .. MaxTheta
  BY <1>1, <1>2, PolicyAssumption DEF Lesser, Sets!EffectiveTheta
<1>5. Sets!MergeOf(AsSet(a), AsSet(b), k) = Installed(U, k, theta, FALSE, theta)
  <2>1. /\ AsSet(a).hashes = A /\ AsSet(a).theta = a.theta
        /\ AsSet(b).hashes = B /\ AsSet(b).theta = b.theta /\ AsSet(b).is_empty = b.is_empty
    BY <1>1, <1>2
  <2>2. Sets!EffectiveTheta(AsSet(b)) = Sets!EffectiveTheta(b)
    BY <2>1 DEF Sets!EffectiveTheta
  <2>3. Sets!Lesser(a.theta, Sets!EffectiveTheta(b)) = theta
    BY DEF Sets!Lesser, Lesser
  <2>4. Sets!Screened(A \cup B, theta) = U
    BY DEF Sets!Screened, Sets!ScreenHash, ScreenHash
  <2> HIDE DEF U, theta
  <2>5. Sets!MergeOf(AsSet(a), AsSet(b), k) = Sets!Installed(U, k, theta, FALSE, theta)
    BY <2>1, <2>2, <2>3, <2>4 DEF Sets!MergeOf
  <2> QED BY <2>5, SetsInstalledIs
<1> HIDE DEF theta
<1>6. Holding(screened, U)
  <2>1. Holding(combined, A \cup B)
    BY <1>1, <1>2, MergeUniqueIs DEF A, B
  <2> HIDE DEF combined
  <2>2. /\ Written(combined) \in Seq(Nat) /\ Ascends(Written(combined))
        /\ ToSet(Written(combined)) = A \cup B
    BY <2>1, WrittenIs
  <2>3. (A \cup B) \cap {h \in Hashes : ScreenHash(theta, h)} = U
    BY <1>1, <1>2
  <2>4. Holding(screened, ToSet(Written(combined)) \cap {h \in Hashes : ScreenHash(theta, h)})
    BY <2>2, SelectIs
  <2> QED BY <2>2, <2>3, <2>4
<1>7. \A h \in U : 0 < h /\ h < theta
  <2>1. U \in SUBSET Hashes
    BY <1>1, <1>2
  <2> QED BY <2>1, PolicyAssumption DEF ScreenHash, Hashes
<1> HIDE DEF screened, U
<1>8. /\ Lawful(Install(screened, theta, FALSE, k, theta), k)
      /\ AsSet(Install(screened, theta, FALSE, k, theta)) = Installed(U, k, theta, FALSE, theta)
  <2> DEFINE e == FALSE
  <2>1. e \in BOOLEAN /\ (e => U = {})
    OBVIOUS
  <2> HIDE DEF e
  <2>2. /\ Lawful(Install(screened, theta, e, k, theta), k)
        /\ AsSet(Install(screened, theta, e, k, theta)) = Installed(U, k, theta, e, theta)
    BY <1>4, <1>6, <1>7, <2>1, InstallIs
  <2> QED BY <2>2 DEF e
<1> QED BY <1>3, <1>5, <1>8

(* intersect and a_not_b                                                   *)
LEMMA RetainedOfIs ==
  ASSUME NEW k \in Nat, NEW a, Lawful(a, k), NEW l \in Nat, NEW b, Lawful(b, l),
         NEW keep \in BOOLEAN, NEW ini \in 1 .. MaxTheta
  PROVE  /\ Lawful(RetainedOf(a, b, keep, k, ini), k)
         /\ AsSet(RetainedOf(a, b, keep, k, ini)) =
              Sets!RetainMatching(AsSet(a), AsSet(b), keep, k, ini)
<1> DEFINE A == ToSet(a.hashes)
           B == ToSet(b.hashes)
           theta == Lesser(Sets!EffectiveTheta(a), Sets!EffectiveTheta(b))
           kept == {h \in A : Matches(b.hashes, theta, keep, h)}
           result == Select(a.hashes, kept)
           gone == result.size = 0 /\ theta = MaxTheta
<1>1. /\ AsSet(a) = [hashes |-> A, theta |-> a.theta, is_empty |-> a.is_empty]
      /\ a.hashes \in Seq(Nat) /\ Ascends(a.hashes)
      /\ a.theta \in 1 .. MaxTheta /\ A \in SUBSET Hashes
  BY LawfulParts
<1>2. /\ AsSet(b) = [hashes |-> B, theta |-> b.theta, is_empty |-> b.is_empty]
      /\ b.hashes \in Seq(Nat) /\ Ascends(b.hashes)
      /\ b.theta \in 1 .. MaxTheta /\ B \in SUBSET Hashes
  BY LawfulParts
<1>3. RetainedOf(a, b, keep, k, ini) = Install(result, theta, gone, k, ini)
  BY DEF RetainedOf
<1>4. theta \in 1 .. MaxTheta
  BY <1>1, <1>2, PolicyAssumption DEF Lesser, Sets!EffectiveTheta
<1>5. kept = {h \in A : Sets!MembershipFilter(B, theta, keep, h)}
  <2>1. Sorted(b.hashes)
    <3>1. DOMAIN b.hashes = 1 .. Len(b.hashes) /\ \A i \in 1 .. Len(b.hashes) : b.hashes[i] \in Nat
      BY <1>2, ArrayParts
    <3> QED BY <1>2, <3>1, SMTT(60) DEF Sorted, Ascends
  <2>2. ASSUME NEW h \in A
        PROVE  Matches(b.hashes, theta, keep, h) <=> Sets!MembershipFilter(B, theta, keep, h)
    <3>1. h \in Nat
      BY <1>1 DEF Hashes
    <3>2. BinarySearch(b.hashes, h) \in BOOLEAN
      BY DEF BinarySearch
    <3>3. BinarySearch(b.hashes, h) <=> h \in B
      BY <1>2, <2>1, <3>1, BinarySearchIs
    <3>4. BinarySearch(b.hashes, h) = (h \in B)
      BY <3>2, <3>3
    <3> HIDE DEF B, theta
    <3> QED BY <3>4 DEF Matches, Sets!MembershipFilter, Sets!ScreenHash, ScreenHash
  <2> QED BY <2>2
<1>6. Holding(result, kept)
  <2>1. Holding(result, A \cap kept) /\ A \cap kept = kept
    BY <1>1, SelectIs
  <2> QED BY <2>1
<1>7. \A h \in kept : 0 < h /\ h < theta
  <2>1. \A h \in kept : h \in Hashes /\ ScreenHash(theta, h)
    BY <1>1 DEF Matches
  <2> QED BY <1>4, <2>1, PolicyAssumption DEF ScreenHash, Hashes
<1>8. result.size = 0 <=> kept = {}
  <2> HIDE DEF result, kept
  <2>1. /\ Written(result) \in Seq(Nat) /\ ToSet(Written(result)) = kept
        /\ result.size = Len(Written(result))
    BY <1>6, WrittenIs
  <2>2. Len(Written(result)) = 0 <=> Written(result) = <<>>
    BY <2>1
  <2> QED BY <2>1, <2>2, EmptyIs
<1>9. Sets!RetainMatching(AsSet(a), AsSet(b), keep, k, ini) = Installed(kept, k, theta, gone, ini)
  <2>1. /\ AsSet(a).hashes = A /\ AsSet(a).theta = a.theta /\ AsSet(a).is_empty = a.is_empty
        /\ AsSet(b).hashes = B /\ AsSet(b).theta = b.theta /\ AsSet(b).is_empty = b.is_empty
    BY <1>1, <1>2
  <2> HIDE DEF A, B, kept
  <2>2. /\ Sets!EffectiveTheta(AsSet(a)) = Sets!EffectiveTheta(a)
        /\ Sets!EffectiveTheta(AsSet(b)) = Sets!EffectiveTheta(b)
    BY <2>1 DEF Sets!EffectiveTheta
  <2>3. Sets!Lesser(Sets!EffectiveTheta(AsSet(a)), Sets!EffectiveTheta(AsSet(b))) = theta
    BY <2>2 DEF Sets!Lesser, Lesser
  <2>4. gone = (kept = {} /\ theta = MaxTheta)
    BY <1>8
  <2> HIDE DEF theta, gone
  <2>5. Sets!RetainMatching(AsSet(a), AsSet(b), keep, k, ini) =
          Sets!Installed(kept, k, theta, kept = {} /\ theta = MaxTheta, ini)
    BY <1>5, <2>1, <2>3 DEF Sets!RetainMatching
  <2> QED BY <2>4, <2>5, SetsInstalledIs
<1>10. gone \in BOOLEAN /\ (gone => kept = {})
  BY <1>8
<1> HIDE DEF result, theta, kept, gone
<1>11. /\ Lawful(Install(result, theta, gone, k, ini), k)
       /\ AsSet(Install(result, theta, gone, k, ini)) = Installed(kept, k, theta, gone, ini)
  BY <1>4, <1>6, <1>7, <1>10, InstallIs
<1> QED BY <1>3, <1>9, <1>11

(* reset                                                                   *)
LEMMA ClearedIs ==
  ASSUME NEW k \in Nat, NEW ini \in 1 .. MaxTheta
  PROVE  /\ Lawful(Cleared(k, ini), k)
         /\ AsSet(Cleared(k, ini)) = Sets!ResetOf(k, ini)
<1>1. <<>> \in Seq(Nat) /\ Len(<<>>) = 0 /\ Ascends(<<>>) /\ ToSet(<<>>) = {}
  BY DEF Ascends, ToSet
<1>2. Holding(Buffer(<<>>, 0), {})
  BY <1>1, FullIs
<1>3. MaxTheta \in 1 .. MaxTheta
  BY PolicyAssumption
<1> DEFINE b == Buffer(<<>>, 0)
<1> HIDE DEF b
<1>4. /\ Lawful(Install(b, MaxTheta, TRUE, k, ini), k)
      /\ AsSet(Install(b, MaxTheta, TRUE, k, ini)) = Installed({}, k, MaxTheta, TRUE, ini)
  <2>1. Holding(b, {})
    BY <1>2 DEF b
  <2> DEFINE e == TRUE
             S == {}
             t == MaxTheta
  <2>2. e \in BOOLEAN /\ (e => S = {}) /\ Holding(b, S) /\ t \in 1 .. MaxTheta
        /\ \A h \in S : 0 < h /\ h < t
    BY <1>3, <2>1
  <2> HIDE DEF e, S, t
  <2>3. /\ Lawful(Install(b, t, e, k, ini), k)
        /\ AsSet(Install(b, t, e, k, ini)) = Installed(S, k, t, e, ini)
    BY <2>2, InstallIs
  <2> QED BY <2>3 DEF e, S, t
<1>5. Sets!ResetOf(k, ini) = Installed({}, k, MaxTheta, TRUE, ini)
  BY SetsInstalledIs DEF Sets!ResetOf
<1>6. Cleared(k, ini) = Install(b, MaxTheta, TRUE, k, ini)
  BY DEF Cleared, b
<1> QED BY <1>4, <1>5, <1>6

(* load_compact of a sketch's hashes.                                      *)
LEMMA LoadedIs ==
  ASSUME NEW k \in Nat, NEW a, NEW l \in Nat, Lawful(a, l),
         NEW x, x = Install(Buffer(a.hashes, Len(a.hashes)), Sets!EffectiveTheta(a),
                            a.is_empty, k, MaxTheta)
  PROVE  /\ Lawful(x, k)
         /\ AsSet(x) = Sets!Installed(AsSet(a).hashes, k, Sets!EffectiveTheta(AsSet(a)),
                                      AsSet(a).is_empty, MaxTheta)
<1> DEFINE A == ToSet(a.hashes)
           theta == Sets!EffectiveTheta(a)
           b == Buffer(a.hashes, Len(a.hashes))
           e == a.is_empty
<1>1. /\ AsSet(a) = [hashes |-> A, theta |-> a.theta, is_empty |-> a.is_empty]
      /\ a.hashes \in Seq(Nat) /\ Ascends(a.hashes)
      /\ a.theta \in 1 .. MaxTheta /\ e \in BOOLEAN
      /\ \A h \in A : 0 < h /\ h < a.theta
      /\ e => a.hashes = <<>>
  BY LawfulParts
<1>2. Holding(b, A)
  BY <1>1, FullIs
<1>3. e => A = {}
  BY <1>1, EmptyIs
<1>4. theta \in 1 .. MaxTheta /\ MaxTheta \in 1 .. MaxTheta /\ \A h \in A : 0 < h /\ h < theta
  BY <1>1, <1>3, PolicyAssumption DEF Sets!EffectiveTheta
<1>5. Sets!EffectiveTheta(AsSet(a)) = theta /\ AsSet(a).hashes = A /\ AsSet(a).is_empty = e
  BY <1>1 DEF Sets!EffectiveTheta
<1> HIDE DEF A, theta, b, e
<1>6. /\ Lawful(Install(b, theta, e, k, MaxTheta), k)
      /\ AsSet(Install(b, theta, e, k, MaxTheta)) = Installed(A, k, theta, e, MaxTheta)
  BY <1>1, <1>2, <1>3, <1>4, InstallIs
<1>7. x = Install(b, theta, e, k, MaxTheta)
  BY DEF b, theta, e
<1> QED BY <1>5, <1>6, <1>7, SetsInstalledIs

-----------------------------------------------------------------------------
(* The invariant and the refinement.                                       *)

IInv ==
  /\ array = [s \in Sketch |-> array[s]]
  /\ \A s \in Sketch : Lawful(array[s], K[s])
  /\ initial \in [Sketch -> 1 .. MaxTheta]

LEMMA ContentsAre ==
  /\ Contents = [s \in Sketch |-> AsSet(array[s])]
  /\ Contents' = [s \in Sketch |-> AsSet(array'[s])]
BY DEF Contents, AsSet

(* What guards read of a sketch is the same in both.                       *)
LEMMA SameGuards ==
  ASSUME IInv, NEW s \in Sketch
  PROVE  /\ K[s] \in Nat /\ initial[s] \in 1 .. MaxTheta
         /\ Lawful(array[s], K[s]) /\ Contents[s] = AsSet(array[s])
         /\ Contents[s].is_empty = array[s].is_empty
         /\ Contents[s].hashes = {} <=> array[s].hashes = <<>>
         /\ Sets!Cardinality(Contents[s].hashes) = Len(array[s].hashes)
<1>1. K[s] \in Nat /\ initial[s] \in 1 .. MaxTheta /\ Lawful(array[s], K[s])
  BY ArraysAssumption DEF IInv
<1>2. Contents[s] = AsSet(array[s])
  BY ContentsAre
<1> DEFINE u == array[s].hashes
<1>3. /\ AsSet(array[s]) = [hashes |-> ToSet(u), theta |-> array[s].theta,
                            is_empty |-> array[s].is_empty]
      /\ u \in Seq(Nat) /\ Ascends(u)
  BY <1>1, LawfulParts
<1>4. Contents[s].hashes = ToSet(u) /\ Contents[s].is_empty = array[s].is_empty
  BY <1>2, <1>3
<1> HIDE DEF u
<1>5. ToSet(u) = {} <=> u = <<>>
  BY <1>3, EmptyIs
<1>6. Sets!Cardinality(ToSet(u)) = Cardinality(ToSet(u))
  BY DEF Sets!Cardinality, Cardinality
<1>7. Cardinality(ToSet(u)) = Len(u)
  BY <1>3, AscendingIs
<1> QED BY <1>1, <1>2, <1>4, <1>5, <1>6, <1>7 DEF u

(* An operation that leaves one sketch lawful.                             *)
LEMMA OneArrayChanges ==
  ASSUME IInv, NEW s \in Sketch, NEW x, Lawful(x, K[s]),
         array' = [array EXCEPT ![s] = x], initial' \in [Sketch -> 1 .. MaxTheta]
  PROVE  IInv' /\ Contents' = [Contents EXCEPT ![s] = AsSet(x)]
<1>1. array = [o \in Sketch |-> array[o]]
  BY DEF IInv
<1>2. array' = [o \in Sketch |-> IF o = s THEN x ELSE array[o]]
  BY <1>1
<1>3. \A o \in Sketch : array'[o] = IF o = s THEN x ELSE array[o]
  BY <1>2
<1>4. array' = [o \in Sketch |-> array'[o]]
  BY <1>2
<1>5. \A o \in Sketch : Lawful(array'[o], K[o])
  BY <1>3 DEF IInv
<1>6. IInv'
  BY <1>4, <1>5 DEF IInv
<1>7. Contents' = [o \in Sketch |-> IF o = s THEN AsSet(x) ELSE AsSet(array[o])]
  BY <1>3, ContentsAre
<1>8. [Contents EXCEPT ![s] = AsSet(x)] =
        [o \in Sketch |-> IF o = s THEN AsSet(x) ELSE AsSet(array[o])]
  BY ContentsAre
<1> QED BY <1>6, <1>7, <1>8

LEMMA InitIs == Init => IInv /\ Sets!Init
<1> SUFFICES ASSUME Init PROVE IInv /\ Sets!Init
  OBVIOUS
<1> DEFINE F(s) == [hashes |-> <<>>, theta |-> SampledTheta[s], is_empty |-> TRUE]
<1>1. /\ array = [s \in Sketch |-> F(s)]
      /\ initial = SampledTheta
      /\ hist = [s \in Sketch |-> Sets!NoHistory(SampledTheta[s])]
  BY DEF Init
<1>2. <<>> \in Seq(Nat) /\ Len(<<>>) = 0 /\ Ascends(<<>>) /\ ToSet(<<>>) = {}
  BY DEF Ascends, ToSet
<1>3. \A s \in Sketch : AsSet(F(s)) = Sets!Fresh(SampledTheta[s])
  BY <1>2, AsSetIs DEF Sets!Fresh
<1>4. \A s \in Sketch : Lawful(F(s), K[s])
  BY <1>2, ArraysAssumption DEF Lawful
<1> HIDE DEF F
<1>5. IInv
  BY <1>1, <1>4, ArraysAssumption DEF IInv
<1>6. Contents = [s \in Sketch |-> Sets!Fresh(SampledTheta[s])]
  BY <1>1, <1>3, ContentsAre
<1> QED BY <1>1, <1>5, <1>6 DEF Sets!Init

LEMMA UpdateIs ==
  ASSUME IInv, NEW s \in Sketch, NEW C \in Chunks, Update(s, C)
  PROVE  IInv' /\ Sets!Update(s, C)
<1>1. PICK survivors \in Survivors(C, array[s].theta) :
        array' = [array EXCEPT ![s] = Folded(@, survivors, K[s])]
  BY DEF Update
<1>2. hist' = Sets!HistoryOfUpdate(s, C) /\ initial' = initial
  BY DEF Update
<1> DEFINE x == Folded(array[s], survivors, K[s])
<1>3. C \in SUBSET Hashes
  BY ArraysAssumption
<1>4. survivors \in Seq(Nat) /\ ToSet(survivors) = Screened(C, array[s].theta)
  <2> DEFINE S == Screened(C, array[s].theta)
             n == Cardinality(S) + Surplus
  <2>a. survivors \in SeqOf(S, n) /\ ToSet(survivors) = S
    BY DEF Survivors
  <2>n. n \in Nat
    BY <1>3, HashesFinite, ArraysAssumption DEF Screened
  <2> HIDE DEF S, n
  <2>1. PICK m \in 0 .. n : survivors \in [1 .. m -> S]
    <3>1. PICK T \in {[1 .. m -> S] : m \in 0 .. n} : survivors \in T
      BY <2>a DEF SeqOf
    <3> QED BY <3>1
  <2>2. S \in SUBSET Nat
    <3>1. S \in SUBSET C /\ Hashes \in SUBSET Nat
      BY PolicyAssumption DEF Screened, Hashes, S
    <3> QED BY <1>3, <3>1
  <2>3. survivors \in [1 .. m -> Nat] /\ m \in Nat
    <3>1. m \in Nat
      BY <2>n
    <3>2. \A i \in 1 .. m : survivors[i] \in Nat
      BY <2>1, <2>2
    <3> QED BY <2>1, <3>1, <3>2
  <2>4. survivors \in Seq(Nat)
    BY <2>3
  <2> QED BY <2>a, <2>4 DEF S
<1>5. Lawful(x, K[s]) /\ AsSet(x) = Sets!AbsorbOf(Contents[s], C, K[s])
  <2> DEFINE a == array[s]
             k == K[s]
  <2>1. k \in Nat /\ Lawful(a, k) /\ Contents[s] = AsSet(a)
    BY SameGuards
  <2>2. ToSet(survivors) = Screened(C, a.theta)
    BY <1>4
  <2> SUFFICES /\ Lawful(Folded(a, survivors, k), k)
               /\ AsSet(Folded(a, survivors, k)) = Sets!AbsorbOf(AsSet(a), C, k)
    BY <2>1
  <2> HIDE DEF a, k
  <2> QED BY <1>3, <1>4, <2>1, <2>2, FoldedIs
<1>6. array' = [array EXCEPT ![s] = x] /\ initial' \in [Sketch -> 1 .. MaxTheta]
  BY <1>1, <1>2 DEF IInv
<1> HIDE DEF x
<1>7. IInv' /\ Contents' = [Contents EXCEPT ![s] = AsSet(x)]
  BY <1>5, <1>6, OneArrayChanges
<1> QED BY <1>2, <1>5, <1>7 DEF Sets!Update

LEMMA MergeIs ==
  ASSUME IInv, NEW s \in Sketch, NEW o \in Sketch, Merge(s, o)
  PROVE  IInv' /\ Sets!Merge(s, o)
<1> DEFINE x == Merged(array[s], array[o], K[s])
<1>1. /\ ~array[o].is_empty /\ Sets!Combinable(s, o)
      /\ array' = [array EXCEPT ![s] = x]
      /\ hist' = Sets!HistoryOfMerge(s, o) /\ initial' = initial
  BY DEF Merge
<1>2. Lawful(x, K[s]) /\ AsSet(x) = Sets!MergeOf(Contents[s], Contents[o], K[s])
  BY SameGuards, MergedIs
<1>3. initial' \in [Sketch -> 1 .. MaxTheta]
  BY <1>1 DEF IInv
<1> HIDE DEF x
<1>4. IInv' /\ Contents' = [Contents EXCEPT ![s] = AsSet(x)]
  BY <1>1, <1>2, <1>3, OneArrayChanges
<1>5. ~Contents[o].is_empty
  BY <1>1, SameGuards
<1> QED BY <1>1, <1>2, <1>4, <1>5 DEF Sets!Merge

LEMMA ResetIs ==
  ASSUME IInv, NEW s \in Sketch, Reset(s)
  PROVE  IInv' /\ Sets!Reset(s)
<1> DEFINE x == Cleared(K[s], initial[s])
<1>1. /\ array' = [array EXCEPT ![s] = x]
      /\ hist' = [hist EXCEPT ![s] = Sets!NoHistory(initial[s])] /\ initial' = initial
  BY DEF Reset
<1>2. Lawful(x, K[s]) /\ AsSet(x) = Sets!ResetOf(K[s], initial[s])
  BY SameGuards, ClearedIs
<1>3. initial' \in [Sketch -> 1 .. MaxTheta]
  BY <1>1 DEF IInv
<1> HIDE DEF x
<1>4. IInv' /\ Contents' = [Contents EXCEPT ![s] = AsSet(x)]
  BY <1>1, <1>2, <1>3, OneArrayChanges
<1> QED BY <1>1, <1>2, <1>4 DEF Sets!Reset

LEMMA IntersectEmptyIs ==
  ASSUME IInv, NEW s \in Sketch, NEW o \in Sketch, IntersectEmpty(s, o)
  PROVE  IInv' /\ Sets!IntersectEmpty(s, o)
<1>1. ~array[s].is_empty /\ array[o].is_empty /\ Reset(s)
  BY DEF IntersectEmpty
<1>2. ~Contents[s].is_empty /\ Contents[o].is_empty
  BY <1>1, SameGuards
<1>3. IInv' /\ Sets!Reset(s)
  BY <1>1, ResetIs
<1> QED BY <1>2, <1>3 DEF Sets!IntersectEmpty

LEMMA IntersectIs ==
  ASSUME IInv, NEW s \in Sketch, NEW o \in Sketch, Intersect(s, o)
  PROVE  IInv' /\ Sets!Intersect(s, o)
<1> DEFINE x == RetainedOf(array[s], array[o], TRUE, K[s], initial[s])
<1>1. /\ ~array[s].is_empty /\ ~array[o].is_empty /\ Sets!Combinable(s, o)
      /\ array' = [array EXCEPT ![s] = x]
      /\ hist' = [hist EXCEPT ![s] = Sets!Restricted(s, o, @.rep \cap hist[o].rep)]
      /\ initial' = initial
  BY DEF Intersect
<1>2. Lawful(x, K[s])
      /\ AsSet(x) = Sets!RetainMatching(Contents[s], Contents[o], TRUE, K[s], initial[s])
  <2> DEFINE a == array[s]
             b == array[o]
             k == K[s]
             l == K[o]
             ini == initial[s]
             keep == TRUE
  <2>1. /\ k \in Nat /\ Lawful(a, k) /\ Contents[s] = AsSet(a) /\ ini \in 1 .. MaxTheta
        /\ l \in Nat /\ Lawful(b, l) /\ Contents[o] = AsSet(b) /\ keep \in BOOLEAN
    BY SameGuards
  <2> SUFFICES /\ Lawful(RetainedOf(a, b, keep, k, ini), k)
               /\ AsSet(RetainedOf(a, b, keep, k, ini)) =
                    Sets!RetainMatching(AsSet(a), AsSet(b), keep, k, ini)
    BY <2>1
  <2> HIDE DEF a, b, k, l, ini, keep
  <2> QED BY <2>1, RetainedOfIs
<1>3. initial' \in [Sketch -> 1 .. MaxTheta]
  BY <1>1 DEF IInv
<1> HIDE DEF x
<1>4. IInv' /\ Contents' = [Contents EXCEPT ![s] = AsSet(x)]
  BY <1>1, <1>2, <1>3, OneArrayChanges
<1>5. ~Contents[s].is_empty /\ ~Contents[o].is_empty
  BY <1>1, SameGuards
<1> QED BY <1>1, <1>2, <1>4, <1>5 DEF Sets!Intersect

LEMMA ANotBIs ==
  ASSUME IInv, NEW s \in Sketch, NEW o \in Sketch, ANotB(s, o)
  PROVE  IInv' /\ Sets!ANotB(s, o)
<1> DEFINE x == RetainedOf(array[s], array[o], FALSE, K[s], initial[s])
<1>1. /\ ~(array[s].is_empty \/ (array[s].hashes # <<>> /\ array[o].is_empty))
      /\ Sets!Combinable(s, o)
      /\ array' = [array EXCEPT ![s] = x]
      /\ hist' = [hist EXCEPT ![s] = Sets!Restricted(s, o, @.rep \ hist[o].rep)]
      /\ initial' = initial
  BY DEF ANotB
<1>2. Lawful(x, K[s])
      /\ AsSet(x) = Sets!RetainMatching(Contents[s], Contents[o], FALSE, K[s], initial[s])
  <2> DEFINE a == array[s]
             b == array[o]
             k == K[s]
             l == K[o]
             ini == initial[s]
             keep == FALSE
  <2>1. /\ k \in Nat /\ Lawful(a, k) /\ Contents[s] = AsSet(a) /\ ini \in 1 .. MaxTheta
        /\ l \in Nat /\ Lawful(b, l) /\ Contents[o] = AsSet(b) /\ keep \in BOOLEAN
    BY SameGuards
  <2> SUFFICES /\ Lawful(RetainedOf(a, b, keep, k, ini), k)
               /\ AsSet(RetainedOf(a, b, keep, k, ini)) =
                    Sets!RetainMatching(AsSet(a), AsSet(b), keep, k, ini)
    BY <2>1
  <2> HIDE DEF a, b, k, l, ini, keep
  <2> QED BY <2>1, RetainedOfIs
<1>3. initial' \in [Sketch -> 1 .. MaxTheta]
  BY <1>1 DEF IInv
<1> HIDE DEF x
<1>4. IInv' /\ Contents' = [Contents EXCEPT ![s] = AsSet(x)]
  BY <1>1, <1>2, <1>3, OneArrayChanges
<1>5. ~Sets!SubtractsNothing(Contents[s], Contents[o])
  BY <1>1, SameGuards DEF Sets!SubtractsNothing
<1> QED BY <1>1, <1>2, <1>4, <1>5 DEF Sets!ANotB

LEMMA DeserializeIs ==
  ASSUME IInv, NEW s \in Sketch, NEW o \in Sketch, Deserialize(s, o)
  PROVE  IInv' /\ Sets!Deserialize(s, o)
<1> DEFINE x == Install(Buffer(array[o].hashes, Len(array[o].hashes)),
                        Sets!EffectiveTheta(array[o]), array[o].is_empty, K[s], MaxTheta)
<1>1. /\ ~array[o].is_empty => Sets!Combinable(s, o)
      /\ Len(array[o].hashes) <= K[s]
      /\ initial' = [initial EXCEPT ![s] = MaxTheta]
      /\ array' = [array EXCEPT ![s] = x]
      /\ hist' = Sets!HistoryOfDeserialize(s, o)
  BY DEF Deserialize
<1>2. /\ Lawful(x, K[s])
      /\ AsSet(x) = Sets!Installed(Contents[o].hashes, K[s], Sets!EffectiveTheta(Contents[o]),
                                   Contents[o].is_empty, MaxTheta)
  <2> DEFINE a == array[o]
             k == K[s]
             l == K[o]
  <2>1. k \in Nat /\ l \in Nat /\ Lawful(a, l) /\ Contents[o] = AsSet(a)
    BY SameGuards
  <2>2. x = Install(Buffer(a.hashes, Len(a.hashes)), Sets!EffectiveTheta(a), a.is_empty, k,
                    MaxTheta)
    OBVIOUS
  <2> SUFFICES /\ Lawful(x, k)
               /\ AsSet(x) = Sets!Installed(AsSet(a).hashes, k, Sets!EffectiveTheta(AsSet(a)),
                                            AsSet(a).is_empty, MaxTheta)
    BY <2>1
  <2> HIDE DEF a, k, l, x
  <2> QED BY <2>1, <2>2, LoadedIs
<1>3. initial' \in [Sketch -> 1 .. MaxTheta]
  BY <1>1, PolicyAssumption DEF IInv
<1> HIDE DEF x
<1>4. IInv' /\ Contents' = [Contents EXCEPT ![s] = AsSet(x)]
  BY <1>1, <1>2, <1>3, OneArrayChanges
<1>5. /\ ~Contents[o].is_empty => Sets!Combinable(s, o)
      /\ Sets!Cardinality(Contents[o].hashes) <= K[s]
  BY <1>1, SameGuards
<1> QED BY <1>1, <1>2, <1>4, <1>5 DEF Sets!Deserialize

LEMMA StepIs ==
  ASSUME IInv, [Next]_vars
  PROVE  IInv' /\ [Sets!Next]_(Sets!vars)
<1>1. CASE UNCHANGED vars
  <2>1. array' = array /\ initial' = initial /\ hist' = hist
    BY <1>1 DEF vars
  <2>2. Contents' = Contents
    BY <2>1, ContentsAre
  <2>3. IInv'
    BY <2>1 DEF IInv
  <2> QED BY <2>1, <2>2, <2>3 DEF Sets!vars
<1>2. ASSUME NEW s \in Sketch, NEW C \in Chunks, Update(s, C)
      PROVE  IInv' /\ Sets!Next
  BY <1>2, UpdateIs DEF Sets!Next
<1>3. ASSUME NEW s \in Sketch, Reset(s)
      PROVE  IInv' /\ Sets!Next
  BY <1>3, ResetIs DEF Sets!Next
<1>4. ASSUME NEW s \in Sketch, NEW o \in Sketch, Merge(s, o)
      PROVE  IInv' /\ Sets!Next
  BY <1>4, MergeIs DEF Sets!Next
<1>5. ASSUME NEW s \in Sketch, NEW o \in Sketch, IntersectEmpty(s, o)
      PROVE  IInv' /\ Sets!Next
  BY <1>5, IntersectEmptyIs DEF Sets!Next
<1>6. ASSUME NEW s \in Sketch, NEW o \in Sketch, Intersect(s, o)
      PROVE  IInv' /\ Sets!Next
  BY <1>6, IntersectIs DEF Sets!Next
<1>7. ASSUME NEW s \in Sketch, NEW o \in Sketch, ANotB(s, o)
      PROVE  IInv' /\ Sets!Next
  BY <1>7, ANotBIs DEF Sets!Next
<1>8. ASSUME NEW s \in Sketch, NEW o \in Sketch, Deserialize(s, o)
      PROVE  IInv' /\ Sets!Next
  BY <1>8, DeserializeIs DEF Sets!Next
<1> QED BY <1>1, <1>2, <1>3, <1>4, <1>5, <1>6, <1>7, <1>8 DEF Next

LEMMA AlwaysLawful == Spec => []IInv
<1>1. Init => IInv
  BY InitIs
<1>2. IInv /\ [Next]_vars => IInv'
  BY StepIs
<1> QED BY <1>1, <1>2, PTL DEF Spec

-----------------------------------------------------------------------------
(* Results.                                                                *)

(* Whatever order and duplicates the screen's lanes produce, the hashes    *)
(* are strictly ascending, written, and below theta whenever an operation  *)
(* starts: sketch_impl.hpp 149-256 and theta.hpp 173-179.                  *)
THEOREM ArraysOrdered == Spec => []Ordered
<1>1. IInv => Ordered
  <2> SUFFICES ASSUME IInv, NEW s \in Sketch
               PROVE  /\ \A i \in 1 .. Len(array[s].hashes) - 1 :
                           array[s].hashes[i] < array[s].hashes[i + 1]
                      /\ \A i \in DOMAIN array[s].hashes :
                           0 < array[s].hashes[i] /\ array[s].hashes[i] < array[s].theta
    BY DEF Ordered
  <2> DEFINE u == array[s].hashes
  <2>1. /\ u \in Seq(Nat) /\ Ascends(u)
        /\ \A h \in ToSet(u) : 0 < h /\ h < array[s].theta
    BY LawfulParts DEF IInv
  <2> HIDE DEF u
  <2>2. Len(u) \in Nat /\ DOMAIN u = 1 .. Len(u)
    BY <2>1, ArrayParts
  <2>3. ASSUME NEW i \in 1 .. Len(u) - 1 PROVE u[i] < u[i + 1]
    <3>1. i \in DOMAIN u /\ i + 1 \in DOMAIN u /\ i < i + 1
      BY <2>2
    <3> QED BY <2>1, <3>1 DEF Ascends
  <2>4. \A i \in DOMAIN u : 0 < u[i] /\ u[i] < array[s].theta
    BY <2>1 DEF ToSet
  <2> QED BY <2>3, <2>4 DEF u
<1> QED BY <1>1, AlwaysLawful, PTL

(* Sorting, merging, searching and truncating the arrays is what           *)
(* ThetaSketch says of sets, operation by operation: sketch_impl.hpp       *)
(* 149-336.  With the theorems of ThetaSketchProofs, the arrays hold what  *)
(* the operations stand for.                                               *)
THEOREM ArraysImplementSets == Spec => Implements
<1>1. Init => Sets!Init
  BY InitIs
<1>2. IInv /\ [Next]_vars => [Sets!Next]_(Sets!vars)
  BY StepIs
<1> QED BY <1>1, <1>2, AlwaysLawful, PTL DEF Spec, Implements, Sets!Spec

=============================================================================
