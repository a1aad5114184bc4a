---------------------------- MODULE ThetaArrays ----------------------------
(***************************************************************************)
(* The Theta sketch as it lies in device memory: hashes_ is an array, and  *)
(* every operation is carried out by sorting, merging and compacting       *)
(* arrays (sketch_impl.hpp 149-256).  The array must be strictly ascending *)
(* whenever an operation starts, because merge and binary search rely on   *)
(* it.  Implements says that the arrays then behave as the sets of         *)
(* ThetaSketch.                                                            *)
(*                                                                         *)
(* A buffer has as many elements as were allocated (data.size()), of which *)
(* the first size ones were written.                                       *)
(***************************************************************************)
EXTENDS ThetaPolicy, Sequences, SequencesExt

CONSTANTS
  Sketch, K, Seed, SeedHash, SampledTheta, Chunks,  \* as in ThetaSketch
  Surplus  \* bound on the duplicates that the screen's filter lets through

ASSUME ArraysAssumption ==
  /\ K \in [Sketch -> Nat \ {0}]
  /\ SampledTheta \in [Sketch -> 1 .. MaxTheta]
  /\ Chunks \subseteq SUBSET Hashes
  /\ Surplus \in Nat

\* What the provers have to be told of powers.
ASSUME PowerAssumption ==
  2 ^ 0 = 1 /\ \A n \in 0 .. MaxTheta : 2 ^ (n + 1) = 2 * 2 ^ n

VARIABLES
  array,    \* array[s]: hashes_ (a sequence), theta_ and is_empty_
  initial,  \* initial[s]: initial_theta_
  hist      \* the history of ThetaSketch

vars == <<array, initial, hist>>

\* The sets that the arrays stand for.
Contents == [s \in Sketch |-> [array[s] EXCEPT !.hashes = ToSet(@)]]

Sets == INSTANCE ThetaSketch WITH sk <- Contents

-----------------------------------------------------------------------------
(* Buffers and the device algorithms of CUB and libcu++.                   *)

Unwritten == 0  \* what an element that was never written is taken to hold

Buffer(written, capacity) ==
  [data |-> [i \in 1 .. capacity |->
               IF i <= Len(written) THEN written[i] ELSE Unwritten],
   size |-> Len(written)]

Written(buffer) == SubSeq(buffer.data, 1, buffer.size)

\* The elements of s at the positions P, in their order.
Compacted(s, P) == [n \in 1 .. Cardinality(P) |-> s[Nth(P, n - 1)]]

\* bit_width(x)
BitWidth(x) == CHOOSE n \in 0 .. x : x < 2 ^ n /\ (n = 0 \/ 2 ^ (n - 1) <= x)

\* DeviceRadixSort::SortKeys: stable, and blind to all but the low bits.
RadixSorted(s, bits) ==
  LET Low(i)       == s[i] % 2 ^ bits
      Before(i, j) == Low(i) < Low(j) \/ (Low(i) = Low(j) /\ i < j)
      Rank(i)      == Cardinality({j \in DOMAIN s : Before(j, i)})
  IN  [n \in DOMAIN s |-> s[CHOOSE i \in DOMAIN s : Rank(i) = n - 1]]

\* DeviceSelect::Unique: the first element of every run of equal ones.
RunHeads(s) == Compacted(s, {i \in DOMAIN s : i = 1 \/ s[i] # s[i - 1]})

\* DeviceMerge::MergeKeys: always the smaller of the two heads, the first
\* range's if they are equal.  Taken[n] of the first n come from that range.
MergedKeys(first, second) ==
  LET total == Len(first) + Len(second)
      FromFirst(i, j) ==
        i < Len(first) /\ (j = Len(second) \/ first[i + 1] <= second[j + 1])
      Taken[n \in 0 .. total] ==
        IF n = 0 THEN 0
        ELSE LET i == Taken[n - 1] IN IF FromFirst(i, n - 1 - i) THEN i + 1 ELSE i
  IN  [n \in 1 .. total |->
         LET i == Taken[n - 1]
             j == n - 1 - i
         IN  IF FromFirst(i, j) THEN first[i + 1] ELSE second[j + 1]]

\* binary_search: halve the range until its start is the lower bound of h; it
\* is empty before Len(s) rounds are over.
BinarySearch(s, h) ==
  LET Halved(r) ==
        LET half == r.count \div 2
        IN  IF r.count = 0 THEN r
            ELSE IF s[r.first + half + 1] < h
                 THEN [first |-> r.first + half + 1, count |-> r.count - half - 1]
                 ELSE [first |-> r.first, count |-> half]
      Left[n \in 0 .. Len(s)] ==
        IF n = 0 THEN [first |-> 0, count |-> Len(s)] ELSE Halved(Left[n - 1])
      at == Left[Len(s)].first
  IN  at < Len(s) /\ ~(h < s[at + 1])

-----------------------------------------------------------------------------
(* The primitives of sketch_impl.                                          *)

\* chosen: the hashes that the predicate holds of.
Select(s, chosen) == Buffer(Compacted(s, {i \in DOMAIN s : s[i] \in chosen}), Len(s))

UniqueSorted(s) == Buffer(RunHeads(s), Len(s))

\* Faulty variant: the highest bit that hashes below bound may have is ignored.
SortUniqueByTooFewBits(s, bound) ==
  UniqueSorted(RadixSorted(s, BitWidth(bound) - 1))

\* Hashes below bound differ in the bits that bound has.
SortUnique(s, bound) == UniqueSorted(RadixSorted(s, BitWidth(bound)))

\* Only duplicates across the two ranges remain; one range alone is copied.
MergeUnique(first, second) ==
  IF first = <<>> \/ second = <<>>
  THEN LET only == IF first = <<>> THEN second ELSE first
       IN  Buffer(only, Len(only))
  ELSE UniqueSorted(MergedKeys(first, second))

\* membership_filter
Matches(other, theta, keep_matches, h) ==
  ScreenHash(theta, h) /\ BinarySearch(other, h) = keep_matches

\* Faulty variant: a buffer with room to spare is taken over as it is.
InstallOfCapacity(input, theta, empty, k, ini) ==
  LET retained == Lesser(input.size, k)
  IN  [hashes   |-> IF Len(input.data) <= k THEN input.data
                    ELSE SubSeq(input.data, 1, retained),
       theta    |-> IF empty THEN ini
                    ELSE IF input.size > k THEN input.data[k + 1] ELSE theta,
       is_empty |-> empty]

\* install: the buffer itself if it is full and not too large, else a copy of
\* its first elements; hash number k is the new theta.
Install(input, theta, empty, k, ini) ==
  LET retained == Lesser(input.size, k)
      reuse    == Len(input.data) = retained
  IN  [hashes   |-> IF reuse THEN input.data ELSE SubSeq(input.data, 1, retained),
       theta    |-> IF empty THEN ini
                    ELSE IF input.size > k THEN input.data[k + 1] ELSE theta,
       is_empty |-> empty]

\* update_chunk after the screen, and the commit of the empty flag.
Folded(a, survivors, k) ==
  LET incoming == SortUnique(survivors, a.theta)
      combined == IF a.hashes = <<>> THEN incoming
                  ELSE MergeUnique(a.hashes, Written(incoming))
  IN  IF survivors = <<>> THEN [a EXCEPT !.is_empty = FALSE]
      ELSE Install(combined, a.theta, FALSE, k, a.theta)

\* merge with a nonempty sketch.
Merged(a, b, k) ==
  LET theta    == Lesser(a.theta, Sets!EffectiveTheta(b))
      combined == MergeUnique(a.hashes, b.hashes)
      screened == Select(Written(combined), {h \in Hashes : ScreenHash(theta, h)})
  IN  Install(screened, theta, FALSE, k, theta)

\* retain_matching
RetainedOf(a, b, keep_matches, k, ini) ==
  LET theta  == Lesser(Sets!EffectiveTheta(a), Sets!EffectiveTheta(b))
      kept   == {h \in ToSet(a.hashes) : Matches(b.hashes, theta, keep_matches, h)}
      result == Select(a.hashes, kept)
  IN  Install(result, theta, result.size = 0 /\ theta = MaxTheta, k, ini)

Cleared(k, ini) == Install(Buffer(<<>>, 0), MaxTheta, TRUE, k, ini)

-----------------------------------------------------------------------------
(* The operations, with the shortcuts and checks of ThetaSketch.           *)

\* What the screen may leave of the chunk C: in the order in which lanes of
\* all blocks reserved their slots, with some duplicates.
Survivors(C, theta) ==
  LET S == Screened(C, theta)
  IN  {s \in SeqOf(S, Cardinality(S) + Surplus) : ToSet(s) = S}

Init ==
  /\ array = [s \in Sketch |->
       [hashes |-> <<>>, theta |-> SampledTheta[s], is_empty |-> TRUE]]
  /\ initial = SampledTheta
  /\ hist = [s \in Sketch |-> Sets!NoHistory(SampledTheta[s])]

Update(s, C) ==
  /\ \E survivors \in Survivors(C, array[s].theta) :
       array' = [array EXCEPT ![s] = Folded(@, survivors, K[s])]
  /\ hist' = Sets!HistoryOfUpdate(s, C)
  /\ UNCHANGED initial

Merge(s, o) ==
  /\ ~array[o].is_empty
  /\ Sets!Combinable(s, o)
  /\ array' = [array EXCEPT ![s] = Merged(@, array[o], K[s])]
  /\ hist' = Sets!HistoryOfMerge(s, o)
  /\ UNCHANGED initial

Reset(s) ==
  /\ array' = [array EXCEPT ![s] = Cleared(K[s], initial[s])]
  /\ hist' = [hist EXCEPT ![s] = Sets!NoHistory(initial[s])]
  /\ UNCHANGED initial

IntersectEmpty(s, o) ==
  /\ ~array[s].is_empty
  /\ array[o].is_empty
  /\ Reset(s)

Intersect(s, o) ==
  /\ ~array[s].is_empty
  /\ ~array[o].is_empty
  /\ Sets!Combinable(s, o)
  /\ array' = [array EXCEPT ![s] = RetainedOf(@, array[o], TRUE, K[s], initial[s])]
  /\ hist' = [hist EXCEPT ![s] = Sets!Restricted(s, o, @.rep \cap hist[o].rep)]
  /\ UNCHANGED initial

ANotB(s, o) ==
  /\ ~(array[s].is_empty \/ (array[s].hashes # <<>> /\ array[o].is_empty))
  /\ Sets!Combinable(s, o)
  /\ array' = [array EXCEPT ![s] = RetainedOf(@, array[o], FALSE, K[s], initial[s])]
  /\ hist' = [hist EXCEPT ![s] = Sets!Restricted(s, o, @.rep \ hist[o].rep)]
  /\ UNCHANGED initial

\* load_compact of what get_retained_hashes copied to the host.
Deserialize(s, o) ==
  LET entries == array[o].hashes
  IN  /\ ~array[o].is_empty => Sets!Combinable(s, o)
      /\ Len(entries) <= K[s]
      /\ initial' = [initial EXCEPT ![s] = MaxTheta]
      /\ array' = [array EXCEPT ![s] =
           Install(Buffer(entries, Len(entries)), Sets!EffectiveTheta(array[o]),
                   array[o].is_empty, K[s], MaxTheta)]
      /\ hist' = Sets!HistoryOfDeserialize(s, o)

Next ==
  \E s \in Sketch :
    \/ \E C \in Chunks : Update(s, C)
    \/ Reset(s)
    \/ \E o \in Sketch :
         Merge(s, o) \/ IntersectEmpty(s, o) \/ Intersect(s, o)
           \/ ANotB(s, o) \/ Deserialize(s, o)

Spec == Init /\ [][Next]_vars

-----------------------------------------------------------------------------
(* Properties.                                                             *)

\* The retained hashes are ascending (theta.hpp 173-179, is_ordered), without
\* duplicates, written, and below theta, whatever order and duplicates the
\* screen produced: the next merge and binary search depend on it.
Ordered ==
  \A s \in Sketch : LET h == array[s].hashes IN
    /\ \A i \in 1 .. Len(h) - 1 : h[i] < h[i + 1]
    /\ \A i \in DOMAIN h : 0 < h[i] /\ h[i] < array[s].theta

\* Sorting, merging, searching and truncating the arrays is what ThetaSketch
\* says of sets, operation by operation.
Implements == Sets!Spec
=============================================================================
