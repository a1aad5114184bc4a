---------------------------- MODULE ThetaUpdate ----------------------------
(***************************************************************************)
(* theta_sketch::update: the host loop that feeds a batch of keys to the   *)
(* device in chunks, retries a chunk that overflows the survivor budget,   *)
(* and installs the result of each chunk that fits.                        *)
(*                                                                         *)
(* A key is represented by its hash (theta_hash is a function of the key   *)
(* and the seed).  One action per phase of a chunk, because every phase    *)
(* allocates or launches and may throw.                                    *)
(***************************************************************************)
EXTENDS ThetaPolicy, Sequences

CONSTANTS
  K,                    \* nominal k
  Budget,               \* survivor_budget_
  ChunkTargetMultiple,  \* tuning: multiple of k in a maximum-theta chunk
  MinChunkKeys,         \* tuning: smallest chunk worth a launch
  MaxChunkGrowth,       \* tuning: growth cap under a duplicate estimate
  Batches               \* the batches of hashed keys clients pass to update

ASSUME UpdateAssumption ==
  /\ K \in Nat \ {0}
  /\ Budget \in Nat \ {0}
  /\ ChunkTargetMultiple \in Nat \ {0}
  /\ MinChunkKeys \in Nat \ {0}
  /\ MaxChunkGrowth \in Nat \ {0}
  /\ Batches \subseteq Seq(Hashes)

VARIABLES
  hashes,      \* hashes_
  theta,       \* theta_
  is_empty,    \* is_empty_
  pc,          \* where the host thread is in update
  keys,        \* the batch, first .. last
  offset,      \* keys committed so far
  previous,    \* size of the last committed chunk
  chunk,       \* size of the chunk in flight
  rate,        \* theta at which this chunk was first screened
  duplicates,  \* duplicate_factor, the ratio num/den
  work,        \* the phase's device buffer, as a set
  outcome,     \* survivors counted by the last screen
  base,        \* history: the sketch before the first call
  start,       \* history: the sketch when this call began
  seen         \* history: every hash of a committed chunk

sketch == <<hashes, theta, is_empty>>
vars == <<hashes, theta, is_empty, pc, keys, offset, previous, chunk, rate,
          duplicates, work, outcome, base, start, seen>>

-----------------------------------------------------------------------------
(* Quantities the loop computes.                                           *)

\* The double 1.0, duplicate_factor before anything is measured.
One == [num |-> 1, den |-> 1]

\* min(1.0, duplicate_hedge * duplicate_factor), with duplicate_hedge = 2.
Hedged(dup) ==
  IF 2 * dup.num >= dup.den THEN One ELSE [num |-> 2 * dup.num, den |-> dup.den]

\* Keys that should fill the budget: Budget / (1.1 * theta_rate * hedged).
Sized(remaining, prev, hedged) ==
  LET target == IF hedged.num = 0 THEN remaining
                ELSE Lesser(remaining, (10 * Budget * MaxTheta * hedged.den)
                                         \div (11 * theta * hedged.num))
      capped == /\ hedged.num < hedged.den
                /\ prev # 0
                /\ target \div MaxChunkGrowth > prev
  IN  Greater(1, IF capped THEN prev * MaxChunkGrowth ELSE target)

\* Faulty variant: the chunk is not bounded by what remains of the batch.
NextChunkUnbounded(remaining, prev, dup) ==
  LET sized == Sized(remaining, prev, Hedged(dup))
  IN  IF theta = MaxTheta THEN sized ELSE Greater(sized, MinChunkKeys)

\* next_chunk
NextChunk(remaining, prev, dup) ==
  LET sized    == Sized(remaining, prev, Hedged(dup))
      doubling == Greater(Greater(ChunkTargetMultiple * K, MinChunkKeys), 2 * prev)
  IN  Lesser(remaining, IF theta = MaxTheta THEN Lesser(doubling, sized)
                        ELSE Greater(sized, MinChunkKeys))

\* outcome / chunk / rate, the factor measured by a screen.
Measured == [num |-> outcome * MaxTheta, den |-> chunk * rate]

\* Faulty variant: trusts the measurement to land within the budget.
RetryChunkUnhalved(dup) == NextChunk(Len(keys) - offset, previous, dup)

\* The size of the next try at a chunk that overflowed.
RetryChunk(dup) ==
  Lesser(chunk \div 2, NextChunk(Len(keys) - offset, previous, dup))

InChunk   == (offset + 1) .. (offset + chunk)
ChunkKeys == {keys[i] : i \in InChunk}

\* Positions of the chunk whose hash survives, duplicates included.
Survivors == {i \in InChunk : ScreenHash(theta, keys[i])}

\* Faulty variant: the counter is compared with the input, not the buffer.
OverflowsChunk(n) == n > chunk

\* screened.size > screened.data.size()
Overflows(n) == n > Lesser(chunk, Budget)

\* Faulty variant: install is handed the theta of a fresh sketch.
InstalledThetaForgotten == ThetaAfter(work, K, MaxTheta)

InstalledTheta == ThetaAfter(work, K, theta)

\* Faulty variant: only an install makes the sketch nonempty.
MarkSeenByInstallOnly == is_empty' = is_empty

MarkSeen == is_empty' = FALSE

-----------------------------------------------------------------------------
Quiet ==
  /\ keys = <<>> /\ offset = 0 /\ previous = 0 /\ chunk = 0 /\ rate = MaxTheta
  /\ duplicates = One /\ work = {} /\ outcome = 0

\* The sketch may be fresh, sampled, imported or the result of set operations.
Init ==
  /\ base \in Sketches(K)
  /\ start = base
  /\ hashes = base.hashes /\ theta = base.theta /\ is_empty = base.is_empty
  /\ pc = "idle"
  /\ seen = {}
  /\ Quiet

-----------------------------------------------------------------------------
(* The loop of update.                                                     *)

\* update(first, last)
Call(batch) ==
  /\ pc = "idle"
  /\ pc' = "loop"
  /\ keys' = batch
  /\ start' = [hashes |-> hashes, theta |-> theta, is_empty |-> is_empty]
  /\ UNCHANGED <<sketch, offset, previous, chunk, rate, duplicates, work,
                 outcome, base, seen>>

\* The head of the while loop: size the chunk and note theta_rate.
Size ==
  /\ pc = "loop"
  /\ offset < Len(keys)
  /\ chunk' = NextChunk(Len(keys) - offset, previous, duplicates)
  /\ rate' = theta
  /\ pc' = "screen"
  /\ UNCHANGED <<sketch, keys, offset, previous, duplicates, work, outcome,
                 base, start, seen>>

\* screen and the early return of update_chunk.  The kernel's filters are best
\* effort, so the count is anything from the distinct survivors to all of them.
Screen ==
  /\ pc = "screen"
  /\ LET distinct == {keys[i] : i \in Survivors}
     IN  \E n \in Cardinality(distinct) .. Cardinality(Survivors) :
           /\ outcome' = n
           /\ IF Overflows(n) \/ n = 0
              THEN pc' = "outcome" /\ work' = {}
              ELSE pc' = "fold" /\ work' = distinct
  /\ UNCHANGED <<sketch, keys, offset, previous, chunk, rate, duplicates, base,
                 start, seen>>

\* sort_unique of the survivors and merge_unique with the retained hashes.
Fold ==
  /\ pc = "fold"
  /\ work' = hashes \cup work
  /\ pc' = "install"
  /\ UNCHANGED <<sketch, keys, offset, previous, chunk, rate, duplicates,
                 outcome, base, start, seen>>

\* install(combined, theta_, false)
Install ==
  /\ pc = "install"
  /\ hashes' = Retained(work, K)
  /\ theta' = InstalledTheta
  /\ is_empty' = FALSE
  /\ work' = {}
  /\ pc' = "outcome"
  /\ UNCHANGED <<keys, offset, previous, chunk, rate, duplicates, outcome,
                 base, start, seen>>

\* The inner while loop: nothing was installed, screen a smaller chunk.
Retry ==
  /\ pc = "outcome"
  /\ outcome > Budget
  /\ duplicates' = Measured
  /\ chunk' = RetryChunk(duplicates')
  /\ pc' = "screen"
  /\ UNCHANGED <<sketch, keys, offset, previous, rate, work, outcome, base,
                 start, seen>>

\* The tail of the while loop.
Commit ==
  /\ pc = "outcome"
  /\ outcome <= Budget
  /\ MarkSeen
  /\ duplicates' = Measured
  /\ offset' = offset + chunk
  /\ previous' = chunk
  /\ seen' = seen \cup ChunkKeys
  /\ pc' = "loop"
  /\ UNCHANGED <<hashes, theta, keys, chunk, rate, work, outcome, base, start>>

ForgetLocals ==
  /\ pc' = "idle"
  /\ keys' = <<>> /\ offset' = 0 /\ previous' = 0 /\ chunk' = 0
  /\ rate' = MaxTheta /\ duplicates' = One /\ work' = {} /\ outcome' = 0
  /\ UNCHANGED <<base, start, seen>>

\* while (offset < count) is false.
Return ==
  /\ pc = "loop"
  /\ offset >= Len(keys)
  /\ ForgetLocals
  /\ UNCHANGED sketch

\* A failed allocation, launch, copy or synchronization unwinds the call.  In
\* install everything that can fail precedes the three assignments.
Throw ==
  /\ pc \in {"screen", "fold", "install"}
  /\ ForgetLocals
  /\ UNCHANGED sketch

Step == Size \/ Screen \/ Fold \/ Install \/ Retry \/ Commit \/ Return

Next ==
  \/ \E batch \in Batches : Call(batch)
  \/ Step
  \/ Throw

\* The host thread keeps running the call it is in; nobody has to call, and
\* nothing has to fail.
Spec == Init /\ [][Next]_vars /\ WF_vars(Step)

-----------------------------------------------------------------------------
(* Properties.                                                             *)

\* Every variable keeps to its type; in particular theta stays positive, so
\* theta_rate never divides by zero (sketch_impl.hpp 64-72, 311-318).
TypeOK ==
  /\ hashes \in SUBSET (1 .. MaxTheta)
  /\ theta \in 1 .. MaxTheta
  /\ is_empty \in BOOLEAN
  /\ pc \in {"idle", "loop", "screen", "fold", "install", "outcome"}
  /\ keys \in Seq(Hashes)
  /\ offset \in 0 .. Len(keys)
  /\ previous \in Nat
  /\ chunk \in Nat
  /\ rate \in 1 .. MaxTheta
  /\ duplicates \in [num : Nat, den : Nat \ {0}]
  /\ work \in SUBSET (1 .. MaxTheta)
  /\ outcome \in Nat
  /\ base \in Sketches(K)
  /\ start \in [hashes : SUBSET (1 .. MaxTheta), theta : 1 .. MaxTheta,
                is_empty : BOOLEAN]
  /\ seen \in SUBSET Hashes

\* The floating-point estimate, the growth cap and the halving never yield an
\* empty chunk or one that reaches past the batch (sketch_impl.hpp 262-283, 325).
ChunkFits ==
  pc \in {"screen", "fold", "install", "outcome"} =>
    chunk \in 1 .. (Len(keys) - offset)

\* A chunk that fitted the budget has been installed, though not yet counted.
Absorbed ==
  IF pc = "outcome" /\ outcome <= Budget THEN seen \cup ChunkKeys ELSE seen

\* However a batch is cut into chunks, whatever overflows, is retried or
\* throws, the sketch is the summary of exactly the keys it has absorbed: no
\* survivor is lost, none is kept that theta excludes, theta is tight, and a
\* failed chunk leaves no trace (theta.hpp 100-102).
Parity ==
  IsSummary(base.hashes \cup Absorbed, K, base.theta, hashes, theta)

\* A call that has not committed its first chunk has not touched the sketch,
\* even when that chunk has overflowed and is being retried with the count of
\* the failed pass (theta.hpp 100-102, sketch_impl.hpp 328-331).
FirstChunkAtomic ==
  pc # "idle" /\ offset = 0 /\ ~(pc = "outcome" /\ outcome <= Budget) =>
    [hashes |-> hashes, theta |-> theta, is_empty |-> is_empty] = start

\* is_empty is exactly "no key was ever seen", and a key that the screen
\* rejected counts as seen (sketch_impl.hpp 328-331).
EmptyIffNothingSeen ==
  ~(pc = "outcome" /\ outcome <= Budget) =>
    (is_empty <=> base.is_empty /\ seen = {})

\* A hash that was seen and is no longer retained never comes back, although
\* later batches repeat it and later chunks are screened at other thetas.
Discards ==
  [][/\ theta' <= theta
     /\ hashes' \cap ((base.hashes \cup seen) \ hashes) = {}]_vars

\* Update is a sequence of atomic absorptions: a chunk takes effect when it is
\* installed, or, if the screen rejected all of it, when it is committed; the
\* overflows, retries and failures in between are invisible (theta.hpp 94-102).
Counted ==
  base.hashes \cup
    (IF pc = "outcome" /\ 0 < outcome /\ outcome <= Budget
     THEN seen \cup ChunkKeys ELSE seen)

Abstract == INSTANCE ThetaAbsorb WITH rep <- Counted

AbsorbsAtomically == Abstract!Spec

\* Every call returns: halving gets any chunk under the budget, and every
\* chunk makes progress (sketch_impl.hpp 261, 322-325).
UpdateReturns == pc # "idle" ~> pc = "idle"
=============================================================================
