# Verification of DataSketches CUDA

This directory holds TLA+ specifications of `datasketches-cuda`, model-checking
configurations for TLC and proofs for TLAPS. Paths below are relative to
`include/datasketches/cuda/` of the repository (`src/include/...` in
`PROJECT.json`).

## The system

The library has two header-only sketches that live in GPU memory.

| component | state | operations | what makes it correct |
|---|---|---|---|
| **Theta screen kernel** `detail/theta/screen.cuh` | one filter of recent hashes per block, an output buffer of limited capacity, a global counter | screen a range of keys | no survivor is lost, whatever the interleaving; the counter tells whether everything fitted; no slot is written twice |
| **Theta update loop** `detail/theta/sketch_impl.hpp` 258-336 | the loop's `offset`, `previous`, `chunk`, `duplicate_factor`; the sketch's `hashes_`, `theta_`, `is_empty_` | `update` | the sketch is the summary of what it absorbed however a batch is cut; failure leaves a committed prefix; every call returns |
| **Theta set operations** `sketch_impl.hpp` 338-430, `theta.inl`, `theta.hpp` | several sketches | `merge`, `intersect`, `a_not_b`, `reset`, `serialize_compact`, `deserialize` | a sketch holds exactly the hashes below theta of the set it stands for; empty and exact mean what they say; seeds do not mix |
| **Theta array primitives** `sketch_impl.hpp` 149-256 | scratch buffers | `select`, `sort_unique`, `merge_unique`, binary search, `install` | they compute the set operations on ascending arrays |
| **Theta device memory** `sketch_impl.hpp`, `theta.hpp` 49-57, 90-92 | stream-ordered allocations, `hashes_`, `allocation_stream_` | every call; move, destruction, exceptions | no buffer is used before it is allocated or after it is freed, read before it is written, or lost |
| **Theta sampling** `sketch_impl.hpp` 100-110, `theta.inl` 100-104 | none | the threshold of a probability, and back | the documented range is accepted, and the probability is reported as given |
| **Theta compact image** `detail/theta/preamble.hpp` | none | `serialize_compact_v3`, `parse_compact_v3` | round trip; nothing malformed reaches `install` |
| **HLL sketch** `detail/hll/sketch_impl.hpp`, `hll.hpp` | an array of registers owned by the external `cuco::hyperloglog` | `update`, `update_async`, `merge`, `merge_async`, estimates, `serialize_*`, `deserialize` | registers are the maximum over everything given, in any order; an image is consistent with itself while other streams write |
| **HLL reduction and preamble** `detail/hll/*` | none | `reduce_hll8`, `assemble_preamble`, `parse_preamble` | zero count and sums match the registers; what is read is a legal array |
| **HLL estimator** `detail/hll/composite_finalizer.*`, the table, `sketch_impl.hpp` 227-247 | none | `composite_estimate`, the bounds | the window of nodes stays in the table and around the argument; the estimate follows the registers upwards |
| **Key normalization** `detail/common/normalizing_hasher.cuh` | none | canonical 64-bit value of a key | equal keys of different widths hash alike |

How they interact. The handles (`theta.inl`, `hll.inl`) forward every call to a
`sketch_impl`. `theta update` calls `update_chunk`, which launches the screen
kernel, reads its counter back, and only then sorts, merges and calls `install`,
the one function that assigns a Theta sketch. Every set operation ends in
`install` too. Theta calls complete before they return; HLL has asynchronous
variants, so its registers can change while another stream reads them. A key
reaches the sketches only as its hash.

Hard behaviours. Inside the kernel, thousands of lanes race on a filter through
relaxed atomics, and claim output slots concurrently. In the loop, a capacity
guard, a nondeterministic count, a floating-point estimate and a retry have to
agree; theta changes during a batch; any CUDA call can throw. In the set
operations, three things (the hashes, theta, the empty flag) change together
along long sequences of calls with operands that sample differently, have
another `k`, are empty, or are the same object.

## Modules

    ThetaPolicy          predicates and the truncation at k; what a summary is
      ThetaAbsorb        abstract: what update promises
      ThetaUpdate        the update loop           -- implements ThetaAbsorb
      ThetaScreen        the kernel, every thread  -- justifies ThetaUpdate!Screen
      ThetaSketch        several sketches, all operations, on sets
      ThetaArrays        the same on arrays        -- implements ThetaSketch
    ThetaStreams         the device memory of every call
    ThetaImage           the compact image of a Theta sketch
    HllPolicy            hash to coupon; the lattice of register arrays
      HllImage           reduction and image of a register array
        HllSketch        sketches, streams and host threads
    HllTable             the interpolation table and the cubic through four nodes
      HllInterpolation   the search and the choice of the nodes
      HllEstimator       estimate and bounds while registers rise
    FloatFormat          IEEE bit patterns (external)
      KeyNormalization   the word that is hashed for a key
      ThetaSampling      sampling probability and threshold
    MCThetaUpdate, MCThetaScreen, MCThetaSketch, MCThetaArrays, MCThetaStreams,
    MCHllSketch, MCHllEstimator (with the row HllTableRow), MCClientBits
                         constants for TLC
    ThetaPolicyProofs, ThetaUpdateProofs, ThetaScreenProofs, ThetaSketchProofs,
    ThetaArraysProofs, ThetaStreamsProofs, HllSketchProofs
                         the theorems about each, with their proofs
    InputOutputProofs    those about ThetaImage, HllInterpolation, KeyNormalization
                         and ThetaSampling

**ThetaPolicy.** A hash is a number, 0 the reserved one, `MaxTheta` stands for
`max_theta` (2^63 - 1). The device buffer is strictly ascending, so a set of
hashes determines it; `data[n]` is `Nth(S, n)`. `Retained`, `ThetaAfter` and
`Installed` are the arithmetic of `install`: keep the `k` smallest, and if there
are more, hash number `k` becomes theta. `IsSummary(S, k, p, hs, t)` says what a
Theta sketch of the set `S` is without the algorithm.

**ThetaUpdate.** One sketch and the host thread inside `update`. Each phase that
can fail is an action: `Size`, `Screen`, `Fold`, `Install`, then `Retry` or
`Commit`; `Throw` unwinds from any phase that allocates, launches or
synchronizes. `hashes`, `theta`, `is_empty` are the fields of the same names;
`offset`, `previous`, `chunk`, `duplicates` the locals. `duplicates` and the
target of `next_chunk` are exact fractions where the code has doubles; the
margin 1.1 is 11/10 and the hedge is 2. `Screen` leaves the count open between the
number of distinct survivors and the number of survivors. `base`, `start`
and `seen` are history variables.

**ThetaAbsorb.** What `theta.hpp` says of `update`: chunks commit independently.
A step turns the sketch into the summary of what it held and some more keys,
and nothing else changes it. `ThetaUpdate!Counted` is the refinement mapping: a
chunk counts once it is installed, or, when the screen rejected all of it, once
it is committed.

**ThetaScreen.** `screen_kernel` by warps and lanes. `Clear`/`Sync` are the
clearing of the shared filter and `__syncthreads`; `Match` is
`__match_any_sync`; `Load` and `Store` are the two relaxed accesses of the
filter, separately for every lane; `Reserve` is the warp scan and the
`fetch_add`; `Write` is one lane's guarded writes; `Advance` the stride. A relaxed
load may return anything the cell has held since it was cleared, and before
that anything at all, since shared memory is not initialized: `filter[b][s]` is
the set of values a load may return. That is at least what the memory model
allows. `out` is a partial function whose domain is the slots written so far.

**ThetaSketch.** Several sketches, each with its own `k`, seed and sampling
threshold. A call is one step, because it completes before it returns and
assigns only in `install` (`ThetaUpdate` shows that a chunk of `update` is
atomic). The second operand ranges over all sketches, the first included. A
call that throws or takes a no-op shortcut changes nothing and has no action.
`hist` records the set of keys the same unions, intersections and differences
would give (`rep`), the seeds of the keys it stands for (`seeds`), and whether it was
built by updates and unions alone (`streamed`, with `p` the smallest sampling
threshold involved).

**ThetaArrays.** The operations of `ThetaSketch` as `sketch_impl` carries them
out, on sequences. A buffer has elements that were written and elements that were
not. The algorithms of CUB and libcu++ are external and modelled by what they
do: the radix sort is stable and looks at the given low bits only, `Unique`
compares neighbours, the merge and the binary search rely on order without
checking it. The screen returns the survivors of a chunk in any order,
duplicates included (`Survivors`, at most `Surplus` of them). `Contents`, the set
of the elements of each array, is the refinement mapping to `ThetaSketch`.

**ThetaStreams.** A call is a program of host steps, written down function by
function: allocate, launch, synchronize, free at the end of a scope, rebind,
commit. Allocations, work and releases queue on the stream of the call and take
effect when the stream gets to them (`Execute`), in any order between streams. What
depends on data (whether a buffer fits exactly, whether a chunk overflows)
is a choice between programs (`Either`). `Throw` leaves a call before any
allocation or launch; unwinding frees the scratch buffers and leaves the work that
is queued. `live` and `written` describe the memory at the point where the streams
are. `SettlesAfterThrow` says whether a client that caught an exception
synchronizes the stream of the call before it goes on.

**ThetaImage.** One sketch and the image at hand. An image is the bytes of the
first word, the words after it (`body`) and its size in bytes. `Serialized` is
`serialize_compact_v3` with its three layouts; `Accepted` is everything that
`parse_compact_v3` and `load_compact` check, `Loaded` what is installed. Here the
device buffer is a sequence, since the parser's business is its order. `Compute`
stands for all other operations: it replaces the sketch by any legal one.

**HllPolicy, HllImage.** `register_index`, `register_value` and `reduce_hll8` as in
the code, with 64-bit halves scaled to `Width` bits and the accumulator split at
`Split`; sums of powers of two are exact (the code rounds the second accumulator
beyond 2^-53). `ArrayOf` is the CPU sketch, defined apart from the policy, so
that comparing with it says something. `HeaderValid` and `RegistersValid` are the
checks before and after a sketch exists.

**HllSketch.** `queue[st]` holds the tasks of a stream. A task is executed piece by
piece, a piece being one register (or one coupon), and pieces of tasks on
different streams interleave; a merge reads a register of the other sketch and
raises its own in two steps. The kernels are cuco's (external): that they raise
registers by an atomic maximum is what `reduction_state.hpp` 38-40 relies on. A
blocking call waits in `call[st]` for its queue to drain. `Snapshot` and
`ReturnSnapshot` are `snapshot_` and its callers; `Deserialize` constructs,
initializes and loads, or, on a register out of range, leaves a sketch to be
freed behind its own initialization. Device memory starts as garbage. The
client's duties in `hll.hpp` 52-57 and 75-76 are guards: `Usable` (work on
another stream only after initialization) and `Destroy`. A 32-bit register is
assumed to be copied undivided. The history is in register arrays: `promised` is
what the client knows to be in a sketch (calls that returned, answers it saw),
`pending` what a stream will have added since its last synchronization, `may`
everything the sketch can possibly hold, pending merges included (`Fed`).

**HllTable, HllInterpolation.** Estimates are counted in hundredths (`Unit`); the row
for lg_k = 4 is rounded to them. Products are exact and quotients rounded, where
the code has doubles. In `cubic_interpolate` the weights of the four nodes
sum to one, so the module adds to the first node's cardinality the shares of the
differences. `HllInterpolation` has one action for every step of
`interpolate_composite`: the case of the last node, the halving of the interval in
`find_straddle`, and the interpolation around it.

**HllEstimator.** An estimate depends on how many registers have each value,
which is the state (`count`); `answer` is what `get_estimate` returns, and by which
formula. `composite_estimate` has the branches of the code in their order. The
harmonic numbers are in millionths (the code uses a table and a series). HLL_8 always
passes zero as the least register value. The relative errors of the bounds come
from the CPU library and are parameters, 260 thousandths here, about
1.04 / sqrt(16). With sixteen registers up to five the model chooses the
branch that the code's double precision chooses, for every array, and its
estimates differ from the code's by 0.03 at most.

**KeyNormalization, ThetaSampling, FloatFormat.** Keys, floats and doubles are bit
patterns, at small widths. `_canonicalize` is the code's; `CpuWord` is what the
`update` overloads of the CPU sketches hash, each of which forwards to another.
The history is the set of keys given (`seen`) and of the words hashed for them.
In `ThetaSampling` the threshold is wider than the mantissa of `Exact`, as 63 bits
are wider than a double's 53, so that `max_theta` is rounded up where it is converted.
`FloatFormat` is the standard's, not the repository's.

## Runs

| run | asks | instance |
|---|---|---|
| `update_loop` | Is the sketch the summary of what it absorbed (`Parity`), does a failed first chunk leave it alone (`FirstChunkAtomic`), is the empty flag exact (`EmptyIffNothingSeen`), do chunks fit (`ChunkFits`), does nothing come back (`Discards`), does the loop implement `ThetaAbsorb` (`AbsorbsAtomically`), does every call return (`UpdateReturns`)? | k = 2, budget = 2, thetas 1..5; from every legal sketch, any sequence of six batches |
| `set_operations` | Does a sketch hold what it represents (`Represents`), is it exact when it says so (`ExactUnlessEstimating`), do unions equal one update (`UnionIsParity`)? | two sketches, k = 2 and 1, sampling thetas 5 and 4 of 5, chunks of one or two keys, any sequence of operations |
| `combining` | Do merges commute and associate (`UnionOrderFree`)? Can a sketch come to stand for keys of a foreign seed when the seed hashes differ (`SeedsDoNotMix`)? | three sketches of k = 2, one with another seed, sampling theta 4 of 5, all reachable combinations |
| `seed_collision` | Can it when two seeds share a seed hash? Violated: see below. | the same, one seed hash |
| `screen_kernel` | Is the counter between the distinct survivors and all survivors, and the buffer the survivor set if it fitted (`ScreenResult`), is no slot written twice (`WrittenOnce`), does the kernel end (`Terminates`)? | 2 blocks x 2 warps x 2 lanes x 2 items, 2 filter slots, four launches |
| `client_bits` | Is whatever is read a legal sketch (`ImportsAreLegal`), is what was written read back, and written again, the same (`RoundTrip`)? Are the words hashed those of the CPU sketches (`WordParity`), and do two keys share one exactly if they mean the same (`CountedOnce`)? Does a constructor accept the documented probabilities and no other (`AcceptsDocumentedRange`), and does the sketch report the one it was given (`ReportsProbability`)? | images: k = 2, thetas 1..4, words 0..5; right headers with any body of up to three words, each header defect, sizes off by -1, 1, 7. Keys: all pairs of all patterns of integers of 2, 3, 6 bits, floats of 4, doubles of 6. Probabilities: all floats of 7 bits, thresholds of 7, doubles of 10 |
| `theta_arrays` | Are the arrays ascending, written and below theta (`Ordered`); do they behave as the sets of `ThetaSketch` (`Implements`)? | two sketches, k = 3 and 2, thetas 1..7, batches with one duplicate, survivors in every order |
| `theta_streams` | Is no buffer used outside its lifetime, or read before it is written (`NoInvalidAccess`)? Does a call leave nothing running (`CompletesBeforeReturning`) and nothing allocated (`NoLeak`)? Is the retained buffer freed on the sketch's own stream (`FreedOnOwnStream`)? | two sketches, two streams, five hash buffers, one counter; every call, with an exception at every step, moves and destruction |
| `theta_throw` | Does a call that throws leave nothing running? Violated: see below. | the same, the client does not synchronize after an exception |
| `hll_streams` | Does an answer cover what the client knew, and nothing never given (`AnswersCover`); does an image describe its own registers (`ImageConsistent`); is the empty flag right (`EmptyMeansEmpty`); do registers end as the CPU sketch's (`Converges`) and never fall (`RegistersOnlyRise`)? | two sketches of two registers (0..3), two streams, three calls from any combination of sketches that hold an earlier key or do not exist |
| `hll_estimator` | Do the four nodes lie in the row, around the interval of the argument (`WindowCentred`), is the result between the nodes' (`BetweenNodes`), does the search end (`Returns`)? Is the estimate zero for the empty sketch only (`ZeroMeansEmpty`), where may it fall and in which order do the formulas take turns (`RisesInOrder`), do the bounds stay on their sides of each other (`BoundsDoNotCross`)? | the row for lg_k = 4: all 257 nodes, both neighbours of each, the middles; then every array of sixteen registers with values up to five |
| `hll_bounds` | Is the estimate between its bounds? Violated: see below. | the same |

Why these bounds are enough to be interesting. With k = 2 and five hash values
every relation of the number of hashes to k occurs (fewer, equal, one more,
several more), theta takes each value, and both hash boundaries (0 and
`MaxTheta`) are among the keys. A budget of 2 with batches of up to six keys gives
chunks that overflow by duplicates alone, that overflow twice in a row, and that
fit; both branches of `next_chunk` (maximum theta and below) and its growth cap
are taken. Two lanes, two warps, two blocks and two tiles are the least that make
duplicates meet at every filter stage; two slots make different hashes
collide in a cell. Two sketches and arbitrary operand order are enough for every
binary operation, aliased or not; three are needed for associativity. `Values`
(a VIEW of `combining` and of `theta_arrays`) drops the history, which no operation
reads, but for the seeds that `SeedsDoNotMix` looks at. In `theta_arrays` theta reaches
all bit widths from one to three, an array of k = 3 merges with up to two others'
hashes, and the capacity of a buffer exceeds, equals and falls short of k. In
`theta_streams` five hash buffers are what a merge needs at its peak with both
operands filled, and no call has two counters at a time; an allocation waits while all
buffers are in use. In
`client_bits` the smallest k, theta range and words give all three layouts with
none, one and two entries, a count that wraps (`CountRange`) and a word above
`max_theta`. In `hll_streams` three calls are enough for an update, a merge
that reads the sketch being updated, and a snapshot that overlaps both; for two
merges in opposite directions under a snapshot; and for an image taken, read
back and asked. The keys collide in a register and one has a second half of
zeros, where the cap applies. Streams and sketches are symmetric; no liveness is
checked there. Sixteen registers with values up to five visit every branch of
`composite_estimate`, with the bitmap formula saturated and not. In `client_bits` the
formats have subnormals, both zeros, infinities and several NaNs. The parts of
`client_bits` and of `hll_estimator` have no state in common, so one is explored
while the others rest.

Fairness. `ThetaUpdate` assumes weak fairness of the host thread's own steps
(`WF_vars(Step)`): the thread runs the call it is in. Nothing makes a client call
`update`, and nothing makes a failure happen. `ThetaScreen` assumes that the
grid as a whole progresses (`WF_vars(Next)`): no lane spins on another one, so no
stronger guarantee about single threads is needed. `HllInterpolation` assumes that a
call that has begun goes on (`WF(Step)`).

Each passing property is paired with a faulty variant of a definition (a dropped
guard, a wrong theta, a missing flag; marked "Faulty variant" in the modules)
under which TLC finds it violated; `PROJECT.json` lists the pairs.

### Disagreements between documentation and code

`theta.hpp:76-77` says that sketches built with different seeds cannot be
combined. `merge`, `intersect`, `a_not_b` and `deserialize` compare the 16-bit
seed hashes (`sketch_impl.hpp` 342 and 376, `preamble.hpp` 131), so sketches of two
seeds with the same seed hash are combined. `seed_collision` shows the shortest case:
the key given to one sketch hashes to the reserved 0, which the screen rejects, and a
merge clears the empty flag of a sketch of the other seed. No hash crosses in this
trace; the sketch stands for a key of another seed all the same. With an injective seed
hash (`combining`) the documented property holds.

`theta.hpp:49-50` says that every device operation completes before it returns. A call
that throws does not synchronize. `theta_throw` shows the shortest case: `update` of a
fresh sketch has queued the screen's buffers and its kernel (`sketch_impl.hpp` 197-199)
when `read_count` cannot copy the counter (143); the caller has caught the exception
and the kernel is still to run. No sketch's buffer is involved there. By the same
reasoning, though not in that trace, a merge whose `unique_sorted` cannot allocate (171)
leaves the merge of the two operands' hashes (224) in the stream. `theta_streams`
therefore assumes a client that synchronizes the stream of a call that threw; with one
that does not, and destroys an operand on another stream, `NoInvalidAccess` fails as well.

`basic_sketch_test.cu:106` of the HLL tests says that the lower bound is at most the
estimate. `get_lower_bound` is the larger of the scaled estimate and the number of
nonzero registers (`sketch_impl.hpp` 237), and the interpolated estimate can be less
than that number: for lg_k = 4, six zeros and ten ones, the estimate is about 9.2 and the
lower bound 10. `hll_bounds` shows it. (The CPU library has the same formula.)

Two more were met on the way and have no run. `reduction_state.hpp:47-51` says that
`cur_min` is the least nonzero value of an array without zeros, and `num_at_cur_min` the
number of registers that have it. `reduce_hll8` leaves `cur_min` at 0 (line 88) and counts
zeros (95), so the count of such an array is 0: an image of the registers 2 and 3, which
`hll_streams` reaches, says 0 where the comment asks for 1. Lines 59-68 of the same file
describe what the code does, and why (the CPU's HLL_8 sketch does it too). The modules
follow the code: `ImageConsistent` asks for the number of zeros, with or without any.

`hll.hpp:168-169` calls the compact and the updatable image
byte-identical, and `hll.hpp:180-182` excepts the compact bit of the flags byte, as the
code does (`sketch_impl.hpp` 141, `preamble.hpp` 82).

## Proofs

All theorems hold for every value of the constants that satisfies the
modules' named assumptions, which TLC evaluates on the instances above:

* `PolicyAssumption`, `UpdateAssumption`, `SketchAssumption`, `ScreenAssumption`,
  `ImageAssumption`: positive k, budget, tuning and grid sizes; keys that are hashes;
  a sampling theta of at least 1; images from elsewhere have the bytes that their
  size says.
* `TableAssumption`, `RawEstimatesAssumption`: a row of at least four ascending
  nodes, and arguments inside it, which is what `composite_estimate` guarantees
  before it interpolates.
* `StreamsAssumption`: `None` is no stream, sketch, buffer or name.
* `ArraysAssumption`: positive k, sampling thetas of at least 1, any surplus of survivors.
* HLL's `PolicyAssumption`: hashes of at least two bits and precisions up to 21.
  `ImageAssumption`: the accumulators are split at one of the register values.
* `KeyAssumption`, `SamplingAssumption`: widths below the widest; a format of floats that
  fits in that of doubles, as single does in double precision; a double as long as
  the widest word; thresholds longer than a double's mantissa, and not longer than a
  float's exponents reach.
* `PowerAssumption` (two modules), `KeyPowers`, `SamplingPowers`: 2^(n + 1) = 2 * 2^n for the
  exponents that occur (and 2^0 = 1), since the provers know no more of powers. Everything
  else about powers of two is proved from that.

Two theorems have a hypothesis about their environment. `NoSeedCollision` (no two
seeds in use share a seed hash) is true of `combining` and false of `seed_collision`;
`SettlesAfterThrow` is true of `theta_streams` and false of `theta_throw`. The violated
runs show that neither can be dropped.

* `ThetaPolicyProofs`. `NthExists`: an ascending array has an element number n
  if it is longer than n. `InstallSummarizes`: what `install` keeps of a set
  of screened hashes is a summary. `SummaryUnique`: there is one only, so the
  parity properties determine the sketch.
* `ThetaUpdateProofs`. The inductive invariant `IInv` is `TypeOK`, `ChunkFits`,
  `Parity`, `FirstChunkAtomic`, `EmptyIffNothingSeen` and `PhaseInv`. `PhaseInv`
  is what is needed on top: between `Screen` and `Install` the work buffer holds
  exactly the chunk's survivors at the current theta (with the retained hashes
  after `Fold`), and a chunk that is committed or skipped left either nothing
  to install or an installed result. From it follow the safety
  properties, `Discards`, and the refinement of `ThetaAbsorb`.
* `ThetaScreenProofs`. Three invariants, each on top of the one before. `StageInv`: the
  lanes of a warp are where the collectives require them to be, the keys that are
  still to come are those of the remaining tiles, and nothing reads the filter before
  every warp of the block has cleared it. `RunInv`: reserved runs end at or below the
  counter, those of different warps are disjoint, and every slot below the counter is
  written or is still to be written by one warp; from it `SlotsWrittenOnce`.
  `AccountInv`: there is a set L of positions of survivors, as many as the counter
  says, such that every hash that a filter cell may yield, and every survivor that a
  warp has passed, is that of a position in L or is kept by a warp that has still to
  reserve its run. L exists, but the program does not keep it, so it is
  quantified in the invariant rather than added to the state. When all warps are done nothing is in flight, and the counter
  is the size of L: `ScreenCorrect`.
* `ThetaSketchProofs`. `IInv` joins the type invariant with `Sound`: each sketch
  holds the hashes below theta of what it represents, is exact when it claims
  to be, and is the summary of its stream if it has one. There is a lemma for each
  kind of operation (`AbsorbSound`, `MergeSound`, `FreshSound`, `RetainSound`), and
  `StepIInv` puts them together. `UnionOrderDoesNotShow` needs more than `IInv`: a
  union of estimating sketches depends on how many hashes each has.
  `ThetaBounded` adds that theta never exceeds the sampling threshold and that an
  empty sketch is at it: a merge with an empty sketch never raises theta, so both
  groupings are the truncation of one set.
* `ThetaStreamsProofs`. The proof has three layers. First, a logic for the host programs:
  an account says which scratch buffers there are, which hold data or will once the
  queue is done, whether work may be pending and what was rebound; `Permits` says
  what each instruction requires of the account and leaves. `Earns(p, x, y)`: program p
  runs from account x to y with every instruction permitted, whatever the data decide;
  it is the greatest such relation, so no induction over programs is needed. One
  lemma for each function of the code (`CompactEarns`, `MergeEarns`, `InstallEarns`,
  ...) composes the programs of the calls (`UpdateEarns` to `LoadEarns`). Second, `InOrder`:
  what the queues hold, whichever stream runs next. A buffer is allocated once, and
  only while it is not; it is released once, behind everything that allocates or
  writes it and only if it has no owner; the tasks that still
  write an owned buffer are on the stream of the call. Each effect on the queues
  (a task done, a task queued, buffers freed) has its lemmas. Third, `Inv`: some account
  fits the call in progress, and the queues are in order for it. It gives all four
  properties; `NoLeak`, `FreedOnOwnStream` and the type invariant for every client, the other
  two for one with `SettlesAfterThrow`.
* `ThetaArraysProofs`. First what every primitive returns: `RadixSortedIs` (a stable sort by
  the low bits sorts if they are all the bits there are), `RunHeadsIs` and
  `CompactedIs` (`unique` leaves each value of a sorted buffer once), `MergedKeysIs`,
  `BinarySearchIs`, `SelectIs`. Each says that the buffer holds the set it should
  (`Holding`), in ascending order. Then what every operation does (`InstallIs`,
  `FoldedIs`, `MergedIs`, `RetainedOfIs`, `LoadedIs`). The invariant is that every array is
  `Lawful`: ascending, below theta, at most k long, and bare when the empty flag is set;
  without the order a merge or a search returns anything, without the bound the sort
  looks at too few bits. The arrays of a lawful state do what the sets do
  (`StepIs`), which gives `ArraysOrdered` and `ArraysImplementSets`.
* `InputOutputProofs`, images. `AcceptedIsLegal`: the checks imply
  a legal sketch; its first step, `EntriesPresent`, is that the size check
  covers every word that is read. `Layouts` and `ReadBack` go through the three
  layouts; `WrittenIsRead` is the round trip. The invariant adds that an image
  marked as the sketch's own is the one `Serialized` gives.
* `InputOutputProofs`, interpolation. `SearchInv`: the argument stays between the nodes
  `left` and `right`, which differ. `WindowIsCentred` follows where the search ends, and
  `SearchComputes` compares the result of the search with the interval defined
  directly. `NodesAreMet` is the part of `BetweenNodes` that every ascending row has: at a node
  all products of distances but one are zero, so neighbouring windows agree there.
* `InputOutputProofs`, keys. `IntegralWord` and `WordsAgree`: a word is the residue of the
  integer it stands for, in both sketches. For floating point, `NumberTells` says that a
  pattern is determined by its number, but for the sign of zero; `NumbersAreWritten` and
  `Representable`, that the numbers of a format are those of so many significant bits in
  so wide a range; `WidenedExists`, that therefore every float is a double, which
  `Widened` only chooses. `KeysHashLikeTheCpu` and `KeysCountOnce` follow.
* `InputOutputProofs`, sampling. `MaxThetaRounds`: `max_theta`, as a double, is 2^Width.
  `ThresholdStays`: the threshold of a probability has no more bits than the probability,
  so it needs no rounding; `CheckedIs` and `ReportedBelowOne` are the arithmetic of the
  way there and back. `DocumentedRange` and `ProbabilityReported` follow.
* `HllSketchProofs`. `Base` is the shape of the state: who owns a task, which
  sketches are cleared before they are used, that a load is alone on its sketch.
  `NoMore`: registers, pieces of work and snapshots do not exceed
  what was given (`may`). `NoLess`: what the client knows of a register is there, or is
  supplied by tasks queued before anything that could show it. A merge that has not
  read its register yet is supposed to bring at least a floor, the value its source was
  known to have when the merge was queued; the floors are not in the program, and the
  invariant says that some exist. `AnswerOK`
  carries both to the last answer. From them follow `AnswersCorrect`,
  `EmptyCorrect` and `Convergence`, and from `Base` alone `NeverLower`. An image is
  made of one copy of the registers, so `ImagesConsistent` is about a single array: `SumAdds`
  says that a sum over a set does not depend on the order in which its elements are
  taken, and `SumsInParts` that the two accumulators together are the sum of the
  inverse powers, wherever they are split. `CouponsAgree` is the
  arithmetic: the maximum of the coupons is the array of the CPU sketch.

The inductive invariants were checked by TLC before they were proved, with explicit
history in place of what the proofs quantify over: the floors of `HllSketch` in 1.6
million states, the accounts of `ThetaStreams` in 1.8 million with a client that
synchronizes after an exception and 1.5 million with one that does not.

Induction. The library's induction theorems take a predicate as a parameter, which
no installed prover instantiates. Where a fact needs induction (powers, sums, sorting,
the rounds of a search) the proof takes the least counterexample instead (`LeastNumber`,
`LeastElement`, `SmallestSet`) and refutes it, and shows by the same argument that
a function defined by recursion exists (`Rounds`, `SumsExist`, `FoldsExist`).

Checked by TLC only:

* liveness: `UpdateReturns`, `Terminates`, `Returns` (TLAPS has no rules for
  fairness);
* `BetweenNodes` between the nodes, `RisesInOrder`, `ZeroMeansEmpty` and
  `BoundsDoNotCross`: they depend on the numbers in the table, and fail for some ascending
  rows. A proof would be the evaluation that TLC does.

The type invariants of `ThetaUpdate`, `ThetaScreen`, `ThetaStreams` (all proved),
`HllEstimator`, `HllInterpolation`, `KeyNormalization` and `ThetaSampling` belong to no
run.

## What is not modelled, and what is left

Everything that changes state is modelled, and every safety property that a run checks is
proved, but for the four that depend on the numbers of the table. What is left is more
rows of the table than that of lg_k = 4, and a proof that the formulas of the estimator
take turns for a row with the curvature these rows have.

Never modelled: the lifetime of an HLL sketch's registers, which `cuco::hyperloglog`
owns (`Free` in `HllSketch` stands in the queue, and takes no memory away); rounding
of double precision beyond what the modules above say, the other rows of the
interpolation table, the bounds of the Theta estimate and the relative errors of HLL
(an external library), the hash function, the iterators and types of C++, tests,
benchmarks, build files. `cuco::hyperloglog`, CUB and the CUDA runtime are external;
their behaviour is taken from how this code uses them.
