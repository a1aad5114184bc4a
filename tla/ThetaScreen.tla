---------------------------- MODULE ThetaScreen ----------------------------
(***************************************************************************)
(* screen_kernel: the threads of a grid hash a range of keys, drop what    *)
(* theta or the two duplicate filters exclude, and compact the survivors   *)
(* into a buffer of limited capacity while counting all of them.           *)
(*                                                                         *)
(* Warps interleave freely, and so do the lanes of a warp between two      *)
(* points at which the code makes them converge.  A key is represented by  *)
(* its hash.  A warp is a pair <<block, number in the block>>.             *)
(***************************************************************************)
EXTENDS ThetaPolicy, Sequences, Functions

CONSTANTS
  Theta,      \* theta of the sketch, a kernel argument
  Blocks,     \* the largest grid
  Warps,      \* warps of a block
  WarpWidth,  \* lanes of a warp
  Items,      \* tuning: items_per_thread
  Slots,      \* tuning: filter_slots
  Launches    \* [keys, grid, capacity] of the launches considered

ASSUME ScreenAssumption ==
  /\ Theta \in 1 .. MaxTheta
  /\ {Blocks, Warps, WarpWidth, Items, Slots} \subseteq Nat \ {0}
  /\ \A r \in Launches : /\ r.keys \in Seq(Hashes)
                         /\ r.grid \in 1 .. Blocks
                         /\ r.capacity \in 0 .. Len(r.keys)

Warp == (0 .. Blocks - 1) \X (0 .. Warps - 1)
Lane == 0 .. WarpWidth - 1
Item == 0 .. Items - 1
Slot == 0 .. Slots - 1

BlockThreads == Warps * WarpWidth
TileKeys     == BlockThreads * Items

VARIABLES
  launch,     \* the kernel's arguments and its grid
  pc,         \* where each warp is
  base,       \* first key of the warp's tile
  item,       \* item the warp's lanes are at
  waiting,    \* lanes with a filter load, or writes, still to do
  storing,    \* lanes between their filter load and their filter store
  kept,       \* <<lane, item>> whose hash is nonzero in the register array
  warp_base,  \* start of the run the warp reserved
  filter,     \* filter[b][s]: the values a load of the cell may observe
  out_count,
  out         \* the written part of the output buffer

vars == <<launch, pc, base, item, waiting, storing, kept, warp_base, filter,
          out_count, out>>

-----------------------------------------------------------------------------

\* The hash a lane computes for an item; past the input it computes none.
HashOf(w, l, i) ==
  LET idx == base[w] + i * BlockThreads + w[2] * WarpWidth + l
  IN  IF idx < Len(launch.keys) THEN launch.keys[idx + 1] ELSE 0

Hash(w, l) == HashOf(w, l, item[w])

SlotOf(h) == h % Slots

\* __match_any_sync: the first lane of the warp with each surviving hash.
Leaders(w) ==
  {l \in Lane : /\ ScreenHash(Theta, Hash(w, l))
                /\ \A m \in 0 .. l - 1 : Hash(w, m) # Hash(w, l)}

\* Faulty variant: a warp goes on before the others have cleared their share.
ClearedByItself(b) == TRUE

\* __syncthreads after the filter is cleared.
Cleared(b) == \A n \in 0 .. Warps - 1 : pc[<<b, n>>] # "clear"

\* Faulty variant: lanes ignore the scan of what the lanes before them keep.
CursorUnscanned(w, l, i) ==
  warp_base[w] + Cardinality({p \in kept[w] : p[1] = l /\ p[2] < i})

\* The exclusive sum over the warp, then the lane's own items in order.
Cursor(w, l, i) ==
  warp_base[w]
    + Cardinality({p \in kept[w] : p[1] < l \/ (p[1] = l /\ p[2] < i)})

Writable(c) == c < launch.capacity

\* Faulty variant: the continue of an idle warp skips the stride.
NextTileOnceKept(w) ==
  IF kept[w] = {} THEN base[w] ELSE base[w] + launch.grid * TileKeys

NextTile(w) == base[w] + launch.grid * TileKeys

AtTile(b) == IF b < Len(launch.keys) THEN "match" ELSE "done"

-----------------------------------------------------------------------------

\* Shared memory starts with arbitrary contents, the output with none.
Init ==
  /\ launch \in Launches
  /\ pc = [w \in Warp |-> IF w[1] < launch.grid THEN "clear" ELSE "done"]
  /\ base = [w \in Warp |-> w[1] * TileKeys]
  /\ item = [w \in Warp |-> 0]
  /\ waiting = [w \in Warp |-> {}]
  /\ storing = [w \in Warp |-> {}]
  /\ kept = [w \in Warp |-> {}]
  /\ warp_base = [w \in Warp |-> 0]
  /\ filter = [b \in 0 .. Blocks - 1 |-> [s \in Slot |-> Hashes]]
  /\ out_count = 0
  /\ out = <<>>

\* The warp's threads zero their share of the filter.
Clear(w) ==
  /\ pc[w] = "clear"
  /\ filter' = [filter EXCEPT ![w[1]] =
       [s \in Slot |-> IF (s % BlockThreads) \div WarpWidth = w[2] THEN {0} ELSE @[s]]]
  /\ pc' = [pc EXCEPT ![w] = "sync"]
  /\ UNCHANGED <<launch, base, item, waiting, storing, kept, warp_base,
                 out_count, out>>

Sync(w) ==
  /\ pc[w] = "sync"
  /\ Cleared(w[1])
  /\ pc' = [pc EXCEPT ![w] = AtTile(base[w])]
  /\ UNCHANGED <<launch, base, item, waiting, storing, kept, warp_base, filter,
                 out_count, out>>

\* Stage one, which all lanes of the warp enter together.
Match(w) ==
  /\ pc[w] = "match"
  /\ waiting' = [waiting EXCEPT ![w] = Leaders(w)]
  /\ pc' = [pc EXCEPT ![w] = "filter"]
  /\ UNCHANGED <<launch, base, item, storing, kept, warp_base, filter,
                 out_count, out>>

\* Stage two, the relaxed load: stale values may be observed, but none that was
\* never there.
Load(w, l) ==
  /\ pc[w] = "filter"
  /\ l \in waiting[w]
  /\ waiting' = [waiting EXCEPT ![w] = @ \ {l}]
  /\ \E seen \in filter[w[1]][SlotOf(Hash(w, l))] :
       storing' = IF seen # Hash(w, l) THEN [storing EXCEPT ![w] = @ \cup {l}]
                  ELSE storing
  /\ UNCHANGED <<launch, pc, base, item, kept, warp_base, filter, out_count, out>>

\* The relaxed store, after which the lane keeps its hash.
Store(w, l) ==
  /\ l \in storing[w]
  /\ storing' = [storing EXCEPT ![w] = @ \ {l}]
  /\ filter' = [filter EXCEPT ![w[1]][SlotOf(Hash(w, l))] = @ \cup {Hash(w, l)}]
  /\ kept' = [kept EXCEPT ![w] = @ \cup {<<l, item[w]>>}]
  /\ UNCHANGED <<launch, pc, base, item, waiting, warp_base, out_count, out>>

\* The lanes converge again, for the next item or for the warp scan.
NextItem(w) ==
  /\ pc[w] = "filter"
  /\ waiting[w] = {}
  /\ storing[w] = {}
  /\ IF item[w] + 1 < Items
     THEN /\ item' = [item EXCEPT ![w] = @ + 1]
          /\ pc' = [pc EXCEPT ![w] = "match"]
     ELSE /\ item' = [item EXCEPT ![w] = 0]
          /\ pc' = [pc EXCEPT ![w] = "reserve"]
  /\ UNCHANGED <<launch, base, waiting, storing, kept, warp_base, filter,
                 out_count, out>>

\* Lane 0 reserves a run for the whole warp, if the warp keeps anything.
Reserve(w) ==
  /\ pc[w] = "reserve"
  /\ pc' = [pc EXCEPT ![w] = "write"]
  /\ IF kept[w] = {}
     THEN UNCHANGED <<warp_base, out_count, waiting>>
     ELSE /\ warp_base' = [warp_base EXCEPT ![w] = out_count]
          /\ out_count' = out_count + Cardinality(kept[w])
          /\ waiting' = [waiting EXCEPT ![w] = {p[1] : p \in kept[w]}]
  /\ UNCHANGED <<launch, base, item, storing, kept, filter, out>>

\* A lane writes the items it kept, as far as the capacity reaches.
Write(w, l) ==
  /\ pc[w] = "write"
  /\ l \in waiting[w]
  /\ waiting' = [waiting EXCEPT ![w] = @ \ {l}]
  /\ LET mine == {i \in Item : <<l, i>> \in kept[w]}
         run  == {c \in {Cursor(w, l, i) : i \in mine} : Writable(c)}
     IN  out' = [c \in run \cup DOMAIN out |->
                   IF c \in run
                   THEN HashOf(w, l, CHOOSE i \in mine : Cursor(w, l, i) = c)
                   ELSE out[c]]
  /\ UNCHANGED <<launch, pc, base, item, storing, kept, warp_base, filter,
                 out_count>>

\* The head of the stride loop.
Advance(w) ==
  /\ pc[w] = "write"
  /\ waiting[w] = {}
  /\ base' = [base EXCEPT ![w] = NextTile(w)]
  /\ kept' = [kept EXCEPT ![w] = {}]
  /\ pc' = [pc EXCEPT ![w] = AtTile(base'[w])]
  /\ UNCHANGED <<launch, item, waiting, storing, warp_base, filter, out_count, out>>

Done == \A w \in Warp : pc[w] = "done"

\* The grid has finished; the host reads the result.
Finished == Done /\ UNCHANGED vars

Next ==
  \/ \E w \in Warp :
       \/ Clear(w) \/ Sync(w) \/ Match(w) \/ NextItem(w) \/ Reserve(w) \/ Advance(w)
       \/ \E l \in Lane : Load(w, l) \/ Store(w, l) \/ Write(w, l)
  \/ Finished

\* A launched grid keeps running: some thread that can make a step makes one.
Spec == Init /\ [][Next]_vars /\ WF_vars(Next)

-----------------------------------------------------------------------------
(* Properties.                                                             *)

\* Every variable keeps to its type; in particular nothing is written past the
\* capacity, and never the sentinel (screen.cuh 114-118).
TypeOK ==
  /\ launch \in Launches
  /\ pc \in [Warp -> {"clear", "sync", "match", "filter", "reserve", "write", "done"}]
  /\ base \in [Warp -> Nat]
  /\ item \in [Warp -> Item]
  /\ waiting \in [Warp -> SUBSET Lane]
  /\ storing \in [Warp -> SUBSET Lane]
  /\ kept \in [Warp -> SUBSET (Lane \X Item)]
  /\ warp_base \in [Warp -> Nat]
  /\ filter \in [0 .. Blocks - 1 -> [Slot -> SUBSET Hashes]]
  /\ out_count \in Nat
  /\ DOMAIN out \subseteq 0 .. launch.capacity - 1
  /\ \A c \in DOMAIN out : out[c] \in 1 .. MaxTheta

Survivors == {i \in DOMAIN launch.keys : ScreenHash(Theta, launch.keys[i])}
Distinct  == {launch.keys[i] : i \in Survivors}

\* What the host may conclude from the counter, whatever the threads' order
\* and the staleness of the filter: it is at least the number of distinct
\* survivors and at most the number of survivors, and if it does not exceed
\* the capacity the written run is exactly the set of survivors, with no slot
\* left unwritten (screen.cuh 36-41; sketch_impl.hpp 190, 291).
ScreenResult ==
  Done =>
    /\ out_count \in Cardinality(Distinct) .. Cardinality(Survivors)
    /\ DOMAIN out = 0 .. Lesser(out_count, launch.capacity) - 1
    /\ out_count <= launch.capacity => Range(out) = Distinct

\* No two lanes of the grid ever write the same slot: the runs that the warps
\* reserve with one relaxed fetch_add are disjoint, and so are the lanes'
\* parts of them (screen.cuh 102-120).
WrittenOnce ==
  [][\A w \in Warp, l \in Lane :
       Write(w, l) =>
         \A i \in Item : <<l, i>> \in kept[w] => Cursor(w, l, i) \notin DOMAIN out]_vars

\* The kernel terminates: no lane waits for one that never comes, and the
\* stride loop leaves no tile twice (screen.cuh 67, 72-74).
Terminates == <>Done
=============================================================================
