----------------------------- MODULE ThetaImage -----------------------------
(***************************************************************************)
(* The compact image of a Theta sketch: serialize_compact_v3 writes it,    *)
(* parse_compact_v3 and load_compact read it back, or images from          *)
(* elsewhere (the CPU library, storage, a damaged copy).                   *)
(*                                                                         *)
(* An image is the bytes of its first 8-byte word, the words after it, and *)
(* its size in bytes, which need not be a multiple of 8.  Here the order   *)
(* of the entries matters, so the device buffer is a sequence.             *)
(***************************************************************************)
EXTENDS Integers, Sequences

CONSTANTS
  MaxTheta,    \* max_theta
  MaxWord,     \* the largest 64-bit word
  CountRange,  \* values of the 32-bit count field
  K,           \* nominal k of the sketch
  SeedHash,    \* compute_seed_hash of its seed
  Foreign      \* images from elsewhere

Words == 0 .. MaxWord

Flags == {"big_endian", "read_only", "empty", "compact", "ordered"}

Images ==
  [preamble_longs : Nat, version : Nat, type : Nat, flags : SUBSET Flags,
   seed_hash : Nat, body : Seq(Words), size : Nat]

ASSUME ImageAssumption ==
  /\ MaxTheta \in Nat \ {0}
  /\ MaxWord \in Nat /\ MaxTheta <= MaxWord
  /\ K \in Nat \ {0}
  /\ CountRange \in Nat /\ K < CountRange /\ CountRange <= MaxWord + 1
  /\ SeedHash \in Nat
  /\ \A i \in Foreign : i \in Images /\ i.size \div 8 <= Len(i.body) + 1

UncompressedVersion == 3
SketchType == 3

VARIABLES
  sketch,   \* entries, theta_ and is_empty_ of the sketch
  initial,  \* initial_theta_
  image,    \* the bytes last written or received
  own       \* history: the image was written by the sketch as it is

vars == <<sketch, initial, image, own>>

-----------------------------------------------------------------------------
(* Writing.                                                                *)

EffectiveTheta(s) == IF s.is_empty THEN MaxTheta ELSE s.theta

\* Faulty variant: everything short of two entries is written without a count.
PreambleLongsOfFew(s) ==
  IF ~s.is_empty /\ EffectiveTheta(s) < MaxTheta THEN 3
  ELSE IF Len(s.entries) <= 1 THEN 1 ELSE 2

\* Estimation images carry theta, and single entries no count.
PreambleLongs(s) ==
  IF ~s.is_empty /\ EffectiveTheta(s) < MaxTheta THEN 3
  ELSE IF s.is_empty \/ Len(s.entries) = 1 THEN 1 ELSE 2

Serialized(s) ==
  LET longs == PreambleLongs(s)
      count == IF longs > 1 THEN <<Len(s.entries) % CountRange>> ELSE <<>>
      theta == IF longs = 3 THEN <<EffectiveTheta(s)>> ELSE <<>>
      body  == count \o theta \o s.entries
  IN  [preamble_longs |-> longs, version |-> UncompressedVersion,
       type |-> SketchType,
       flags |-> {"read_only", "compact", "ordered"}
                   \cup (IF s.is_empty THEN {"empty"} ELSE {}),
       seed_hash |-> SeedHash, body |-> body, size |-> 8 * (1 + Len(body))]

-----------------------------------------------------------------------------
(* Reading.                                                                *)

IsEmpty(i) == "empty" \in i.flags

Count(i) ==
  IF IsEmpty(i) THEN 0
  ELSE IF i.preamble_longs = 1 THEN 1 ELSE i.body[1] % CountRange

Theta(i) == IF i.preamble_longs = 3 THEN i.body[2] ELSE MaxTheta

\* Entry n of the image, counted from 1 as sequences are.
Entry(i, n) == i.body[i.preamble_longs - 1 + n]

\* The checks of the fixed part, which guard the reads that follow.
HeaderValid(i) ==
  /\ i.size >= 8
  /\ i.preamble_longs \in 1 .. 3
  /\ i.size >= 8 * i.preamble_longs
  /\ i.version = UncompressedVersion
  /\ i.type = SketchType
  /\ "big_endian" \notin i.flags
  /\ {"compact", "ordered"} \subseteq i.flags
  /\ IF IsEmpty(i) THEN i.preamble_longs = 1 ELSE i.seed_hash = SeedHash

ThetaValid(i) ==
  /\ Theta(i) \in 1 .. MaxTheta
  /\ i.preamble_longs = 3 => Theta(i) # MaxTheta

SizeValid(i) == i.size = 8 * i.preamble_longs + 8 * Count(i)

\* Faulty variant: the strict order is not asked for.
EntriesValidUnordered(i) ==
  \A n \in 1 .. Count(i) : Entry(i, n) # 0 /\ Entry(i, n) < Theta(i)

EntriesValid(i) ==
  \A n \in 1 .. Count(i) :
    /\ Entry(i, n) # 0 /\ Entry(i, n) < Theta(i)
    /\ n # 1 => Entry(i, n - 1) < Entry(i, n)

\* parse_compact_v3 returns, and load_compact does not throw.
Accepted(i) ==
  /\ HeaderValid(i)
  /\ ThetaValid(i)
  /\ SizeValid(i)
  /\ EntriesValid(i)
  /\ Count(i) <= K

\* What load_compact installs; install truncates nothing, as Count(i) <= K.
Loaded(i) ==
  [entries  |-> [n \in 1 .. Count(i) |-> Entry(i, n)],
   theta    |-> IF IsEmpty(i) THEN MaxTheta ELSE Theta(i),
   is_empty |-> IsEmpty(i)]

-----------------------------------------------------------------------------

SketchStates ==
  [entries : UNION {[1 .. n -> 1 .. MaxTheta] : n \in 0 .. K},
   theta : 1 .. MaxTheta, is_empty : BOOLEAN]

Legal(s, ini) ==
  /\ \A n \in 1 .. Len(s.entries) :
       /\ s.entries[n] < s.theta
       /\ n # 1 => s.entries[n - 1] < s.entries[n]
  /\ s.is_empty => s.entries = <<>> /\ s.theta = ini

\* The sketches that the other operations produce, with their initial theta.
Computed ==
  {m \in SketchStates \X (1 .. MaxTheta) : Legal(m[1], m[2])}

Fresh(t) == [entries |-> <<>>, theta |-> t, is_empty |-> TRUE]

Init ==
  /\ initial \in 1 .. MaxTheta
  /\ sketch = Fresh(initial)
  /\ image \in Foreign
  /\ own = FALSE

\* Updates, set operations and resets, and a new sketch with any sampling.
Compute(s, ini) ==
  /\ sketch' = s
  /\ initial' = ini
  /\ own' = FALSE
  /\ UNCHANGED image

\* serialize_compact
Serialize ==
  /\ image' = Serialized(sketch)
  /\ own' = TRUE
  /\ UNCHANGED <<sketch, initial>>

\* deserialize: a new sketch is constructed, with p = 1, and loaded; a throw
\* leaves no sketch behind.
Deserialize ==
  /\ Accepted(image)
  /\ sketch' = Loaded(image)
  /\ initial' = MaxTheta
  /\ UNCHANGED <<image, own>>

Next ==
  \/ \E m \in Computed : Compute(m[1], m[2])
  \/ Serialize
  \/ Deserialize

Spec == Init /\ [][Next]_vars

-----------------------------------------------------------------------------
(* Properties.                                                             *)

\* Whatever bytes an image consists of, a sketch read from it is one that the
\* operations could have made: strictly ordered, below theta, at most k
\* entries, none if empty (preamble.hpp 98-175, sketch_impl.hpp 417-420).
ImportsAreLegal ==
  /\ sketch \in SketchStates
  /\ initial \in 1 .. MaxTheta
  /\ Legal(sketch, initial)

\* An image never denies what was written: it is accepted by a sketch of the
\* same seed and k, means the same, and written again it is the same bytes.
\* This holds at the boundaries of the three layouts: empty but sampled, exact
\* with no, one and two entries, and estimating with none (preamble.hpp 70-86,
\* 135-146).
RoundTrip ==
  own =>
    /\ Accepted(image)
    /\ Loaded(image) = [sketch EXCEPT !.theta = EffectiveTheta(sketch)]
    /\ Serialized(Loaded(image)) = image
=============================================================================
