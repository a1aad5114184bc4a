------------------------- MODULE ThetaScreenProofs -------------------------
(***************************************************************************)
(* The screen kernel, for every grid, block and warp size, tuning, launch  *)
(* and interleaving of the lanes.                                          *)
(***************************************************************************)
EXTENDS ThetaScreen, ThetaPolicyProofs, FunctionTheorems

(***************************************************************************)
(* Where the keys of a launch are.  A key is screened by one lane of one   *)
(* warp, as one item of one tile; b is the first key of the tile.          *)
(***************************************************************************)
Place(w, b, l, i) == b + i * BlockThreads + w[2] * WarpWidth + l + 1

TileBases(w) == {(w[1] + r * launch.grid) * TileKeys : r \in Nat}

(* The grid has the warp's block.                                          *)
Active(w) == w[1] < launch.grid

-----------------------------------------------------------------------------
(* Division with a variable divisor.                                       *)

(* The number with quotient q and remainder r.                             *)
Number(n, q, r) == q * n + r

LEMMA QuotientUnique ==
  ASSUME NEW n \in Nat \ {0}, NEW q \in Int, NEW p \in Int,
         NEW r \in 0 .. n - 1, NEW s \in 0 .. n - 1, Number(n, q, r) = Number(n, p, s)
  PROVE  q = p /\ r = s
<1>1. ASSUME NEW a \in Int, NEW b \in Int, NEW c \in 0 .. n - 1, NEW d \in 0 .. n - 1,
             a * n + c = b * n + d, a < b
      PROVE  FALSE
  <2>1. (b - a) * n = c - d
    BY <1>1
  <2>2. b - a >= 1 /\ b - a \in Nat
    BY <1>1
  <2>3. (b - a) * n >= n
    BY <2>2
  <2> QED BY <2>1, <2>3
<1>2. q * n + r = p * n + s
  BY DEF Number
<1>3. ~(q < p) /\ ~(p < q)
  BY <1>1, <1>2
<1> QED BY <1>2, <1>3

LEMMA QuotientExists ==
  ASSUME NEW n \in Nat \ {0}, NEW m \in Nat
  PROVE  \E q \in Nat, r \in 0 .. n - 1 : m = Number(n, q, r)
<1>1. PICK q \in Int, r \in 0 .. n - 1 : m = q * n + r
  <2>1. m = (m \div n) * n + (m % n) /\ m % n \in 0 .. n - 1 /\ m \div n \in Int
    OBVIOUS
  <2> QED BY <2>1
<1>2. ASSUME q < 0 PROVE FALSE
  <2>1. PICK a \in Nat : a = -1 - q
    BY <1>2
  <2>2. a * n >= 0 /\ a * n \in Int
    OBVIOUS
  <2>3. q = -1 - a
    BY <2>1
  <2>4. q * n = -n - a * n
    BY <2>3
  <2> QED BY <1>1, <2>2, <2>4
<1> QED BY <1>1, <1>2 DEF Number

(* A quotient below m gives a number below m * n, and the other way round. *)
LEMMA NumberBound ==
  ASSUME NEW m \in Nat \ {0}, NEW n \in Nat \ {0},
         NEW a \in 0 .. m - 1, NEW c \in 0 .. n - 1
  PROVE  Number(n, a, c) \in 0 .. m * n - 1
<1>1. (m - 1 - a) * n >= 0 /\ a * n >= 0
  OBVIOUS
<1> QED BY <1>1 DEF Number

LEMMA QuotientBound ==
  ASSUME NEW m \in Nat \ {0}, NEW n \in Nat \ {0}, NEW x \in Nat, x < Number(n, m, 0)
  PROVE  \E a \in 0 .. m - 1, c \in 0 .. n - 1 : x = Number(n, a, c)
<1>1. PICK a \in Nat, c \in 0 .. n - 1 : x = Number(n, a, c)
  BY QuotientExists
<1>2. ASSUME a >= m PROVE FALSE
  <2>1. (a - m) * n >= 0
    BY <1>2
  <2> QED BY <1>1, <2>1 DEF Number
<1> QED BY <1>1, <1>2

LEMMA Sizes ==
  /\ Blocks \in Nat \ {0} /\ Warps \in Nat \ {0} /\ WarpWidth \in Nat \ {0}
  /\ Items \in Nat \ {0} /\ Slots \in Nat \ {0}
  /\ BlockThreads \in Nat \ {0} /\ TileKeys \in Nat \ {0}
<1>1. \A x, y \in Nat \ {0} : x * y \in Nat \ {0}
  OBVIOUS
<1>2. /\ Blocks \in Nat \ {0} /\ Warps \in Nat \ {0} /\ WarpWidth \in Nat \ {0}
      /\ Items \in Nat \ {0} /\ Slots \in Nat \ {0}
  BY ScreenAssumption
<1> QED BY <1>1, <1>2 DEF BlockThreads, TileKeys

-----------------------------------------------------------------------------
(* Every key has exactly one place.                                        *)

LEMMA WarpParts ==
  ASSUME NEW w \in Warp
  PROVE  /\ w[1] \in 0 .. Blocks - 1 /\ w[2] \in 0 .. Warps - 1
         /\ w = <<w[1], w[2]>>
  BY DEF Warp

(* The position of a lane in its block, and of an item in its tile.        *)
Thread(w, l) == Number(WarpWidth, w[2], l)
Position(w, l, i) == Number(BlockThreads, i, Thread(w, l))

LEMMA PositionInTile ==
  ASSUME NEW w \in Warp, NEW l \in Lane, NEW i \in Item
  PROVE  /\ Thread(w, l) \in 0 .. BlockThreads - 1
         /\ Position(w, l, i) \in 0 .. TileKeys - 1
<1>1. w[2] \in 0 .. Warps - 1 /\ l \in 0 .. WarpWidth - 1 /\ i \in 0 .. Items - 1
  BY WarpParts DEF Lane, Item
<1>2. Thread(w, l) \in 0 .. BlockThreads - 1
  BY <1>1, Sizes, NumberBound DEF BlockThreads, Thread
<1>3. Position(w, l, i) \in 0 .. Items * BlockThreads - 1
  BY <1>1, <1>2, Sizes, NumberBound DEF Position
<1>4. Items * BlockThreads = TileKeys
  BY Sizes DEF TileKeys
<1> QED BY <1>2, <1>3, <1>4

LEMMA PlaceIsNumber ==
  ASSUME launch.grid \in Nat, NEW w \in Warp, NEW q \in Nat, NEW b, 
         b = (w[1] + q * launch.grid) * TileKeys,
         NEW l \in Lane, NEW i \in Item
  PROVE  Place(w, b, l, i)
           = Number(TileKeys, Number(launch.grid, q, w[1]), Position(w, l, i)) + 1
<1>1. w[1] \in Int /\ w[2] \in Int /\ l \in Int /\ i \in Int
  BY WarpParts, Sizes DEF Lane, Item
<1>2. i * BlockThreads \in Int /\ w[2] * WarpWidth \in Int /\ q * launch.grid \in Int
  BY <1>1, Sizes
<1>3. b \in Int /\ b = Number(launch.grid, q, w[1]) * TileKeys
  BY <1>1, <1>2, Sizes DEF Number
<1>4. Position(w, l, i) = i * BlockThreads + (w[2] * WarpWidth + l)
  BY DEF Position, Thread, Number
<1> QED BY <1>1, <1>2, <1>3, <1>4 DEF Place, Number

LEMMA PlaceUnique ==
  ASSUME launch.grid \in Nat \ {0},
         NEW w \in Warp, Active(w), NEW b \in TileBases(w), NEW l \in Lane, NEW i \in Item,
         NEW v \in Warp, Active(v), NEW c \in TileBases(v), NEW m \in Lane, NEW j \in Item,
         Place(w, b, l, i) = Place(v, c, m, j)
  PROVE  w = v /\ b = c /\ l = m /\ i = j
<1>1. PICK q \in Nat : b = (w[1] + q * launch.grid) * TileKeys
  BY DEF TileBases
<1>2. PICK p \in Nat : c = (v[1] + p * launch.grid) * TileKeys
  BY DEF TileBases
<1>3. /\ Position(w, l, i) \in 0 .. TileKeys - 1 /\ Position(v, m, j) \in 0 .. TileKeys - 1
      /\ Thread(w, l) \in 0 .. BlockThreads - 1 /\ Thread(v, m) \in 0 .. BlockThreads - 1
  BY PositionInTile
<1>4. /\ w[1] \in 0 .. launch.grid - 1 /\ v[1] \in 0 .. launch.grid - 1
      /\ w[2] \in Int /\ v[2] \in Int /\ i \in Int /\ j \in Int
      /\ l \in 0 .. WarpWidth - 1 /\ m \in 0 .. WarpWidth - 1
  BY WarpParts, Sizes DEF Active, Lane, Item
<1>5. Number(launch.grid, q, w[1]) \in Int /\ Number(launch.grid, p, v[1]) \in Int
  BY <1>4 DEF Number
<1>6. Number(TileKeys, Number(launch.grid, q, w[1]), Position(w, l, i))
        = Number(TileKeys, Number(launch.grid, p, v[1]), Position(v, m, j))
  <2>1. \A x, y \in Int : Number(TileKeys, x, y) \in Int \/ y \notin Int
    BY Sizes DEF Number
  <2>2. /\ Number(TileKeys, Number(launch.grid, q, w[1]), Position(w, l, i)) \in Int
        /\ Number(TileKeys, Number(launch.grid, p, v[1]), Position(v, m, j)) \in Int
    BY <1>3, <1>5, <2>1
  <2> QED BY <1>1, <1>2, <2>2, PlaceIsNumber
<1>7. /\ Number(launch.grid, q, w[1]) = Number(launch.grid, p, v[1])
      /\ Position(w, l, i) = Position(v, m, j)
  BY <1>3, <1>5, <1>6, Sizes, QuotientUnique
<1>8. q = p /\ w[1] = v[1]
  BY <1>4, <1>7, QuotientUnique
<1>9. i = j /\ Thread(w, l) = Thread(v, m)
  BY <1>3, <1>4, <1>7, Sizes, QuotientUnique DEF Position
<1>10. w[2] = v[2] /\ l = m
  BY <1>4, <1>9, Sizes, QuotientUnique DEF Thread
<1> QED BY <1>1, <1>2, <1>8, <1>9, <1>10, WarpParts

LEMMA PlaceExists ==
  ASSUME launch.grid \in 1 .. Blocks, NEW n \in Nat \ {0}
  PROVE  \E w \in Warp, l \in Lane, i \in Item :
           Active(w) /\ \E b \in TileBases(w) : n = Place(w, b, l, i)
<1>1. PICK e \in Nat, x \in 0 .. TileKeys - 1 : n - 1 = Number(TileKeys, e, x)
  <2>1. n - 1 \in Nat
    OBVIOUS
  <2> QED BY <2>1, Sizes, QuotientExists
<1>2. PICK i \in 0 .. Items - 1, t \in 0 .. BlockThreads - 1 : x = Number(BlockThreads, i, t)
  <2>1. x \in Nat /\ x < Number(BlockThreads, Items, 0)
    BY Sizes DEF TileKeys, Number
  <2> QED BY <2>1, Sizes, QuotientBound
<1>3. PICK u \in 0 .. Warps - 1, l \in 0 .. WarpWidth - 1 : t = Number(WarpWidth, u, l)
  <2>1. t \in Nat /\ t < Number(WarpWidth, Warps, 0)
    BY Sizes DEF BlockThreads, Number
  <2> QED BY <2>1, Sizes, QuotientBound
<1>4. PICK q \in Nat, a \in 0 .. launch.grid - 1 : e = Number(launch.grid, q, a)
  <2>1. launch.grid \in Nat \ {0}
    BY Sizes
  <2> QED BY <2>1, QuotientExists
<1> DEFINE w == <<a, u>>
           b == (a + q * launch.grid) * TileKeys
<1>5. w \in Warp /\ Active(w) /\ b \in TileBases(w) /\ l \in Lane /\ i \in Item
  <2>1. a \in 0 .. Blocks - 1 /\ a < launch.grid
    BY Sizes
  <2> QED BY <2>1 DEF Warp, Active, TileBases, Lane, Item
<1>6. Position(w, l, i) = x
  BY <1>2, <1>3 DEF Position, Thread
<1>7. b = (w[1] + q * launch.grid) * TileKeys /\ w[1] = a
  OBVIOUS
<1> HIDE DEF w, b
<1>8. Place(w, b, l, i) = Number(TileKeys, Number(launch.grid, q, w[1]), x) + 1
  <2>1. launch.grid \in Nat
    BY Sizes
  <2> QED BY <1>5, <1>6, <1>7, <2>1, PlaceIsNumber
<1>9. n = Place(w, b, l, i)
  BY <1>1, <1>4, <1>7, <1>8
<1> QED BY <1>5, <1>9

(* Between a tile and the warp's next one there is no other of its tiles.  *)
LEMMA TilesInOrder ==
  ASSUME launch.grid \in Nat \ {0}, NEW w \in Warp,
         NEW b \in TileBases(w), NEW c \in TileBases(w), c < b + launch.grid * TileKeys
  PROVE  c <= b /\ b + launch.grid * TileKeys \in TileBases(w) /\ b \in Nat
<1>1. PICK q \in Nat : b = (w[1] + q * launch.grid) * TileKeys
  BY DEF TileBases
<1>2. PICK p \in Nat : c = (w[1] + p * launch.grid) * TileKeys
  BY DEF TileBases
<1> DEFINE gt == launch.grid * TileKeys
           wt == w[1] * TileKeys
<1>3. w[1] \in Nat /\ launch.grid \in Nat /\ TileKeys \in Nat \ {0}
  BY WarpParts, Sizes
<1>4. gt \in Nat /\ gt > 0 /\ wt \in Nat
  BY <1>3
<1>5. b = wt + q * gt /\ c = wt + p * gt
  <2>1. \A a, x, g, k \in Nat : (a + x * g) * k = a * k + x * (g * k)
    OBVIOUS
  <2>2. b = wt + q * gt
    BY <1>1, <1>3, <2>1
  <2>3. c = wt + p * gt
    BY <1>2, <1>3, <2>1
  <2> QED BY <2>2, <2>3
<1>6. b + gt = (w[1] + (q + 1) * launch.grid) * TileKeys
  <2>1. PICK a \in Nat, g \in Nat, k \in Nat : a = w[1] /\ g = launch.grid /\ k = TileKeys
    BY <1>3
  <2>2. (a + q * g) * k + g * k = (a + (q + 1) * g) * k
    OBVIOUS
  <2> QED BY <1>1, <2>1, <2>2
<1>7. b + gt \in TileBases(w)
  BY <1>6 DEF TileBases
<1> HIDE DEF gt, wt
<1>8. b \in Nat
  <2>1. q * gt \in Nat
    BY <1>4
  <2> QED BY <1>4, <1>5, <2>1
<1>9. p <= q
  <2> SUFFICES ASSUME p >= q + 1 PROVE FALSE
    OBVIOUS
  <2>1. (p - (q + 1)) * gt >= 0
    BY <1>4
  <2>2. (p - (q + 1)) * gt = p * gt - q * gt - gt
    BY <1>4
  <2> QED BY <1>4, <1>5, <2>1, <2>2 DEF gt
<1>10. c <= b
  <2>1. (q - p) * gt >= 0
    BY <1>4, <1>9
  <2>2. (q - p) * gt = q * gt - p * gt
    BY <1>4
  <2> QED BY <1>4, <1>5, <2>1, <2>2
<1> QED BY <1>7, <1>8, <1>10 DEF gt

-----------------------------------------------------------------------------
(* Types, and what a lane knows of its key.                                *)

Stages == {"clear", "sync", "match", "filter", "reserve", "write", "done"}

Typed ==
  /\ launch \in Launches
  /\ pc \in [Warp -> Stages]
  /\ base \in [Warp -> Nat]
  /\ item \in [Warp -> Item]
  /\ waiting \in [Warp -> SUBSET Lane]
  /\ storing \in [Warp -> SUBSET Lane]
  /\ kept \in [Warp -> SUBSET (Lane \X Item)]
  /\ warp_base \in [Warp -> Nat]
  /\ filter \in [0 .. Blocks - 1 -> [Slot -> SUBSET Hashes]]
  /\ out_count \in Nat

LEMMA LaunchParts ==
  ASSUME launch \in Launches
  PROVE  /\ launch.keys \in Seq(Hashes) /\ Len(launch.keys) \in Nat
         /\ DOMAIN launch.keys = 1 .. Len(launch.keys)
         /\ \A n \in DOMAIN launch.keys : launch.keys[n] \in Hashes
         /\ launch.grid \in 1 .. Blocks /\ launch.grid \in Nat \ {0}
         /\ launch.capacity \in Nat
<1>1. /\ launch.keys \in Seq(Hashes) /\ launch.grid \in 1 .. Blocks
      /\ launch.capacity \in 0 .. Len(launch.keys)
  BY ScreenAssumption
<1> QED BY <1>1, Sizes

LEMMA KeptFinite ==
  ASSUME NEW S \in SUBSET (Lane \X Item)
  PROVE  IsFiniteSet(S) /\ Cardinality(S) \in Nat
<1>1. IsFiniteSet(Lane) /\ IsFiniteSet(Item)
  BY Sizes, FS_Interval DEF Lane, Item
<1>2. IsFiniteSet(Lane \X Item)
  BY <1>1, FS_Product
<1> QED BY <1>2, FS_Subset, FS_CardinalityType

(* A lane's hash is that of the key at its place, if there is one.         *)
LEMMA HashIsKey ==
  ASSUME Typed, NEW w \in Warp, NEW l \in Lane, NEW i \in Item
  PROVE  LET n == Place(w, base[w], l, i)
         IN  /\ n \in Nat \ {0}
             /\ HashOf(w, l, i) = IF n \in DOMAIN launch.keys THEN launch.keys[n] ELSE 0
             /\ HashOf(w, l, i) \in Hashes
<1> DEFINE n == Place(w, base[w], l, i)
<1>1. base[w] \in Nat /\ launch \in Launches
  BY DEF Typed
<1>2. n = base[w] + Position(w, l, i) + 1 /\ Position(w, l, i) \in Nat
  <2>1. /\ i * BlockThreads \in Int /\ w[2] * WarpWidth \in Int /\ l \in Int
    BY WarpParts, Sizes DEF Lane, Item
  <2>2. Position(w, l, i) \in Nat
    BY PositionInTile, Sizes
  <2> QED BY <1>1, <2>1, <2>2 DEF Place, Position, Thread, Number
<1>3. n \in Nat \ {0}
  BY <1>1, <1>2
<1>4. HashOf(w, l, i) = IF n - 1 < Len(launch.keys) THEN launch.keys[n] ELSE 0
  <2> DEFINE idx == base[w] + i * BlockThreads + w[2] * WarpWidth + l
  <2>1. i * BlockThreads \in Int /\ w[2] * WarpWidth \in Int /\ l \in Int
    BY WarpParts, Sizes DEF Lane, Item
  <2>2. idx \in Int /\ n = idx + 1
    BY <1>1, <2>1 DEF Place
  <2> HIDE DEF n
  <2>3. HashOf(w, l, i) = IF idx < Len(launch.keys) THEN launch.keys[idx + 1] ELSE 0
    BY DEF HashOf
  <2> HIDE DEF idx
  <2> QED BY <2>2, <2>3
<1> HIDE DEF n
<1>5. n - 1 < Len(launch.keys) <=> n \in DOMAIN launch.keys
  BY <1>1, <1>3, LaunchParts
<1>6. 0 \in Hashes
  BY PolicyAssumption DEF Hashes
<1> QED BY <1>1, <1>3, <1>4, <1>5, <1>6, LaunchParts DEF n

LEMMA LaneHash ==
  ASSUME Typed, NEW w \in Warp, NEW l \in Lane
  PROVE  Hash(w, l) \in Hashes /\ SlotOf(Hash(w, l)) \in Slot /\ item[w] \in Item
<1>1. item[w] \in Item
  BY DEF Typed
<1>2. Hash(w, l) \in Hashes
  BY <1>1, HashIsKey DEF Hash
<1>3. Hash(w, l) \in Nat
  BY <1>2, PolicyAssumption DEF Hashes
<1> QED BY <1>1, <1>2, <1>3, Sizes DEF SlotOf, Slot

LEMMA InitTyped == Init => Typed
<1> SUFFICES ASSUME Init PROVE Typed
  OBVIOUS
<1>1. /\ 0 \in Item /\ 0 \in Nat
      /\ \A w \in Warp : w[1] * TileKeys \in Nat
  <2>1. \A w \in Warp : w[1] \in Nat
    BY WarpParts
  <2> QED BY <2>1, Sizes DEF Item
<1>2. launch \in Launches /\ out_count = 0
  BY DEF Init
<1>3. pc \in [Warp -> Stages]
  BY DEF Init, Stages
<1>4. base \in [Warp -> Nat] /\ item \in [Warp -> Item]
  BY <1>1 DEF Init
<1>5. /\ waiting \in [Warp -> SUBSET Lane] /\ storing \in [Warp -> SUBSET Lane]
      /\ kept \in [Warp -> SUBSET (Lane \X Item)] /\ warp_base \in [Warp -> Nat]
  BY DEF Init
<1>6. filter \in [0 .. Blocks - 1 -> [Slot -> SUBSET Hashes]]
  BY DEF Init
<1> QED BY <1>1, <1>2, <1>3, <1>4, <1>5, <1>6 DEF Typed

LEMMA StepTyped ==
  ASSUME Typed, [Next]_vars
  PROVE  Typed'
<1>1. CASE UNCHANGED vars
  BY <1>1 DEF vars, Typed
<1>2. ASSUME NEW w \in Warp, Clear(w) PROVE Typed'
  <2>1. 0 \in Hashes
    BY PolicyAssumption DEF Hashes
  <2>2. w[1] \in 0 .. Blocks - 1
    BY WarpParts
  <2>3. filter' \in [0 .. Blocks - 1 -> [Slot -> SUBSET Hashes]]
    BY <1>2, <2>1, <2>2 DEF Clear, Typed
  <2> QED BY <1>2, <2>3 DEF Clear, Typed, Stages
<1>3. ASSUME NEW w \in Warp, Sync(w) PROVE Typed'
  BY <1>3 DEF Sync, AtTile, Typed, Stages
<1>4. ASSUME NEW w \in Warp, Match(w) PROVE Typed'
  BY <1>4 DEF Match, Leaders, Typed, Stages
<1>5. ASSUME NEW w \in Warp, NEW l \in Lane, Load(w, l) PROVE Typed'
  <2>1. storing' \in [Warp -> SUBSET Lane]
    BY <1>5 DEF Load, Typed
  <2> QED BY <1>5, <2>1 DEF Load, Typed
<1>6. ASSUME NEW w \in Warp, NEW l \in Lane, Store(w, l) PROVE Typed'
  <2>1. Hash(w, l) \in Hashes /\ SlotOf(Hash(w, l)) \in Slot /\ item[w] \in Item
    BY LaneHash
  <2>2. w[1] \in 0 .. Blocks - 1
    BY WarpParts
  <2>3. filter' \in [0 .. Blocks - 1 -> [Slot -> SUBSET Hashes]]
    <3> DEFINE h == Hash(w, l)
               s == SlotOf(h)
    <3>1. filter' = [filter EXCEPT ![w[1]][s] = @ \cup {h}]
      BY <1>6 DEF Store
    <3> HIDE DEF h, s
    <3> QED BY <2>1, <2>2, <3>1 DEF Typed, h, s
  <2>4. kept' \in [Warp -> SUBSET (Lane \X Item)]
    BY <1>6, <2>1 DEF Store, Typed
  <2>5. storing' \in [Warp -> SUBSET Lane]
    BY <1>6 DEF Store, Typed
  <2> QED BY <1>6, <2>3, <2>4, <2>5 DEF Store, Typed
<1>7. ASSUME NEW w \in Warp, NEW l \in Lane, Write(w, l) PROVE Typed'
  BY <1>7 DEF Write, Typed
<1>8. ASSUME NEW w \in Warp, NextItem(w) PROVE Typed'
  <2>1. 0 \in Item /\ (item[w] + 1 < Items => item[w] + 1 \in Item)
    BY Sizes DEF Item, Typed
  <2>2. item' \in [Warp -> Item] /\ pc' \in [Warp -> Stages]
    BY ZenonT(60), <1>8, <2>1 DEF NextItem, Typed, Stages
  <2> QED BY <1>8, <2>2 DEF NextItem, Typed
<1>9. ASSUME NEW w \in Warp, Reserve(w) PROVE Typed'
  <2>1. kept[w] \in SUBSET (Lane \X Item)
    BY DEF Typed
  <2>2. Cardinality(kept[w]) \in Nat /\ {p[1] : p \in kept[w]} \in SUBSET Lane
    BY <2>1, KeptFinite
  <2>3. pc' \in [Warp -> Stages]
    BY <1>9 DEF Reserve, Typed, Stages
  <2>4. /\ warp_base' \in [Warp -> Nat] /\ out_count' \in Nat
        /\ waiting' \in [Warp -> SUBSET Lane]
    <3>1. CASE kept[w] = {}
      BY <1>9, <3>1 DEF Reserve, Typed
    <3>2. CASE kept[w] # {}
      <4> DEFINE n == Cardinality(kept[w])
                 R == {p[1] : p \in kept[w]}
      <4>1. /\ warp_base' = [warp_base EXCEPT ![w] = out_count] /\ out_count' = out_count + n
            /\ waiting' = [waiting EXCEPT ![w] = R]
        BY <1>9, <3>2 DEF Reserve
      <4>2. n \in Nat /\ R \in SUBSET Lane
        BY <2>2
      <4> HIDE DEF n, R
      <4> QED BY <4>1, <4>2 DEF Typed
    <3> QED BY <3>1, <3>2
  <2> QED BY <1>9, <2>3, <2>4 DEF Reserve, Typed
<1>10. ASSUME NEW w \in Warp, Advance(w) PROVE Typed'
  <2>1. NextTile(w) \in Nat
    <3>1. launch.grid \in Nat /\ TileKeys \in Nat /\ base[w] \in Nat
      BY LaunchParts, Sizes DEF Typed
    <3> QED BY <3>1 DEF NextTile
  <2>2. base' \in [Warp -> Nat]
    BY <1>10, <2>1 DEF Advance, Typed
  <2>3. pc' \in [Warp -> Stages]
    BY <1>10 DEF Advance, Typed, AtTile, Stages
  <2>4. kept' \in [Warp -> SUBSET (Lane \X Item)]
    BY <1>10 DEF Advance, Typed
  <2> QED BY <1>10, <2>2, <2>3, <2>4 DEF Advance, Typed
<1>11. CASE Finished
  BY <1>11 DEF Finished, vars, Typed
<1> QED BY <1>1, <1>2, <1>3, <1>4, <1>5, <1>6, <1>7, <1>8, <1>9, <1>10, <1>11 DEF Next

LEMMA AlwaysTyped == Spec => []Typed
<1> QED BY InitTyped, StepTyped, PTL DEF Spec

-----------------------------------------------------------------------------
(* What a warp's stage says of its lanes, its tile and its hashes.         *)

Gathering == {"match", "filter", "reserve"}

(* Lanes have something under way only where the code diverges.            *)
Converged(w) ==
  /\ pc[w] \in {"clear", "sync", "done"} =>
       waiting[w] = {} /\ storing[w] = {} /\ kept[w] = {}
  /\ pc[w] \in {"match", "reserve"} => waiting[w] = {} /\ storing[w] = {}
  /\ pc[w] = "write" => storing[w] = {}
  /\ pc[w] \notin {"match", "filter"} => item[w] = 0

(* A warp works on its own tiles, and stops past the last key.             *)
Striding(w) ==
  /\ ~Active(w) => pc[w] = "done"
  /\ Active(w) => base[w] \in TileBases(w)
  /\ Active(w) /\ pc[w] = "done" => base[w] >= Len(launch.keys)

(* What a lane carries on passed the screen.                               *)
Passed(w) ==
  /\ pc[w] = "filter" =>
       \A l \in waiting[w] \cup storing[w] : ScreenHash(Theta, Hash(w, l))
  /\ \A l \in Lane, i \in Item :
       <<l, i>> \in kept[w] => ScreenHash(Theta, HashOf(w, l, i))

(* Past the barrier, the whole filter of the block has been cleared.       *)
Fenced(w) == pc[w] \in Gathering \cup {"write"} => Cleared(w[1])

StageOf(w) == Converged(w) /\ Striding(w) /\ Passed(w) /\ Fenced(w)

StageInv == \A w \in Warp : StageOf(w)

(* A step of the kernel's code: one of the warp or of one of its lanes.    *)
WarpStep(w) == Clear(w) \/ Sync(w) \/ Match(w) \/ NextItem(w) \/ Reserve(w) \/ Advance(w)
LaneStep(w, l) == Load(w, l) \/ Store(w, l) \/ Write(w, l)
StepOf(w) == WarpStep(w) \/ \E l \in Lane : LaneStep(w, l)

LEMMA StepsOfWarps ==
  ASSUME [Next]_vars
  PROVE  UNCHANGED vars \/ \E w \in Warp : StepOf(w)
BY DEF Next, Finished, StepOf, WarpStep, LaneStep

(* A warp's step leaves the registers of the others alone.                 *)
LEMMA OtherWarps ==
  ASSUME Typed, NEW w \in Warp, StepOf(w), NEW v \in Warp, v # w
  PROVE  /\ pc'[v] = pc[v] /\ base'[v] = base[v] /\ item'[v] = item[v]
         /\ waiting'[v] = waiting[v] /\ storing'[v] = storing[v]
         /\ kept'[v] = kept[v] /\ warp_base'[v] = warp_base[v]
<1>1. ASSUME Clear(w) \/ Sync(w) \/ Match(w) \/ NextItem(w) \/ Advance(w)
      PROVE  /\ pc'[v] = pc[v] /\ base'[v] = base[v] /\ item'[v] = item[v]
             /\ waiting'[v] = waiting[v] /\ storing'[v] = storing[v]
             /\ kept'[v] = kept[v] /\ warp_base'[v] = warp_base[v]
  BY <1>1 DEF Typed, Clear, Sync, Match, NextItem, Advance
<1>2. ASSUME Reserve(w)
      PROVE  /\ pc'[v] = pc[v] /\ base'[v] = base[v] /\ item'[v] = item[v]
             /\ waiting'[v] = waiting[v] /\ storing'[v] = storing[v]
             /\ kept'[v] = kept[v] /\ warp_base'[v] = warp_base[v]
  <2>1. CASE kept[w] = {}
    BY <1>2, <2>1 DEF Typed, Reserve
  <2>2. CASE kept[w] # {}
    BY <1>2, <2>2 DEF Typed, Reserve
  <2> QED BY <2>1, <2>2
<1>3. ASSUME NEW l \in Lane, LaneStep(w, l)
      PROVE  /\ pc'[v] = pc[v] /\ base'[v] = base[v] /\ item'[v] = item[v]
             /\ waiting'[v] = waiting[v] /\ storing'[v] = storing[v]
             /\ kept'[v] = kept[v] /\ warp_base'[v] = warp_base[v]
  BY <1>3 DEF Typed, LaneStep, Load, Store, Write
<1> QED BY <1>1, <1>2, <1>3 DEF StepOf, WarpStep

LEMMA SameLaunch ==
  ASSUME NEW w \in Warp, StepOf(w)
  PROVE  launch' = launch /\ \A v \in Warp : Active(v)' <=> Active(v)
<1>1. launch' = launch
  BY DEF StepOf, WarpStep, LaneStep, Clear, Sync, Match, NextItem, Reserve, Advance,
         Load, Store, Write
<1> QED BY <1>1 DEF Active

(* A warp that stays on its tile keeps its hashes.                         *)
LEMMA SameHashes ==
  ASSUME NEW v, launch' = launch, base'[v] = base[v]
  PROVE  /\ \A l, i : HashOf(v, l, i)' = HashOf(v, l, i)
         /\ item'[v] = item[v] => \A l : Hash(v, l)' = Hash(v, l)
BY DEF Hash, HashOf

(* No warp ever clears again.                                              *)
LEMMA ClearedStays ==
  ASSUME Typed, NEW w \in Warp, StepOf(w), NEW b \in 0 .. Blocks - 1, Cleared(b)
  PROVE  Cleared(b)'
<1> SUFFICES ASSUME NEW n \in 0 .. Warps - 1 PROVE pc'[<<b, n>>] # "clear"
  BY DEF Cleared
<1>1. <<b, n>> \in Warp /\ pc[<<b, n>>] # "clear"
  BY DEF Cleared, Warp
<1>2. CASE w # <<b, n>>
  BY <1>1, <1>2, OtherWarps
<1>3. CASE w = <<b, n>>
  BY <1>1, <1>3 DEF Typed, StepOf, WarpStep, LaneStep, Clear, Sync, Match, NextItem,
     Reserve, Advance, Load, Store, Write, AtTile
<1> QED BY <1>2, <1>3

LEMMA InitStage == Init => StageInv
<1> SUFFICES ASSUME Init, NEW w \in Warp PROVE StageOf(w)
  BY DEF StageInv
<1>1. /\ pc[w] = IF Active(w) THEN "clear" ELSE "done"
      /\ base[w] = w[1] * TileKeys /\ waiting[w] = {} /\ storing[w] = {} /\ kept[w] = {}
      /\ item[w] = 0
  BY DEF Init, Active
<1>2. Converged(w) /\ Passed(w) /\ Fenced(w)
  BY <1>1 DEF Converged, Passed, Fenced, Gathering
<1>3. base[w] \in TileBases(w)
  <2>1. launch.grid \in Nat
    BY LaunchParts DEF Init
  <2>2. base[w] = (w[1] + 0 * launch.grid) * TileKeys
    BY <1>1, <2>1, WarpParts, Sizes
  <2> QED BY <2>2 DEF TileBases
<1> QED BY <1>1, <1>2, <1>3 DEF StageOf, Striding

(* The stage of a warp that does not take the step.                        *)
LEMMA StageElsewhere ==
  ASSUME Typed, StageInv, NEW w \in Warp, StepOf(w), NEW v \in Warp, v # w
  PROVE  StageOf(v)'
<1>1. StageOf(v)
  BY DEF StageInv
<1>2. /\ pc'[v] = pc[v] /\ base'[v] = base[v] /\ item'[v] = item[v]
      /\ waiting'[v] = waiting[v] /\ storing'[v] = storing[v] /\ kept'[v] = kept[v]
  BY OtherWarps
<1>3. launch' = launch /\ (Active(v)' <=> Active(v)) /\ TileBases(v)' = TileBases(v)
  BY SameLaunch DEF TileBases
<1>4. Converged(v)' /\ Striding(v)'
  BY <1>1, <1>2, <1>3 DEF StageOf, Converged, Striding
<1>5. Passed(v)'
  <2>1. /\ \A l, i : HashOf(v, l, i)' = HashOf(v, l, i)
        /\ \A l : Hash(v, l)' = Hash(v, l)
    BY <1>2, <1>3, SameHashes
  <2> QED BY <1>1, <1>2, <2>1 DEF StageOf, Passed
<1>6. Fenced(v)'
  BY <1>1, <1>2, ClearedStays, WarpParts DEF StageOf, Fenced
<1> QED BY <1>4, <1>5, <1>6 DEF StageOf

LEMMA StageHere ==
  ASSUME Typed, StageInv, NEW w \in Warp, StepOf(w)
  PROVE  StageOf(w)'
<1>1. Converged(w) /\ Striding(w) /\ Passed(w) /\ Fenced(w)
  BY DEF StageInv, StageOf
<1>2. launch' = launch /\ (Active(w)' <=> Active(w)) /\ TileBases(w)' = TileBases(w)
  BY SameLaunch DEF TileBases
<1>3. Converged(w)'
  <2>1. ASSUME Clear(w) \/ Sync(w) \/ Match(w) \/ NextItem(w) \/ Advance(w) PROVE Converged(w)'
    BY <1>1, <2>1 DEF Typed, Converged, Clear, Sync, Match, NextItem, Advance, AtTile
  <2>2. ASSUME Reserve(w) PROVE Converged(w)'
    BY <1>1, <2>2 DEF Typed, Converged, Reserve
  <2>3. ASSUME NEW l \in Lane, LaneStep(w, l) PROVE Converged(w)'
    BY <1>1, <2>3 DEF Typed, Stages, Converged, LaneStep, Load, Store, Write
  <2> QED BY <2>1, <2>2, <2>3 DEF StepOf, WarpStep
<1>4. Striding(w)'
  <2>1. CASE Clear(w) \/ Match(w) \/ NextItem(w) \/ Reserve(w) \/ \E l \in Lane : LaneStep(w, l)
    <3>1. base' = base /\ Active(w) /\ pc'[w] # "done"
      BY <1>1, <2>1 DEF Typed, Converged, Striding, Clear, Match, NextItem, Reserve, LaneStep,
         Load, Store, Write
    <3> QED BY <1>1, <1>2, <3>1 DEF Striding
  <2>2. CASE Sync(w)
    <3>1. base[w] \in Nat /\ Len(launch.keys) \in Nat
      BY LaunchParts DEF Typed
    <3>2. base' = base /\ Active(w) /\ pc'[w] = AtTile(base[w])
      BY <1>1, <2>2 DEF Typed, Striding, Sync
    <3> QED BY <1>1, <1>2, <3>1, <3>2 DEF Striding, AtTile
  <2>3. CASE Advance(w)
    <3>1. base'[w] = base[w] + launch.grid * TileKeys /\ pc'[w] = AtTile(base'[w]) /\ Active(w)
      BY <1>1, <2>3 DEF Typed, Striding, Advance, NextTile
    <3>2. /\ base[w] \in TileBases(w) /\ launch.grid \in Nat \ {0}
          /\ base[w] \in Nat /\ Len(launch.keys) \in Nat /\ base'[w] \in Nat
      <4>1. Typed'
        BY StepTyped, <2>3 DEF Next
      <4> QED BY <1>1, <3>1, <4>1, LaunchParts DEF Striding, Typed
    <3>3. base'[w] \in TileBases(w)
      <4>1. base[w] < base[w] + launch.grid * TileKeys
        <5>1. \A x, y \in Nat \ {0} : x * y > 0
          OBVIOUS
        <5> QED BY <3>2, <5>1, Sizes
      <4> QED BY <3>1, <3>2, <4>1, TilesInOrder
    <3> QED BY <1>2, <3>1, <3>2, <3>3 DEF Striding, AtTile
  <2> QED BY <2>1, <2>2, <2>3 DEF StepOf, WarpStep
<1>5. Passed(w)'
  <2>1. CASE Match(w)
    <3>1. /\ \A l, i : HashOf(w, l, i)' = HashOf(w, l, i)
          /\ \A l : Hash(w, l)' = Hash(w, l)
      BY <1>2, <2>1, SameHashes DEF Match
    <3>2. waiting'[w] = Leaders(w) /\ storing'[w] = {} /\ kept' = kept
      BY <1>1, <2>1 DEF Typed, Match, Converged
    <3> QED BY <1>1, <3>1, <3>2 DEF Passed, Leaders
  <2>2. CASE Clear(w) \/ Sync(w) \/ NextItem(w) \/ Reserve(w)
    <3>1. \A l, i : HashOf(w, l, i)' = HashOf(w, l, i)
      BY <1>2, <2>2, SameHashes DEF Clear, Sync, NextItem, Reserve
    <3>2. pc'[w] # "filter" /\ kept' = kept
      BY <2>2 DEF Typed, Clear, Sync, NextItem, Reserve, AtTile
    <3> QED BY <1>1, <3>1, <3>2 DEF Passed
  <2>3. CASE Advance(w)
    <3>1. kept'[w] = {} /\ pc'[w] # "filter"
      BY <2>3 DEF Typed, Advance, AtTile
    <3> QED BY <3>1 DEF Passed
  <2>4. ASSUME NEW l \in Lane, LaneStep(w, l) PROVE Passed(w)'
    <3>1. /\ \A k, i : HashOf(w, k, i)' = HashOf(w, k, i)
          /\ \A k : Hash(w, k)' = Hash(w, k)
      BY <1>2, <2>4, SameHashes DEF LaneStep, Load, Store, Write
    <3>2. CASE Load(w, l)
      <4>1. /\ waiting'[w] \cup storing'[w] \subseteq waiting[w] \cup storing[w]
            /\ pc' = pc /\ kept' = kept
        BY <3>2 DEF Load, Typed
      <4> QED BY <1>1, <3>1, <4>1 DEF Passed
    <3>3. CASE Store(w, l)
      <4>1. /\ waiting'[w] \cup storing'[w] \subseteq waiting[w] \cup storing[w]
            /\ l \in storing[w] /\ pc' = pc /\ kept'[w] = kept[w] \cup {<<l, item[w]>>}
        BY <3>3 DEF Store, Typed
      <4>2. pc[w] = "filter"
        BY <1>1, <4>1 DEF Converged, Typed, Stages
      <4>3. ScreenHash(Theta, HashOf(w, l, item[w]))
        BY <1>1, <4>1, <4>2 DEF Passed, Hash
      <4> QED BY <1>1, <3>1, <4>1, <4>3 DEF Passed
    <3>4. CASE Write(w, l)
      <4>1. pc' = pc /\ kept' = kept /\ pc[w] = "write"
        BY <3>4 DEF Write
      <4> QED BY <1>1, <3>1, <4>1 DEF Passed
    <3> QED BY <2>4, <3>2, <3>3, <3>4 DEF LaneStep
  <2> QED BY <2>1, <2>2, <2>3, <2>4 DEF StepOf, WarpStep
<1>6. Fenced(w)'
  <2>1. Cleared(w[1]) => Cleared(w[1])'
    BY ClearedStays, WarpParts
  <2>2. pc'[w] \in Gathering \cup {"write"} => Cleared(w[1])
    <3>1. CASE Clear(w) \/ Sync(w)
      BY <3>1 DEF Clear, Sync, Typed, Gathering
    <3>2. CASE Match(w) \/ NextItem(w) \/ Reserve(w) \/ Advance(w)
      BY <1>1, <3>2 DEF Fenced, Gathering, Match, NextItem, Reserve, Advance
    <3>3. ASSUME NEW l \in Lane, LaneStep(w, l)
          PROVE  pc'[w] \in Gathering \cup {"write"} => Cleared(w[1])
      BY <1>1, <3>3 DEF Fenced, LaneStep, Load, Store, Write
    <3> QED BY <3>1, <3>2, <3>3 DEF StepOf, WarpStep
  <2> QED BY <2>1, <2>2 DEF Fenced
<1> QED BY <1>3, <1>4, <1>5, <1>6 DEF StageOf

LEMMA StepStage ==
  ASSUME Typed, StageInv, [Next]_vars
  PROVE  StageInv'
<1>1. CASE UNCHANGED vars
  BY <1>1 DEF vars, StageInv, StageOf, Converged, Striding, Passed, Fenced, Active, TileBases,
     Hash, HashOf, Cleared
<1>2. ASSUME NEW w \in Warp, StepOf(w) PROVE StageInv'
  BY <1>2, StageElsewhere, StageHere DEF StageInv
<1> QED BY <1>1, <1>2, StepsOfWarps

LEMMA AlwaysStaged == Spec => [](Typed /\ StageInv)
<1> QED BY InitTyped, StepTyped, InitStage, StepStage, PTL DEF Spec

-----------------------------------------------------------------------------
(* The exclusive sum: what a warp keeps is numbered without a gap.         *)

Before(S, l, i) == {p \in S : p[1] < l \/ (p[1] = l /\ p[2] < i)}

Rank(S, l, i) == Cardinality(Before(S, l, i))

LEMMA RankRange ==
  ASSUME NEW S \in SUBSET (Lane \X Item), NEW l \in Lane, NEW i \in Item
  PROVE  /\ Rank(S, l, i) \in Nat /\ Rank(S, l, i) <= Cardinality(S)
         /\ <<l, i>> \in S => Rank(S, l, i) < Cardinality(S)
<1>1. Before(S, l, i) \in SUBSET S /\ IsFiniteSet(S) /\ Cardinality(S) \in Nat
  BY KeptFinite DEF Before
<1>2. /\ Cardinality(Before(S, l, i)) <= Cardinality(S)
      /\ Cardinality(S) = Cardinality(Before(S, l, i)) => S = Before(S, l, i)
  BY <1>1, FS_Subset
<1>3. Rank(S, l, i) \in Nat
  BY <1>1, KeptFinite DEF Rank
<1>4. <<l, i>> \notin Before(S, l, i)
  <2>1. l \in Int /\ i \in Int
    BY Sizes DEF Lane, Item
  <2> QED BY <2>1 DEF Before
<1> QED BY <1>1, <1>2, <1>3, <1>4 DEF Rank

LEMMA RankGrows ==
  ASSUME NEW S \in SUBSET (Lane \X Item), NEW l \in Lane, NEW i \in Item,
         NEW m \in Lane, NEW j \in Item,
         <<l, i>> \in S, l < m \/ (l = m /\ i < j)
  PROVE  Rank(S, l, i) < Rank(S, m, j)
<1> DEFINE T == Before(S, m, j)
<1>1. T \in SUBSET (Lane \X Item) /\ <<l, i>> \in T
  BY DEF Before
<1>2. Before(T, l, i) = Before(S, l, i)
  <2>1. \A p \in S : p[1] \in Int /\ p[2] \in Int
    BY Sizes DEF Lane, Item
  <2>2. l \in Int /\ i \in Int /\ m \in Int /\ j \in Int
    BY Sizes DEF Lane, Item
  <2> QED BY <2>1, <2>2 DEF Before
<1> HIDE DEF T
<1>3. Rank(T, l, i) < Cardinality(T)
  BY <1>1, RankRange
<1> QED BY <1>2, <1>3 DEF Rank, T

LEMMA RankUnique ==
  ASSUME NEW S \in SUBSET (Lane \X Item), NEW l \in Lane, NEW i \in Item,
         NEW m \in Lane, NEW j \in Item, <<l, i>> \in S, <<m, j>> \in S,
         Rank(S, l, i) = Rank(S, m, j)
  PROVE  l = m /\ i = j
<1>1. l \in Int /\ i \in Int /\ m \in Int /\ j \in Int
  BY Sizes DEF Lane, Item
<1>2. Rank(S, l, i) \in Nat /\ Rank(S, m, j) \in Nat
  BY RankRange
<1>3. ~(l < m \/ (l = m /\ i < j))
  BY <1>2, RankGrows
<1>4. ~(m < l \/ (m = l /\ j < i))
  BY <1>2, RankGrows
<1> QED BY <1>1, <1>3, <1>4

LEMMA RankOnto ==
  ASSUME NEW S \in SUBSET (Lane \X Item), NEW n \in Nat, n < Cardinality(S)
  PROVE  \E l \in Lane, i \in Item : <<l, i>> \in S /\ n = Rank(S, l, i)
<1> DEFINE N == Cardinality(S)
           T == 0 .. N - 1
           f == [p \in S |-> Rank(S, p[1], p[2])]
<1>1. N \in Nat /\ IsFiniteSet(S)
  BY KeptFinite
<1>2. \A p \in S : p[1] \in Lane /\ p[2] \in Item /\ p = <<p[1], p[2]>>
  OBVIOUS
<1>3. IsFiniteSet(T) /\ Cardinality(T) = N
  <2>1. N - 1 \in Int /\ 0 \in Int
    BY <1>1
  <2>2. IsFiniteSet(T) /\ Cardinality(T) = IF 0 > N - 1 THEN 0 ELSE N - 1 - 0 + 1
    BY <2>1, FS_Interval
  <2> HIDE DEF T
  <2> QED BY <1>1, <2>2
<1>4. f \in [S -> T]
  <2>1. \A p \in S : Rank(S, p[1], p[2]) \in Nat /\ Rank(S, p[1], p[2]) < N
    BY <1>2, RankRange
  <2> QED BY <1>1, <2>1
<1>5. \A p, q \in S : f[p] = f[q] => p = q
  BY <1>2, RankUnique
<1> HIDE DEF f, T
<1>6. f \in Injection(S, T)
  BY <1>4, <1>5, Fun_IsInj
<1>7. f \in Surjection(S, T)
  BY <1>1, <1>3, <1>6, FS_Injection
<1>8. n \in T
  BY <1>1 DEF T
<1>9. PICK p \in S : f[p] = n
  BY <1>7, <1>8, Fun_SurjectionProperties
<1> QED BY <1>2, <1>9 DEF f

LEMMA CursorIsRank ==
  ASSUME NEW w, NEW l, NEW i
  PROVE  Cursor(w, l, i) = warp_base[w] + Rank(kept[w], l, i)
BY DEF Cursor, Rank, Before

-----------------------------------------------------------------------------
(* The runs of the output buffer that the warps reserve.                   *)

Writing(w) == pc[w] = "write" /\ kept[w] # {}

RunEnd(w) == warp_base[w] + Cardinality(kept[w])

(* Lane l of the warp has still to write the hash it kept as item i.       *)
ToWrite(w, l, i) == Writing(w) /\ l \in waiting[w] /\ <<l, i>> \in kept[w]

RunsReserved == \A w \in Warp : Writing(w) => RunEnd(w) <= out_count

RunsApart ==
  \A v, w \in Warp : Writing(v) /\ Writing(w) /\ v # w =>
    RunEnd(v) <= warp_base[w] \/ RunEnd(w) <= warp_base[v]

OutBounded ==
  \A c \in DOMAIN out : c \in Nat /\ c < out_count /\ Writable(c) /\ out[c] \in Distinct

(* A slot that a lane is going to write has not been written.              *)
Unwritten ==
  \A w \in Warp, l \in Lane, i \in Item :
    ToWrite(w, l, i) => Cursor(w, l, i) \notin DOMAIN out

(* A reserved slot has been written, or a lane is going to write it.       *)
NoGap ==
  \A c \in Nat : c < out_count /\ Writable(c) /\ c \notin DOMAIN out =>
    \E w \in Warp, l \in Lane, i \in Item : ToWrite(w, l, i) /\ c = Cursor(w, l, i)

RunInv == RunsReserved /\ RunsApart /\ OutBounded /\ Unwritten /\ NoGap

LEMMA CursorInRun ==
  ASSUME Typed, NEW w \in Warp, NEW l \in Lane, NEW i \in Item
  PROVE  /\ Cursor(w, l, i) \in Nat /\ warp_base[w] \in Nat /\ RunEnd(w) \in Nat
         /\ warp_base[w] <= RunEnd(w)
         /\ warp_base[w] <= Cursor(w, l, i)
         /\ <<l, i>> \in kept[w] => Cursor(w, l, i) < RunEnd(w)
<1>1. kept[w] \in SUBSET (Lane \X Item) /\ warp_base[w] \in Nat
  BY DEF Typed
<1>2. Cardinality(kept[w]) \in Nat
  BY <1>1, KeptFinite
<1>3. /\ Rank(kept[w], l, i) \in Nat
      /\ <<l, i>> \in kept[w] => Rank(kept[w], l, i) < Cardinality(kept[w])
  BY <1>1, RankRange
<1> QED BY <1>1, <1>2, <1>3, CursorIsRank DEF RunEnd

(* Two lanes of the grid never have the same cursor.                       *)
LEMMA CursorUnique ==
  ASSUME Typed, RunsApart,
         NEW w \in Warp, NEW l \in Lane, NEW i \in Item, Writing(w), <<l, i>> \in kept[w],
         NEW v \in Warp, NEW m \in Lane, NEW j \in Item, Writing(v), <<m, j>> \in kept[v],
         Cursor(w, l, i) = Cursor(v, m, j)
  PROVE  w = v /\ l = m /\ i = j
<1>1. CASE w # v
  <2>1. RunEnd(v) <= warp_base[w] \/ RunEnd(w) <= warp_base[v]
    BY <1>1 DEF RunsApart
  <2>2. /\ Cursor(w, l, i) \in Nat /\ Cursor(v, m, j) \in Nat
        /\ warp_base[w] \in Nat /\ warp_base[v] \in Nat /\ RunEnd(w) \in Nat /\ RunEnd(v) \in Nat
        /\ warp_base[w] <= Cursor(w, l, i) /\ Cursor(w, l, i) < RunEnd(w)
        /\ warp_base[v] <= Cursor(v, m, j) /\ Cursor(v, m, j) < RunEnd(v)
    BY CursorInRun
  <2> QED BY <2>1, <2>2
<1>2. CASE w = v
  <2>1. kept[w] \in SUBSET (Lane \X Item) /\ warp_base[w] \in Nat
    BY DEF Typed
  <2>2. /\ Rank(kept[w], l, i) \in Nat /\ Rank(kept[w], m, j) \in Nat
    BY <2>1, RankRange
  <2>3. Rank(kept[w], l, i) = Rank(kept[w], m, j)
    BY <1>2, <2>1, <2>2, CursorIsRank
  <2> QED BY <1>2, <2>1, <2>3, RankUnique
<1> QED BY <1>1, <1>2

LEMMA KeptIsDistinct ==
  ASSUME Typed, StageInv, NEW w \in Warp, NEW l \in Lane, NEW i \in Item, <<l, i>> \in kept[w]
  PROVE  /\ HashOf(w, l, i) \in Distinct
         /\ Place(w, base[w], l, i) \in Survivors
         /\ launch.keys[Place(w, base[w], l, i)] = HashOf(w, l, i)
<1>1. ScreenHash(Theta, HashOf(w, l, i))
  BY DEF StageInv, StageOf, Passed
<1>2. PICK n : n = Place(w, base[w], l, i)
  OBVIOUS
<1>3. HashOf(w, l, i) = IF n \in DOMAIN launch.keys THEN launch.keys[n] ELSE 0
  BY <1>2, HashIsKey
<1>4. n \in DOMAIN launch.keys /\ HashOf(w, l, i) = launch.keys[n]
  BY <1>1, <1>3 DEF ScreenHash
<1>5. n \in Survivors
  BY <1>1, <1>4 DEF Survivors
<1> QED BY <1>2, <1>4, <1>5 DEF Distinct

(* What a lane's writes do to the output.                                  *)
LEMMA WriteEffect ==
  ASSUME Typed, NEW w \in Warp, NEW l \in Lane, Write(w, l)
  PROVE  /\ \A i \in Item : <<l, i>> \in kept[w] /\ Writable(Cursor(w, l, i)) =>
              Cursor(w, l, i) \in DOMAIN out' /\ out'[Cursor(w, l, i)] = HashOf(w, l, i)
         /\ \A c \in DOMAIN out' :
              \/ \E i \in Item : /\ <<l, i>> \in kept[w] /\ Writable(Cursor(w, l, i))
                                 /\ c = Cursor(w, l, i) /\ out'[c] = HashOf(w, l, i)
              \/ c \in DOMAIN out /\ out'[c] = out[c]
         /\ DOMAIN out \subseteq DOMAIN out'
<1> DEFINE mine == {i \in Item : <<l, i>> \in kept[w]}
           run  == {c \in {Cursor(w, l, i) : i \in mine} : Writable(c)}
           H(c) == HashOf(w, l, CHOOSE i \in mine : Cursor(w, l, i) = c)
<1>1. out' = [c \in run \cup DOMAIN out |-> IF c \in run THEN H(c) ELSE out[c]]
  BY DEF Write
<1>2. \A i, j \in mine : Cursor(w, l, i) = Cursor(w, l, j) => i = j
  <2> SUFFICES ASSUME NEW i \in mine, NEW j \in mine, Cursor(w, l, i) = Cursor(w, l, j)
               PROVE  i = j
    OBVIOUS
  <2>1. kept[w] \in SUBSET (Lane \X Item) /\ warp_base[w] \in Nat
    BY DEF Typed
  <2>2. i \in Item /\ j \in Item /\ <<l, i>> \in kept[w] /\ <<l, j>> \in kept[w]
    OBVIOUS
  <2>3. Rank(kept[w], l, i) \in Nat /\ Rank(kept[w], l, j) \in Nat
    BY <2>1, <2>2, RankRange
  <2>4. Rank(kept[w], l, i) = Rank(kept[w], l, j)
    BY <2>1, <2>3, CursorIsRank
  <2> QED BY <2>1, <2>2, <2>4, RankUnique
<1>3. \A i \in mine : H(Cursor(w, l, i)) = HashOf(w, l, i)
  <2> SUFFICES ASSUME NEW i \in mine PROVE (CHOOSE j \in mine : Cursor(w, l, j) = Cursor(w, l, i)) = i
    OBVIOUS
  <2>1. \E j \in mine : Cursor(w, l, j) = Cursor(w, l, i)
    OBVIOUS
  <2> DEFINE k == CHOOSE j \in mine : Cursor(w, l, j) = Cursor(w, l, i)
  <2>2. k \in mine /\ Cursor(w, l, k) = Cursor(w, l, i)
    BY <2>1
  <2> QED BY <1>2, <2>2
<1> HIDE DEF H
<1> DEFINE O == [c \in run \cup DOMAIN out |-> IF c \in run THEN H(c) ELSE out[c]]
<1>4. \A i \in mine : Writable(Cursor(w, l, i)) =>
        Cursor(w, l, i) \in DOMAIN O /\ O[Cursor(w, l, i)] = HashOf(w, l, i)
  BY <1>3
<1>5. \A c \in DOMAIN O :
        \/ \E i \in mine : Writable(Cursor(w, l, i)) /\ c = Cursor(w, l, i) /\ O[c] = HashOf(w, l, i)
        \/ c \in DOMAIN out /\ O[c] = out[c]
  BY <1>3
<1>6. DOMAIN out \subseteq DOMAIN O /\ out' = O
  BY <1>1
<1> HIDE DEF O
<1> QED BY <1>4, <1>5, <1>6

(* The steps that write nothing and reserve nothing.                       *)
Quiet(w) ==
  \/ Clear(w) \/ Sync(w) \/ Match(w) \/ NextItem(w) \/ Advance(w)
  \/ Reserve(w) /\ kept[w] = {}
  \/ \E l \in Lane : Load(w, l) \/ Store(w, l)

LEMMA StepKinds ==
  ASSUME NEW w \in Warp, StepOf(w)
  PROVE  Quiet(w) \/ (Reserve(w) /\ kept[w] # {}) \/ \E l \in Lane : Write(w, l)
BY DEF StepOf, WarpStep, LaneStep, Quiet

SameRegisters(v) ==
  /\ base'[v] = base[v] /\ kept'[v] = kept[v] /\ warp_base'[v] = warp_base[v]
  /\ waiting'[v] = waiting[v]

LEMMA QuietWriters ==
  ASSUME Typed, StageInv, NEW w \in Warp, Quiet(w)
  PROVE  /\ out' = out /\ out_count' = out_count
         /\ \A v \in Warp : Writing(v)' => Writing(v) /\ SameRegisters(v)
         /\ \A v \in Warp : Writing(v) /\ waiting[v] # {} => Writing(v)' /\ SameRegisters(v)
<1>1. StepOf(w)
  BY DEF Quiet, StepOf, WarpStep, LaneStep
<1>2. out' = out /\ out_count' = out_count
  BY DEF Quiet, Clear, Sync, Match, NextItem, Advance, Reserve, Load, Store
<1>3. ASSUME NEW v \in Warp, v # w
      PROVE  (Writing(v)' <=> Writing(v)) /\ SameRegisters(v)
  BY <1>1, <1>3, OtherWarps DEF Writing, SameRegisters
<1>4. ~Writing(w)'
  <2>1. CASE Clear(w) \/ Sync(w) \/ Match(w) \/ NextItem(w) \/ Advance(w)
    BY <2>1 DEF Typed, Writing, Clear, Sync, Match, NextItem, Advance, AtTile
  <2>2. CASE Reserve(w) /\ kept[w] = {}
    BY <2>2 DEF Writing, Reserve
  <2>3. ASSUME NEW l \in Lane, Load(w, l) \/ Store(w, l) PROVE ~Writing(w)'
    <3>1. Converged(w)
      BY DEF StageInv, StageOf
    <3> QED BY <2>3, <3>1 DEF Load, Store, Writing, Converged
  <2> QED BY <2>1, <2>2, <2>3 DEF Quiet
<1>5. ~(Writing(w) /\ waiting[w] # {})
  <2>1. CASE Clear(w) \/ Sync(w) \/ Match(w) \/ NextItem(w) \/ Advance(w) \/ Reserve(w)
    BY <2>1 DEF Writing, Clear, Sync, Match, NextItem, Advance, Reserve
  <2>2. ASSUME NEW l \in Lane, Load(w, l) \/ Store(w, l) PROVE ~Writing(w)
    <3>1. Converged(w)
      BY DEF StageInv, StageOf
    <3> QED BY <2>2, <3>1 DEF Load, Store, Writing, Converged
  <2> QED BY <2>1, <2>2 DEF Quiet
<1> QED BY <1>2, <1>3, <1>4, <1>5

LEMMA SameCursor ==
  ASSUME NEW v, kept'[v] = kept[v], warp_base'[v] = warp_base[v]
  PROVE  (\A l, i : Cursor(v, l, i)' = Cursor(v, l, i)) /\ RunEnd(v)' = RunEnd(v)
BY DEF Cursor, RunEnd

LEMMA QuietRuns ==
  ASSUME Typed, StageInv, RunInv, NEW w \in Warp, Quiet(w)
  PROVE  RunInv'
<1>1. launch' = launch /\ Distinct' = Distinct
  <2>1. launch' = launch
    BY SameLaunch DEF Quiet, StepOf, WarpStep, LaneStep
  <2> QED BY <2>1 DEF Distinct, Survivors
<1>2. /\ out' = out /\ out_count' = out_count
      /\ \A v \in Warp : Writing(v)' => Writing(v) /\ SameRegisters(v)
      /\ \A v \in Warp : Writing(v) /\ waiting[v] # {} => Writing(v)' /\ SameRegisters(v)
  BY QuietWriters
<1>3. \A v \in Warp : Writing(v)' => RunEnd(v)' = RunEnd(v) /\ warp_base'[v] = warp_base[v]
  BY <1>2, SameCursor DEF SameRegisters
<1>4. RunsReserved' /\ RunsApart'
  BY <1>2, <1>3 DEF RunInv, RunsReserved, RunsApart
<1>5. OutBounded'
  BY <1>1, <1>2 DEF RunInv, OutBounded, Writable
<1>6. \A v \in Warp, l \in Lane, i \in Item :
        /\ ToWrite(v, l, i)' <=> ToWrite(v, l, i)
        /\ ToWrite(v, l, i) => Cursor(v, l, i)' = Cursor(v, l, i)
  BY <1>2, SameCursor DEF ToWrite, SameRegisters
<1>7. Unwritten'
  BY <1>2, <1>6 DEF RunInv, Unwritten
<1>8. NoGap'
  BY <1>1, <1>2, <1>6 DEF RunInv, NoGap, Writable
<1> QED BY <1>4, <1>5, <1>7, <1>8 DEF RunInv

LEMMA ReserveEffect ==
  ASSUME Typed, NEW w \in Warp, Reserve(w), kept[w] # {}
  PROVE  /\ launch' = launch /\ out' = out /\ base' = base /\ kept' = kept
         /\ warp_base'[w] = out_count /\ out_count' = RunEnd(w)'
         /\ Cardinality(kept[w]) \in Nat /\ out_count' = out_count + Cardinality(kept[w])
         /\ \A l \in Lane, i \in Item : <<l, i>> \in kept[w] => ToWrite(w, l, i)'
         /\ \A v \in Warp : v # w => (Writing(v)' <=> Writing(v)) /\ SameRegisters(v)
<1>1. /\ pc'[w] = "write" /\ warp_base'[w] = out_count /\ kept' = kept
      /\ out_count' = out_count + Cardinality(kept[w])
      /\ waiting'[w] = {p[1] : p \in kept[w]}
  BY DEF Reserve, Typed
<1>2. \A l \in Lane, i \in Item : <<l, i>> \in kept[w] => ToWrite(w, l, i)'
  <2>1. \A l, i : <<l, i>> \in kept[w] => l \in {p[1] : p \in kept[w]}
    OBVIOUS
  <2> QED BY <1>1, <2>1 DEF ToWrite, Writing
<1>3. \A v \in Warp : v # w => (Writing(v)' <=> Writing(v)) /\ SameRegisters(v)
  <2>1. StepOf(w)
    BY DEF StepOf, WarpStep
  <2> QED BY <2>1, OtherWarps DEF Writing, SameRegisters
<1>4. Cardinality(kept[w]) \in Nat
  BY KeptFinite DEF Typed
<1> QED BY <1>1, <1>2, <1>3, <1>4 DEF Reserve, RunEnd

LEMMA ReserveRuns ==
  ASSUME Typed, StageInv, RunInv, NEW w \in Warp, Reserve(w), kept[w] # {}
  PROVE  RunInv'
<1> DEFINE n == Cardinality(kept[w])
<1>1. /\ launch' = launch /\ out' = out /\ kept' = kept
      /\ warp_base'[w] = out_count /\ out_count' = RunEnd(w)'
      /\ n \in Nat /\ out_count' = out_count + n
      /\ \A l \in Lane, i \in Item : <<l, i>> \in kept[w] => ToWrite(w, l, i)'
      /\ \A v \in Warp : v # w => (Writing(v)' <=> Writing(v)) /\ SameRegisters(v)
  BY ReserveEffect
<1>2. Distinct' = Distinct
  BY <1>1 DEF Distinct, Survivors
<1> HIDE DEF n
<1>3. out_count \in Nat
  BY DEF Typed
<1>4. \A v \in Warp : v # w =>
        /\ RunEnd(v)' = RunEnd(v) /\ warp_base'[v] = warp_base[v] /\ RunEnd(v) \in Nat
        /\ \A l \in Lane, i \in Item : Cursor(v, l, i)' = Cursor(v, l, i)
        /\ \A l \in Lane, i \in Item : ToWrite(v, l, i)' <=> ToWrite(v, l, i)
  <2> SUFFICES ASSUME NEW v \in Warp, v # w
               PROVE  /\ RunEnd(v)' = RunEnd(v) /\ warp_base'[v] = warp_base[v] /\ RunEnd(v) \in Nat
                      /\ \A l \in Lane, i \in Item : Cursor(v, l, i)' = Cursor(v, l, i)
                      /\ \A l \in Lane, i \in Item : ToWrite(v, l, i)' <=> ToWrite(v, l, i)
    OBVIOUS
  <2>1. (Writing(v)' <=> Writing(v)) /\ SameRegisters(v)
    BY <1>1
  <2>2. (\A l, i : Cursor(v, l, i)' = Cursor(v, l, i)) /\ RunEnd(v)' = RunEnd(v)
    BY <2>1, SameCursor DEF SameRegisters
  <2>3. 0 \in Item /\ 0 \in Lane
    BY Sizes DEF Item, Lane
  <2>4. RunEnd(v) \in Nat
    BY <2>3, CursorInRun
  <2>5. \A l \in Lane, i \in Item : ToWrite(v, l, i)' <=> ToWrite(v, l, i)
    BY <2>1 DEF SameRegisters, ToWrite
  <2> QED BY <2>1, <2>2, <2>4, <2>5 DEF SameRegisters
<1>5. RunsReserved'
  <2>1. ASSUME NEW v \in Warp, Writing(v)' PROVE RunEnd(v)' <= out_count'
    <3>1. CASE v = w
      <4>1. RunEnd(w)' <= out_count'
        BY <1>1, <1>3
      <4> QED BY <3>1, <4>1 DEF RunEnd
    <3>2. CASE v # w
      BY <1>1, <1>3, <1>4, <2>1, <3>2 DEF RunInv, RunsReserved
    <3> QED BY <3>1, <3>2
  <2> QED BY <2>1 DEF RunsReserved
<1>6. RunsApart'
  <2>1. ASSUME NEW v \in Warp, v # w, Writing(v)' PROVE RunEnd(v)' <= warp_base'[w]
    BY <1>1, <1>4, <2>1 DEF RunInv, RunsReserved
  <2>2. ASSUME NEW u \in Warp, NEW v \in Warp, Writing(u)', Writing(v)', u # v
        PROVE  RunEnd(u)' <= warp_base'[v] \/ RunEnd(v)' <= warp_base'[u]
    <3>1. CASE u = w \/ v = w
      BY <2>1, <2>2, <3>1
    <3>2. CASE u # w /\ v # w
      BY <1>1, <1>4, <2>2, <3>2 DEF RunInv, RunsApart
    <3> QED BY <3>1, <3>2
  <2> QED BY <2>2 DEF RunsApart
<1>7. OutBounded'
  BY <1>1, <1>2, <1>3 DEF RunInv, OutBounded, Writable
<1>8. Unwritten'
  <2> SUFFICES ASSUME NEW v \in Warp, NEW l \in Lane, NEW i \in Item, ToWrite(v, l, i)'
               PROVE  Cursor(v, l, i)' \notin DOMAIN out
    BY <1>1 DEF Unwritten
  <2>1. CASE v # w
    BY <1>4, <2>1 DEF RunInv, Unwritten
  <2>2. CASE v = w
    <3>1. Cursor(w, l, i)' = warp_base'[w] + Rank(kept'[w], l, i)
      BY DEF Cursor, Rank, Before
    <3>2. kept[w] \in SUBSET (Lane \X Item)
      BY DEF Typed
    <3>3. Rank(kept[w], l, i) \in Nat
      BY <3>2, RankRange
    <3>4. out_count <= Cursor(v, l, i)' /\ Cursor(v, l, i)' \in Nat
      BY <1>1, <1>3, <2>2, <3>1, <3>3
    <3> QED BY <1>3, <3>4 DEF RunInv, OutBounded
  <2> QED BY <2>1, <2>2
<1>9. NoGap'
  <2> SUFFICES ASSUME NEW c \in Nat, c < out_count', Writable(c), c \notin DOMAIN out
               PROVE  \E v \in Warp, l \in Lane, i \in Item :
                        ToWrite(v, l, i)' /\ c = Cursor(v, l, i)'
    BY <1>1 DEF NoGap, Writable
  <2>1. CASE c < out_count
    <3>1. PICK v \in Warp, l \in Lane, i \in Item : ToWrite(v, l, i) /\ c = Cursor(v, l, i)
      BY <2>1 DEF RunInv, NoGap
    <3>2. v # w
      BY <3>1 DEF ToWrite, Writing, Reserve
    <3> QED BY <1>4, <3>1, <3>2
  <2>2. CASE c >= out_count
    <3>1. kept[w] \in SUBSET (Lane \X Item)
      BY DEF Typed
    <3>2. PICK x \in Nat : c = out_count + x /\ x < n
      <4>1. c - out_count \in Nat /\ c - out_count < n
        BY <1>1, <1>3, <2>2
      <4> QED BY <1>3, <4>1
    <3>3. PICK l \in Lane, i \in Item : <<l, i>> \in kept[w] /\ x = Rank(kept[w], l, i)
      BY <3>1, <3>2, RankOnto DEF n
    <3>4. Cursor(w, l, i)' = warp_base'[w] + Rank(kept'[w], l, i)
      BY DEF Cursor, Rank, Before
    <3>5. c = Cursor(w, l, i)'
      BY <1>1, <3>2, <3>3, <3>4
    <3> QED BY <1>1, <3>3, <3>5
  <2> QED BY <1>3, <2>1, <2>2
<1> QED BY <1>5, <1>6, <1>7, <1>8, <1>9 DEF RunInv

LEMMA WriteRuns ==
  ASSUME Typed, StageInv, RunInv, NEW w \in Warp, NEW l \in Lane, Write(w, l)
  PROVE  RunInv'
<1>1. /\ launch' = launch /\ out_count' = out_count /\ kept' = kept /\ warp_base' = warp_base
      /\ pc' = pc /\ pc[w] = "write" /\ l \in waiting[w]
      /\ waiting' = [waiting EXCEPT ![w] = @ \ {l}]
  BY DEF Write
<1>2. Distinct' = Distinct
  BY <1>1 DEF Distinct, Survivors
<1>3. /\ \A v \in Warp : Writing(v)' <=> Writing(v)
      /\ \A v \in Warp : RunEnd(v)' = RunEnd(v)
      /\ \A v \in Warp, m \in Lane, j \in Item : Cursor(v, m, j)' = Cursor(v, m, j)
      /\ \A v \in Warp, m \in Lane, j \in Item :
           ToWrite(v, m, j)' <=> ToWrite(v, m, j) /\ ~(v = w /\ m = l)
  BY <1>1 DEF Typed, Writing, RunEnd, Cursor, ToWrite
<1>4. \A i \in Item : <<l, i>> \in kept[w] => ToWrite(w, l, i) /\ Writing(w)
  BY <1>1 DEF ToWrite, Writing
<1>5. /\ \A i \in Item : <<l, i>> \in kept[w] /\ Writable(Cursor(w, l, i)) =>
           Cursor(w, l, i) \in DOMAIN out'
      /\ \A c \in DOMAIN out' :
           \/ \E i \in Item : /\ <<l, i>> \in kept[w] /\ Writable(Cursor(w, l, i))
                              /\ c = Cursor(w, l, i) /\ out'[c] = HashOf(w, l, i)
           \/ c \in DOMAIN out /\ out'[c] = out[c]
      /\ DOMAIN out \subseteq DOMAIN out'
  BY WriteEffect
<1>6. RunsReserved' /\ RunsApart'
  BY <1>1, <1>3 DEF RunInv, RunsReserved, RunsApart
<1>7. OutBounded'
  <2> SUFFICES ASSUME NEW c \in DOMAIN out'
               PROVE  c \in Nat /\ c < out_count /\ Writable(c) /\ out'[c] \in Distinct
    BY <1>1, <1>2 DEF OutBounded, Writable
  <2>1. CASE c \in DOMAIN out /\ out'[c] = out[c]
    BY <2>1 DEF RunInv, OutBounded
  <2>2. ASSUME NEW i \in Item, <<l, i>> \in kept[w], Writable(Cursor(w, l, i)),
               c = Cursor(w, l, i), out'[c] = HashOf(w, l, i)
        PROVE  c \in Nat /\ c < out_count /\ Writable(c) /\ out'[c] \in Distinct
    <3>1. HashOf(w, l, i) \in Distinct
      BY <2>2, KeptIsDistinct
    <3>2. c \in Nat /\ c < RunEnd(w) /\ RunEnd(w) \in Nat
      BY <2>2, CursorInRun
    <3>3. RunEnd(w) <= out_count /\ out_count \in Nat
      BY <1>4, <2>2 DEF RunInv, RunsReserved, Typed
    <3> QED BY <2>2, <3>1, <3>2, <3>3
  <2> QED BY <1>5, <2>1, <2>2
<1>8. Unwritten'
  <2> SUFFICES ASSUME NEW v \in Warp, NEW m \in Lane, NEW j \in Item,
                      ToWrite(v, m, j), ~(v = w /\ m = l), Cursor(v, m, j) \in DOMAIN out'
               PROVE  FALSE
    BY <1>3 DEF Unwritten
  <2>1. Cursor(v, m, j) \notin DOMAIN out
    BY DEF RunInv, Unwritten
  <2>2. PICK i \in Item : <<l, i>> \in kept[w] /\ Cursor(v, m, j) = Cursor(w, l, i)
    BY <1>5, <2>1
  <2>3. Writing(w) /\ Writing(v) /\ <<m, j>> \in kept[v]
    BY <1>4, <2>2 DEF ToWrite
  <2> QED BY <2>2, <2>3, CursorUnique DEF RunInv
<1>9. NoGap'
  <2> SUFFICES ASSUME NEW c \in Nat, c < out_count, Writable(c), c \notin DOMAIN out'
               PROVE  \E v \in Warp, m \in Lane, j \in Item :
                        ToWrite(v, m, j)' /\ c = Cursor(v, m, j)'
    BY <1>1 DEF NoGap, Writable
  <2>1. PICK v \in Warp, m \in Lane, j \in Item : ToWrite(v, m, j) /\ c = Cursor(v, m, j)
    BY <1>5 DEF RunInv, NoGap
  <2>2. ~(v = w /\ m = l)
    BY <1>5, <2>1 DEF ToWrite
  <2> QED BY <1>3, <2>1, <2>2
<1> QED BY <1>6, <1>7, <1>8, <1>9 DEF RunInv

LEMMA InitRuns == Init => RunInv
<1> SUFFICES ASSUME Init PROVE RunInv
  OBVIOUS
<1>1. out = <<>> /\ out_count = 0 /\ \A w \in Warp : kept[w] = {}
  BY DEF Init
<1>2. DOMAIN out = {}
  BY <1>1
<1>3. \A w \in Warp : ~Writing(w)
  BY <1>1 DEF Writing
<1> QED BY <1>1, <1>2, <1>3 DEF RunInv, RunsReserved, RunsApart, OutBounded, Unwritten, NoGap, ToWrite

LEMMA StepRuns ==
  ASSUME Typed, StageInv, RunInv, [Next]_vars
  PROVE  RunInv'
<1>1. CASE UNCHANGED vars
  <2>1. /\ Distinct' = Distinct
        /\ \A w \in Warp : (Writing(w)' <=> Writing(w)) /\ RunEnd(w)' = RunEnd(w)
        /\ \A w \in Warp, l \in Lane, i \in Item :
             (ToWrite(w, l, i)' <=> ToWrite(w, l, i)) /\ Cursor(w, l, i)' = Cursor(w, l, i)
    BY <1>1 DEF vars, Distinct, Survivors, Writing, RunEnd, ToWrite, Cursor
  <2>2. out' = out /\ out_count' = out_count /\ warp_base' = warp_base /\ launch' = launch
    BY <1>1 DEF vars
  <2> QED BY <2>1, <2>2 DEF RunInv, RunsReserved, RunsApart, OutBounded, Unwritten, NoGap, Writable
<1>2. ASSUME NEW w \in Warp, StepOf(w) PROVE RunInv'
  BY <1>2, StepKinds, QuietRuns, ReserveRuns, WriteRuns
<1> QED BY <1>1, <1>2, StepsOfWarps

LEMMA AlwaysRuns == Spec => [](Typed /\ StageInv /\ RunInv)
<1> QED BY InitTyped, StepTyped, InitStage, StepStage, InitRuns, StepRuns, PTL DEF Spec

LEMMA DistinctRange ==
  ASSUME Typed, NEW h \in Distinct
  PROVE  h \in 1 .. MaxTheta /\ h \in Hashes
<1>1. PICK n \in DOMAIN launch.keys : ScreenHash(Theta, launch.keys[n]) /\ h = launch.keys[n]
  BY DEF Distinct, Survivors
<1>2. h \in Hashes /\ h # 0
  BY <1>1, LaunchParts DEF Typed, ScreenHash
<1> QED BY <1>2, PolicyAssumption DEF Hashes

(* In every launch the kernel's state keeps to its types: nothing is       *)
(* written past the capacity of the output, and never the sentinel         *)
(* (screen.cuh 114-118).                                                   *)
THEOREM TypeCorrect == Spec => []TypeOK
<1>1. Typed /\ RunInv => TypeOK
  <2> SUFFICES ASSUME Typed, RunInv PROVE TypeOK
    OBVIOUS
  <2>1. DOMAIN out \subseteq 0 .. launch.capacity - 1
    BY LaunchParts DEF RunInv, OutBounded, Writable, Typed
  <2>2. \A c \in DOMAIN out : out[c] \in 1 .. MaxTheta
    BY DistinctRange DEF RunInv, OutBounded
  <2> QED BY <2>1, <2>2 DEF TypeOK, Typed, Stages
<1> QED BY <1>1, AlwaysRuns, PTL

(* No two lanes of a grid write the same slot, whatever their order: the   *)
(* runs that warps reserve with one relaxed fetch_add are disjoint, and so *)
(* are the lanes' parts of a run (screen.cuh 102-120).                     *)
THEOREM SlotsWrittenOnce == Spec => WrittenOnce
<1>1. Unwritten => \A w \in Warp, l \in Lane : Write(w, l) =>
        \A i \in Item : <<l, i>> \in kept[w] => Cursor(w, l, i) \notin DOMAIN out
  BY DEF Unwritten, ToWrite, Writing, Write
<1>2. RunInv => Unwritten
  BY DEF RunInv
<1> QED BY <1>1, <1>2, AlwaysRuns, PTL DEF WrittenOnce

-----------------------------------------------------------------------------
(* The keys accounted for.  L is a set of keys that stand for the slots    *)
(* reserved so far; which key stands for a slot depends on the lanes'      *)
(* races, so the invariant says that such a set exists.                    *)

Key(n) == launch.keys[n]

IsLogged(L, h) == \E n \in L : Key(n) = h

(* A warp keeps the hash and has still to reserve its run.                 *)
IsPending(h) ==
  \E w \in Warp, l \in Lane, i \in Item :
    pc[w] \in Gathering /\ <<l, i>> \in kept[w] /\ h = HashOf(w, l, i)

IsSafe(L, h) == IsLogged(L, h) \/ IsPending(h)

(* The warp of a block that clears a slot of the filter.                   *)
Owner(s) == (s % BlockThreads) \div WarpWidth

(* A hash that a load can find in the filter is not lost.                  *)
FilterInv(L) ==
  \A w \in Warp, s \in Slot :
    Active(w) /\ pc[w] # "clear" /\ Owner(s) = w[2] =>
      \A h \in filter[w[1]][s] : h = 0 \/ IsSafe(L, h)

(* The warp is past item i of the tile at b.                               *)
Past(w, b, i) ==
  \/ b < base[w]
  \/ b = base[w] /\ pc[w] \in {"reserve", "write"}
  \/ b = base[w] /\ pc[w] \in {"match", "filter"} /\ i < item[w]

(* Lane m is still going to look up the hash.                              *)
IsCarried(w, h) == \E m \in waiting[w] \cup storing[w] : Hash(w, m) = h

(* A survivor that its warp is past, or about to be, is not lost.          *)
CoverInv(L) ==
  \A w \in Warp, l \in Lane, i \in Item : \A b \in TileBases(w) :
    LET n == Place(w, b, l, i)
    IN  Active(w) /\ n \in Survivors =>
          /\ Past(w, b, i) => IsSafe(L, Key(n))
          /\ b = base[w] /\ pc[w] = "filter" /\ i = item[w] =>
               IsSafe(L, Key(n)) \/ IsCarried(w, Key(n))

(* Only keys of tiles whose run has been reserved stand for a slot.        *)
FreshInv(L) ==
  \A w \in Warp, l \in Lane, i \in Item : \A b \in TileBases(w) :
    Active(w) /\ Place(w, b, l, i) \in L =>
      b < base[w] \/ (b = base[w] /\ pc[w] = "write")

(* If the output can take them all, it has them or will.                   *)
WrittenInv(L) ==
  out_count <= launch.capacity =>
    \A n \in L :
      \/ \E c \in DOMAIN out : out[c] = Key(n)
      \/ \E w \in Warp, l \in Lane, i \in Item :
           ToWrite(w, l, i) /\ HashOf(w, l, i) = Key(n)

Accounts(L) ==
  /\ L \in SUBSET Survivors /\ Cardinality(L) = out_count
  /\ FilterInv(L) /\ CoverInv(L) /\ FreshInv(L) /\ WrittenInv(L)

AccountInv == \E L : Accounts(L)

LEMMA SurvivorsFinite ==
  ASSUME Typed, NEW L \in SUBSET Survivors
  PROVE  IsFiniteSet(L) /\ Cardinality(L) \in Nat
<1>1. DOMAIN launch.keys = 1 .. Len(launch.keys) /\ Len(launch.keys) \in Nat
  BY LaunchParts DEF Typed
<1>2. IsFiniteSet(DOMAIN launch.keys)
  BY <1>1, FS_Interval
<1>3. L \in SUBSET DOMAIN launch.keys
  BY DEF Survivors
<1> QED BY <1>2, <1>3, FS_Subset, FS_CardinalityType

LEMMA OwnerInBlock ==
  ASSUME NEW s \in Slot
  PROVE  Owner(s) \in 0 .. Warps - 1
<1> DEFINE x == s % BlockThreads
<1>1. s \in Nat
  BY Sizes DEF Slot
<1>2. x \in 0 .. BlockThreads - 1
  BY <1>1, Sizes
<1> HIDE DEF x
<1>3. x \in Nat /\ x < Number(WarpWidth, Warps, 0)
  BY <1>2, Sizes DEF BlockThreads, Number
<1>4. PICK a \in 0 .. Warps - 1, c \in 0 .. WarpWidth - 1 : x = Number(WarpWidth, a, c)
  BY <1>3, Sizes, QuotientBound
<1>5. PICK q \in Int, r \in 0 .. WarpWidth - 1 :
        q = x \div WarpWidth /\ x = Number(WarpWidth, q, r)
  <2>1. PICK n \in Nat \ {0} : n = WarpWidth
    BY Sizes
  <2>2. x = (x \div n) * n + (x % n) /\ x % n \in 0 .. n - 1 /\ x \div n \in Int
    BY <1>3
  <2> QED BY <2>1, <2>2 DEF Number
<1>6. a \in Int
  BY Sizes
<1>7. Number(WarpWidth, a, c) = Number(WarpWidth, q, r)
  BY <1>4, <1>5
<1>8. a = q
  <2>1. WarpWidth \in Nat \ {0} /\ c \in 0 .. WarpWidth - 1 /\ r \in 0 .. WarpWidth - 1
    BY Sizes
  <2> QED BY <1>6, <1>7, <2>1, QuotientUnique
<1> QED BY <1>5, <1>8 DEF Owner, x

(* Past the barrier every slot of the block's filter is accounted for.     *)
LEMMA FoundIsSafe ==
  ASSUME Typed, StageInv, NEW L, FilterInv(L), NEW w \in Warp, pc[w] \in Gathering,
         NEW s \in Slot, NEW h \in filter[w[1]][s], h # 0
  PROVE  IsSafe(L, h)
<1>1. Cleared(w[1]) /\ Active(w)
  BY DEF StageInv, StageOf, Striding, Fenced, Gathering
<1> DEFINE v == <<w[1], Owner(s)>>
<1>2. v \in Warp /\ v[1] = w[1] /\ v[2] = Owner(s)
  BY OwnerInBlock, WarpParts DEF Warp
<1>3. Active(v) /\ pc[v] # "clear"
  BY <1>1, <1>2, OwnerInBlock DEF Active, Cleared
<1> HIDE DEF v
<1> QED BY <1>2, <1>3 DEF FilterInv

(* Some lane leads each group of equal surviving hashes of a warp.         *)
LEMMA LeaderExists ==
  ASSUME Typed, NEW w \in Warp, NEW l \in Lane, ScreenHash(Theta, Hash(w, l))
  PROVE  \E m \in Leaders(w) : Hash(w, m) = Hash(w, l)
<1> DEFINE T == {m \in Lane : Hash(w, m) = Hash(w, l)}
<1>1. T \in SUBSET Nat /\ T # {}
  BY Sizes DEF Lane
<1>2. PICK m \in T : \A k \in T : m <= k
  BY <1>1, LeastElement
<1>3. \A k \in 0 .. m - 1 : Hash(w, k) # Hash(w, m)
  <2> SUFFICES ASSUME NEW k \in 0 .. m - 1, Hash(w, k) = Hash(w, m) PROVE FALSE
    OBVIOUS
  <2>1. m \in Lane /\ m \in 0 .. WarpWidth - 1 /\ WarpWidth \in Nat
    BY Sizes DEF Lane
  <2>2. k \in Lane /\ k < m
    BY <2>1 DEF Lane
  <2>3. m <= k
    BY <1>2, <2>2
  <2> QED BY <2>1, <2>2, <2>3
<1> QED BY <1>2, <1>3 DEF Leaders

(* The keys of the run that a warp reserves.                               *)
RunKeys(w) == {Place(w, base[w], p[1], p[2]) : p \in kept[w]}

(* No step loses a hash: what was pending is so still, or is reserved.     *)
LEMMA SafeStays ==
  ASSUME Typed, StageInv, NEW w \in Warp, StepOf(w),
         NEW L, NEW M, L \subseteq M, Reserve(w) => RunKeys(w) \subseteq M,
         NEW h, IsSafe(L, h)
  PROVE  IsSafe(M, h)'
<1>1. launch' = launch
  BY SameLaunch
<1>2. CASE IsLogged(L, h)
  BY <1>1, <1>2 DEF IsSafe, IsLogged, Key
<1>3. CASE IsPending(h)
  <2>1. PICK v \in Warp, l \in Lane, i \in Item :
          pc[v] \in Gathering /\ <<l, i>> \in kept[v] /\ h = HashOf(v, l, i)
    BY <1>3 DEF IsPending
  <2>2. ASSUME pc'[v] \in Gathering, <<l, i>> \in kept'[v], base'[v] = base[v]
        PROVE  IsSafe(M, h)'
    <3>1. HashOf(v, l, i)' = HashOf(v, l, i)
      BY <1>1, <2>2, SameHashes
    <3> QED BY <2>1, <2>2, <3>1 DEF IsSafe, IsPending
  <2>3. CASE v # w
    <3>1. pc'[v] = pc[v] /\ kept'[v] = kept[v] /\ base'[v] = base[v]
      BY <2>3, OtherWarps
    <3> QED BY <2>1, <2>2, <3>1
  <2>4. CASE v = w /\ (Match(w) \/ NextItem(w))
    <3>1. pc'[v] \in Gathering /\ kept' = kept /\ base' = base
      BY <2>4 DEF Match, NextItem, Gathering, Typed
    <3> QED BY <2>1, <2>2, <3>1
  <2>5. CASE v = w /\ \E m \in Lane : Load(w, m) \/ Store(w, m)
    <3>1. pc' = pc /\ kept[v] \subseteq kept'[v] /\ base' = base
      BY <2>5 DEF Load, Store, Typed
    <3> QED BY <2>1, <2>2, <3>1
  <2>6. CASE v = w /\ Reserve(w)
    <3>1. PICK n : n = Place(w, base[w], l, i)
      OBVIOUS
    <3>2. n \in RunKeys(w)
      <4>1. PICK p \in kept[w] : p = <<l, i>>
        BY <2>1, <2>6
      <4> QED BY <3>1, <4>1 DEF RunKeys
    <3>3. Key(n) = h
      BY <2>1, <2>6, <3>1, KeptIsDistinct DEF Key
    <3>4. n \in M
      BY <2>6, <3>2
    <3> QED BY <1>1, <3>3, <3>4 DEF IsSafe, IsLogged, Key
  <2>7. CASE v = w /\ (Clear(w) \/ Sync(w) \/ Advance(w) \/ \E m \in Lane : Write(w, m))
    BY <2>1, <2>7 DEF Clear, Sync, Advance, Write, Gathering
  <2> QED BY <2>3, <2>4, <2>5, <2>6, <2>7 DEF StepOf, WarpStep, LaneStep
<1> QED BY <1>2, <1>3 DEF IsSafe

LEMMA StepFilter ==
  ASSUME Typed, StageInv, NEW w \in Warp, StepOf(w),
         NEW L, NEW M, L \subseteq M, Reserve(w) => RunKeys(w) \subseteq M, FilterInv(L)
  PROVE  FilterInv(M)'
<1> SUFFICES ASSUME NEW v \in Warp, NEW s \in Slot, Active(v), pc'[v] # "clear",
                    Owner(s) = v[2], NEW h \in filter'[v[1]][s], h # 0
             PROVE  IsSafe(M, h)'
  BY SameLaunch DEF FilterInv, Owner
<1>1. v[1] \in 0 .. Blocks - 1 /\ w[1] \in 0 .. Blocks - 1 /\ v = <<v[1], v[2]>> /\ w = <<w[1], w[2]>>
  BY WarpParts
<1>2. ASSUME pc[v] # "clear", h \in filter[v[1]][s] PROVE IsSafe(M, h)'
  <2>1. IsSafe(L, h)
    BY <1>2 DEF FilterInv
  <2> QED BY <2>1, SafeStays
<1>3. CASE Clear(w)
  <2>1. \/ w[1] = v[1] /\ Owner(s) = w[2] /\ h = 0
        \/ filter'[v[1]][s] = filter[v[1]][s] /\ w # v
    BY <1>1, <1>3 DEF Clear, Owner, Typed
  <2>2. w # v => pc[v] # "clear"
    BY OtherWarps
  <2> QED BY <1>2, <2>1, <2>2
<1>4. ASSUME NEW l \in Lane, Store(w, l) PROVE IsSafe(M, h)'
  <2> DEFINE g == Hash(w, l)
             z == SlotOf(g)
  <2>1. g \in Hashes /\ z \in Slot /\ item[w] \in Item
    BY LaneHash
  <2>2. filter' = [filter EXCEPT ![w[1]][z] = @ \cup {g}]
    BY <1>4 DEF Store
  <2>3. pc' = pc /\ base' = base /\ kept'[w] = kept[w] \cup {<<l, item[w]>>} /\ l \in storing[w]
    BY <1>4 DEF Store, Typed
  <2>4. pc[w] = "filter"
    BY <2>3 DEF StageInv, StageOf, Converged, Typed, Stages
  <2>5. g = HashOf(w, l, item[w])
    BY DEF Hash
  <2> HIDE DEF g, z
  <2>6. h \in filter[v[1]][s] \/ h = g
    BY <1>1, <2>1, <2>2 DEF Typed
  <2>7. CASE h = g
    <3>1. PICK i \in Item : i = item[w]
      BY <2>1
    <3>2. pc'[w] \in Gathering /\ <<l, i>> \in kept'[w]
      BY <2>3, <2>4, <3>1 DEF Gathering
    <3>3. h = HashOf(w, l, i)'
      BY <2>3, <2>5, <2>7, <3>1, SameLaunch, SameHashes
    <3> QED BY <3>2, <3>3 DEF IsPending, IsSafe
  <2> QED BY <1>2, <2>3, <2>6, <2>7
<1>5. CASE filter' = filter /\ pc[w] # "clear"
  <2>1. pc[v] # "clear"
    BY <1>5, OtherWarps
  <2> QED BY <1>2, <1>5, <2>1
<1>6. Clear(w) \/ (\E l \in Lane : Store(w, l)) \/ (filter' = filter /\ pc[w] # "clear")
  BY DEF StepOf, WarpStep, LaneStep, Sync, Match, NextItem, Reserve, Advance, Load, Write
<1> QED BY <1>3, <1>4, <1>5, <1>6

LEMMA StepFresh ==
  ASSUME Typed, StageInv, NEW w \in Warp, StepOf(w), NEW L, FreshInv(L)
  PROVE  FreshInv(L)'
<1> SUFFICES ASSUME NEW v \in Warp, NEW l \in Lane, NEW i \in Item, NEW b \in TileBases(v),
                    Active(v), Place(v, b, l, i) \in L
             PROVE  b < base'[v] \/ (b = base'[v] /\ pc'[v] = "write")
  <2>1. \A v \in Warp : (Active(v)' <=> Active(v)) /\ TileBases(v)' = TileBases(v)
    BY SameLaunch DEF TileBases
  <2> QED BY <2>1 DEF FreshInv, Place
<1>1. b < base[v] \/ (b = base[v] /\ pc[v] = "write")
  BY DEF FreshInv
<1>2. CASE v # w
  BY <1>1, <1>2, OtherWarps
<1>3. CASE v = w /\ base' = base /\ (pc[w] = "write" => pc'[w] = "write")
  BY <1>1, <1>3
<1>4. CASE v = w /\ Advance(w)
  <2>1. base'[v] = base[v] + launch.grid * TileKeys /\ base[v] \in Nat
    BY <1>4 DEF Advance, NextTile, Typed
  <2>2. launch.grid * TileKeys > 0 /\ launch.grid * TileKeys \in Nat
    <3>1. \A x, y \in Nat \ {0} : x * y > 0 /\ x * y \in Nat
      OBVIOUS
    <3> QED BY <3>1, Sizes, LaunchParts DEF Typed
  <2>3. b \in Int
    <3>1. b < base[v] => b \in TileBases(v)
      OBVIOUS
    <3>2. base[v] \in TileBases(v)
      BY <1>4 DEF StageInv, StageOf, Striding
    <3>3. PICK q \in Nat : b = (v[1] + q * launch.grid) * TileKeys
      BY DEF TileBases
    <3>4. v[1] \in Int /\ launch.grid \in Int /\ TileKeys \in Int
      <4>1. launch.grid \in Nat /\ v[1] \in 0 .. Blocks - 1
        BY WarpParts, LaunchParts DEF Typed
      <4> QED BY <4>1, Sizes
    <3>5. \A x, y, z, k \in Int : (x + y * z) * k \in Int
      OBVIOUS
    <3> QED BY <3>3, <3>4, <3>5
  <2> QED BY <1>1, <2>1, <2>2, <2>3
<1>5. Advance(w) \/ (base' = base /\ (pc[w] = "write" => pc'[w] = "write"))
  BY DEF Typed, StepOf, WarpStep, LaneStep, Clear, Sync, Match, NextItem, Reserve, Load, Store, Write
<1> QED BY <1>2, <1>3, <1>4, <1>5

LEMMA StepCover ==
  ASSUME Typed, StageInv, NEW w \in Warp, StepOf(w),
         NEW L, NEW M, L \subseteq M, Reserve(w) => RunKeys(w) \subseteq M,
         FilterInv(L), CoverInv(L)
  PROVE  CoverInv(M)'
<1> DEFINE Safe(n) == IsSafe(L, Key(n))
           SafeNow(n) == IsSafe(M, Key(n))'
<1>1. launch' = launch
  BY SameLaunch
<1>2. \A n : Safe(n) => SafeNow(n)
  <2> SUFFICES ASSUME NEW n, Safe(n) PROVE IsSafe(M, Key(n))'
    OBVIOUS
  <2>1. PICK h : h = Key(n)
    OBVIOUS
  <2>2. IsSafe(M, h)'
    BY <2>1, SafeStays
  <2>3. h = Key(n)'
    BY <1>1, <2>1 DEF Key
  <2> QED BY <2>2, <2>3
<1> HIDE DEF SafeNow
<1> SUFFICES ASSUME NEW v \in Warp, NEW l \in Lane, NEW i \in Item, NEW b \in TileBases(v),
                    NEW n, n = Place(v, b, l, i), Active(v), n \in Survivors
             PROVE  /\ Past(v, b, i)' => SafeNow(n)
                    /\ b = base'[v] /\ pc'[v] = "filter" /\ i = item'[v] =>
                         SafeNow(n) \/ IsCarried(v, Key(n))'
  <2>1. Survivors' = Survivors /\ \A v \in Warp : TileBases(v)' = TileBases(v)
    BY <1>1 DEF Survivors, TileBases
  <2>2. \A v \in Warp : Active(v)' <=> Active(v)
    BY SameLaunch
  <2>3. \A v, b, l, i : Place(v, b, l, i)' = Place(v, b, l, i)
    BY DEF Place
  <2> QED BY <2>1, <2>2, <2>3 DEF CoverInv, SafeNow
<1>3. /\ Past(v, b, i) => Safe(n)
      /\ b = base[v] /\ pc[v] = "filter" /\ i = item[v] => Safe(n) \/ IsCarried(v, Key(n))
  BY DEF CoverInv
<1>4. CASE v # w
  <2>1. /\ pc'[v] = pc[v] /\ base'[v] = base[v] /\ item'[v] = item[v]
        /\ waiting'[v] = waiting[v] /\ storing'[v] = storing[v]
    BY <1>4, OtherWarps
  <2>2. Past(v, b, i)' <=> Past(v, b, i)
    BY <2>1 DEF Past
  <2>3. IsCarried(v, Key(n))' <=> IsCarried(v, Key(n))
    <3>1. \A m : Hash(v, m)' = Hash(v, m)
      BY <1>1, <2>1, SameHashes
    <3> QED BY <1>1, <2>1, <3>1 DEF IsCarried, Key
  <2> QED BY <1>2, <1>3, <2>1, <2>2, <2>3
<1>5. StageOf(w) /\ item[w] \in Item /\ base[w] \in Nat
  BY DEF StageInv, Typed
<1>6. CASE v = w /\ (Clear(w) \/ Reserve(w) \/ \E m \in Lane : Write(w, m))
  <2>1. base' = base /\ item' = item /\ pc'[w] # "filter" /\ (Past(w, b, i)' => Past(w, b, i))
    BY <1>6 DEF Typed, Past, Clear, Reserve, Write
  <2> QED BY <1>2, <1>3, <1>6, <2>1
<1>7. CASE v = w /\ Sync(w)
  <2>1. base' = base /\ item' = item /\ pc'[w] \in {"match", "done"} /\ item[w] = 0
    BY <1>5, <1>7 DEF Typed, Sync, AtTile, StageOf, Converged
  <2>2. ~(i < 0)
    BY Sizes DEF Item
  <2>3. Past(w, b, i)' => Past(w, b, i)
    BY <2>1, <2>2 DEF Past
  <2> QED BY <1>2, <1>3, <1>7, <2>1, <2>3
<1>8. CASE v = w /\ Match(w)
  <2>1. /\ base' = base /\ item' = item /\ waiting'[w] = Leaders(w)
        /\ pc[w] = "match" /\ pc'[w] = "filter"
    BY <1>8 DEF Typed, Match
  <2>2. Past(w, b, i)' => Past(w, b, i)
    BY <2>1 DEF Past
  <2>3. ASSUME b = base[w], i = item[w] PROVE IsCarried(w, Key(n))'
    <3>1. Hash(w, l) = Key(n) /\ ScreenHash(Theta, Hash(w, l))
      <4>1. HashOf(w, l, i) = IF n \in DOMAIN launch.keys THEN launch.keys[n] ELSE 0
        BY <1>8, <2>3, HashIsKey
      <4>2. n \in DOMAIN launch.keys /\ ScreenHash(Theta, launch.keys[n])
        BY DEF Survivors
      <4> QED BY <2>3, <4>1, <4>2 DEF Hash, Key
    <3>2. PICK m \in Leaders(w) : Hash(w, m) = Hash(w, l)
      BY <3>1, LeaderExists
    <3>3. Hash(w, m)' = Hash(w, m) /\ Key(n)' = Key(n)
      BY <1>1, <2>1, SameHashes DEF Key
    <3>4. m \in waiting'[w]
      BY <2>1, <3>2
    <3> QED BY <3>1, <3>2, <3>3, <3>4 DEF IsCarried
  <2> QED BY <1>2, <1>3, <1>8, <2>1, <2>2, <2>3
<1>9. CASE v = w /\ NextItem(w)
  <2>1. /\ base' = base /\ pc[w] = "filter" /\ pc'[w] # "filter"
        /\ waiting[w] = {} /\ storing[w] = {}
        /\ \/ pc'[w] = "match" /\ item'[w] = item[w] + 1
           \/ pc'[w] = "reserve" /\ ~(item[w] + 1 < Items)
    BY <1>9 DEF Typed, NextItem
  <2>2. ~IsCarried(w, Key(n))
    BY <2>1 DEF IsCarried
  <2>3. i \in Int /\ item[w] \in Int /\ i < Items /\ Items \in Int
    BY <1>5, Sizes DEF Item
  <2>4. Past(w, b, i)' => Past(w, b, i) \/ (b = base[w] /\ i = item[w])
    <3>1. CASE pc'[w] = "match" /\ item'[w] = item[w] + 1
      <4>1. i < item[w] + 1 <=> i < item[w] \/ i = item[w]
        BY <2>3
      <4> QED BY <2>1, <3>1, <4>1 DEF Past
    <3>2. CASE pc'[w] = "reserve" /\ ~(item[w] + 1 < Items)
      <4>1. i < item[w] \/ i = item[w]
        BY <2>3, <3>2
      <4> QED BY <2>1, <3>2, <4>1 DEF Past
    <3> QED BY <2>1, <3>1, <3>2
  <2> QED BY <1>2, <1>3, <1>9, <2>1, <2>2, <2>4
<1>10. CASE v = w /\ Advance(w)
  <2>1. /\ pc[w] = "write" /\ base'[w] = base[w] + launch.grid * TileKeys
        /\ pc'[w] \in {"match", "done"} /\ item' = item /\ item[w] = 0
    BY <1>5, <1>10 DEF Typed, Advance, NextTile, AtTile, StageOf, Converged
  <2>2. ~(i < 0)
    BY Sizes DEF Item
  <2>3. Past(w, b, i)' => b < base'[w]
    BY <2>1, <2>2 DEF Past
  <2>4. b < base'[w] => b < base[w] \/ b = base[w]
    <3> SUFFICES ASSUME b < base[w] + launch.grid * TileKeys PROVE b < base[w] \/ b = base[w]
      BY <2>1
    <3>1. base[w] \in TileBases(w) /\ launch.grid \in Nat \ {0} /\ b \in TileBases(w)
      BY <1>5, <1>10, LaunchParts DEF StageOf, Striding, Typed
    <3>2. b <= base[w]
      BY <3>1, TilesInOrder
    <3>3. b < b + launch.grid * TileKeys => b \in Nat
      BY <3>1, TilesInOrder
    <3>4. launch.grid * TileKeys > 0
      <4>1. \A x, y \in Nat \ {0} : x * y > 0
        OBVIOUS
      <4> QED BY <3>1, <4>1, Sizes
    <3>5. b \in Int
      <4>1. PICK q \in Nat : b = (w[1] + q * launch.grid) * TileKeys
        BY <3>1 DEF TileBases
      <4>2. PICK x, y, z \in Int : x = w[1] /\ y = launch.grid /\ z = TileKeys
        BY <3>1, WarpParts, Sizes
      <4> QED BY <4>1, <4>2
    <3> QED BY <1>5, <3>2, <3>5
  <2> QED BY <1>2, <1>3, <1>10, <2>1, <2>3, <2>4 DEF Past
<1>11. ASSUME v = w, NEW m \in Lane, Load(w, m) PROVE
         /\ Past(v, b, i)' => SafeNow(n)
         /\ b = base'[v] /\ pc'[v] = "filter" /\ i = item'[v] =>
              SafeNow(n) \/ IsCarried(v, Key(n))'
  <2>1. /\ pc[w] = "filter" /\ m \in waiting[w] /\ waiting'[w] = waiting[w] \ {m}
        /\ pc' = pc /\ base' = base /\ item' = item
    BY <1>11 DEF Load, Typed
  <2>2. \/ storing'[w] = storing[w] \cup {m}
        \/ storing' = storing /\ Hash(w, m) \in filter[w[1]][SlotOf(Hash(w, m))]
    BY <1>11 DEF Load, Typed
  <2>3. Past(w, b, i)' <=> Past(w, b, i)
    BY <2>1 DEF Past
  <2>4. /\ \A k : Hash(w, k)' = Hash(w, k)
        /\ Key(n)' = Key(n)
    BY <1>1, <2>1, SameHashes DEF Key
  <2>5. ASSUME IsCarried(w, Key(n)) PROVE SafeNow(n) \/ IsCarried(w, Key(n))'
    <3>1. PICK k \in waiting[w] \cup storing[w] : Hash(w, k) = Key(n)
      BY <2>5 DEF IsCarried
    <3>2. CASE k \in waiting'[w] \cup storing'[w]
      BY <2>4, <3>1, <3>2 DEF IsCarried
    <3>3. CASE k \notin waiting'[w] \cup storing'[w]
      <4>1. k = m /\ Key(n) \in filter[w[1]][SlotOf(Hash(w, m))]
        BY <2>1, <2>2, <3>1, <3>3
      <4>2. SlotOf(Hash(w, m)) \in Slot
        BY LaneHash
      <4>3. Key(n) # 0
        BY <1>5, <2>1, <3>1, <4>1 DEF StageOf, Passed, ScreenHash
      <4>4. IsSafe(L, Key(n))
        BY <2>1, <4>1, <4>2, <4>3, FoundIsSafe DEF Gathering
      <4> QED BY <1>2, <4>4
    <3> QED BY <3>2, <3>3
  <2> QED BY <1>2, <1>3, <1>11, <2>1, <2>3, <2>5
<1>12. ASSUME v = w, NEW m \in Lane, Store(w, m) PROVE
         /\ Past(v, b, i)' => SafeNow(n)
         /\ b = base'[v] /\ pc'[v] = "filter" /\ i = item'[v] =>
              SafeNow(n) \/ IsCarried(v, Key(n))'
  <2>1. /\ m \in storing[w] /\ storing'[w] = storing[w] \ {m} /\ waiting' = waiting
        /\ kept'[w] = kept[w] \cup {<<m, item[w]>>} /\ pc' = pc /\ base' = base /\ item' = item
    BY <1>12 DEF Store, Typed
  <2>2. pc[w] = "filter"
    BY <1>5, <2>1 DEF StageOf, Converged, Typed, Stages
  <2>3. Past(w, b, i)' <=> Past(w, b, i)
    BY <2>1 DEF Past
  <2>4. /\ \A k : Hash(w, k)' = Hash(w, k)
        /\ Key(n)' = Key(n)
    BY <1>1, <2>1, SameHashes DEF Key
  <2>5. ASSUME IsCarried(w, Key(n)) PROVE SafeNow(n) \/ IsCarried(w, Key(n))'
    <3>1. PICK k \in waiting[w] \cup storing[w] : Hash(w, k) = Key(n)
      BY <2>5 DEF IsCarried
    <3>2. CASE k \in waiting'[w] \cup storing'[w]
      BY <2>4, <3>1, <3>2 DEF IsCarried
    <3>3. CASE k \notin waiting'[w] \cup storing'[w]
      <4>1. k = m
        BY <2>1, <3>1, <3>3
      <4>2. PICK j \in Item : j = item[w]
        BY <1>5
      <4>3. pc'[w] \in Gathering /\ <<m, j>> \in kept'[w]
        BY <2>1, <2>2, <4>2 DEF Gathering
      <4>4. Key(n)' = HashOf(w, m, j)'
        <5>1. HashOf(w, m, j)' = HashOf(w, m, j)
          BY <1>1, <2>1, SameHashes
        <5> QED BY <2>4, <3>1, <4>1, <4>2, <5>1 DEF Hash
      <4>5. IsSafe(M, Key(n))'
        BY <4>3, <4>4 DEF IsSafe, IsPending
      <4> QED BY <4>5 DEF SafeNow
    <3> QED BY <3>2, <3>3
  <2> QED BY <1>2, <1>3, <1>12, <2>1, <2>3, <2>5
<1> QED
  BY <1>4, <1>6, <1>7, <1>8, <1>9, <1>10, <1>11, <1>12 DEF StepOf, WarpStep, LaneStep

LEMMA QuietWritten ==
  ASSUME Typed, StageInv, NEW w \in Warp, Quiet(w), NEW L, WrittenInv(L)
  PROVE  WrittenInv(L)'
<1>1. launch' = launch
  BY SameLaunch DEF Quiet, StepOf, WarpStep, LaneStep
<1>2. /\ out' = out /\ out_count' = out_count
      /\ \A v \in Warp : Writing(v) /\ waiting[v] # {} => Writing(v)' /\ SameRegisters(v)
  BY QuietWriters
<1>3. \A v \in Warp, l \in Lane, i \in Item :
        ToWrite(v, l, i) => ToWrite(v, l, i)' /\ HashOf(v, l, i)' = HashOf(v, l, i)
  BY <1>1, <1>2, SameHashes DEF ToWrite, SameRegisters
<1>4. \A n : Key(n)' = Key(n)
  BY <1>1 DEF Key
<1> QED BY <1>1, <1>2, <1>3, <1>4 DEF WrittenInv

LEMMA WriteWritten ==
  ASSUME Typed, StageInv, RunInv, NEW w \in Warp, NEW l \in Lane, Write(w, l),
         NEW L, WrittenInv(L)
  PROVE  WrittenInv(L)'
<1>1. /\ launch' = launch /\ out_count' = out_count /\ kept' = kept /\ base' = base
      /\ pc' = pc /\ waiting' = [waiting EXCEPT ![w] = @ \ {l}]
  BY DEF Write
<1>2. /\ \A i \in Item : <<l, i>> \in kept[w] /\ Writable(Cursor(w, l, i)) =>
           Cursor(w, l, i) \in DOMAIN out' /\ out'[Cursor(w, l, i)] = HashOf(w, l, i)
      /\ \A c \in DOMAIN out' :
           \/ \E i \in Item : /\ <<l, i>> \in kept[w] /\ Writable(Cursor(w, l, i))
                              /\ c = Cursor(w, l, i) /\ out'[c] = HashOf(w, l, i)
           \/ c \in DOMAIN out /\ out'[c] = out[c]
      /\ DOMAIN out \subseteq DOMAIN out'
  BY WriteEffect
<1>3. \A n : Key(n)' = Key(n)
  BY <1>1 DEF Key
<1> SUFFICES ASSUME out_count <= launch.capacity, NEW n \in L
             PROVE  \/ \E c \in DOMAIN out' : out'[c] = Key(n)
                    \/ \E v \in Warp, m \in Lane, j \in Item :
                         ToWrite(v, m, j)' /\ HashOf(v, m, j)' = Key(n)
  BY <1>1, <1>3 DEF WrittenInv
<1>4. ASSUME NEW c \in DOMAIN out, out[c] = Key(n)
      PROVE  \E d \in DOMAIN out' : out'[d] = Key(n)
  <2>1. c \in DOMAIN out'
    BY <1>2
  <2>2. ASSUME NEW i \in Item, <<l, i>> \in kept[w], c = Cursor(w, l, i) PROVE FALSE
    <3>1. ToWrite(w, l, i)
      BY <2>2 DEF Write, ToWrite, Writing
    <3> QED BY <2>2, <3>1 DEF RunInv, Unwritten
  <2>3. out'[c] = out[c]
    BY <1>2, <2>1, <2>2
  <2> QED BY <1>4, <2>1, <2>3
<1>5. ASSUME NEW v \in Warp, NEW m \in Lane, NEW j \in Item,
             ToWrite(v, m, j), HashOf(v, m, j) = Key(n)
      PROVE  \/ \E c \in DOMAIN out' : out'[c] = Key(n)
             \/ ToWrite(v, m, j)' /\ HashOf(v, m, j)' = Key(n)
  <2>1. CASE v = w /\ m = l
    <3>1. <<l, j>> \in kept[w] /\ Writing(w)
      BY <1>5, <2>1 DEF ToWrite
    <3>2. Writable(Cursor(w, l, j))
      <4>1. Cursor(w, l, j) \in Nat /\ Cursor(w, l, j) < RunEnd(w) /\ RunEnd(w) \in Nat
        BY <3>1, CursorInRun
      <4>2. RunEnd(w) <= out_count /\ out_count \in Nat /\ launch.capacity \in Nat
        BY <3>1, LaunchParts DEF RunInv, RunsReserved, Typed
      <4> QED BY <4>1, <4>2 DEF Writable
    <3> QED BY <1>2, <1>5, <2>1, <3>1, <3>2
  <2>2. CASE ~(v = w /\ m = l)
    <3>1. ToWrite(v, m, j)'
      BY <1>1, <1>5, <2>2 DEF ToWrite, Writing, Typed
    <3>2. HashOf(v, m, j)' = HashOf(v, m, j)
      BY <1>1, SameHashes
    <3> QED BY <1>5, <3>1, <3>2
  <2> QED BY <2>1, <2>2
<1> QED BY <1>4, <1>5 DEF WrittenInv

(* The run that a warp reserves stands for keys that were not counted yet. *)
LEMMA ReserveAccounts ==
  ASSUME Typed, StageInv, RunInv, NEW w \in Warp, Reserve(w), kept[w] # {},
         NEW L, L \in SUBSET Survivors, Cardinality(L) = out_count,
         FreshInv(L), WrittenInv(L), NEW M, M = L \cup RunKeys(w)
  PROVE  /\ M \in SUBSET Survivors /\ Cardinality(M) = out_count'
         /\ FreshInv(M)' /\ WrittenInv(M)'
<1> DEFINE R == RunKeys(w)
           S == kept[w]
<1>1. /\ launch' = launch /\ out' = out /\ kept' = kept /\ base' = base
      /\ Cardinality(S) \in Nat /\ out_count' = out_count + Cardinality(S)
      /\ \A l \in Lane, i \in Item : <<l, i>> \in S => ToWrite(w, l, i)'
      /\ \A v \in Warp : v # w => (Writing(v)' <=> Writing(v)) /\ SameRegisters(v)
  BY ReserveEffect
<1>2. /\ Active(w) /\ base[w] \in TileBases(w) /\ pc[w] = "reserve"
      /\ launch.grid \in Nat \ {0} /\ base[w] \in Nat
  BY LaunchParts DEF Reserve, StageInv, StageOf, Striding, Typed
<1>3. S \in SUBSET (Lane \X Item) /\ IsFiniteSet(S)
  BY KeptFinite DEF Typed
<1>4. \A p \in S : p[1] \in Lane /\ p[2] \in Item /\ p = <<p[1], p[2]>>
  BY <1>3
<1>5. R \in SUBSET Survivors
  <2> SUFFICES ASSUME NEW p \in S PROVE Place(w, base[w], p[1], p[2]) \in Survivors
    BY DEF RunKeys
  <2>1. p[1] \in Lane /\ p[2] \in Item /\ <<p[1], p[2]>> \in kept[w]
    BY <1>4
  <2> QED BY <2>1, KeptIsDistinct
<1>6. L \cap R = {}
  <2> SUFFICES ASSUME NEW p \in S, Place(w, base[w], p[1], p[2]) \in L PROVE FALSE
    BY DEF RunKeys
  <2>1. p[1] \in Lane /\ p[2] \in Item
    BY <1>4
  <2>2. base[w] < base[w] \/ pc[w] = "write"
    BY <1>2, <2>1 DEF FreshInv
  <2> QED BY <1>2, <2>2
<1>7. IsFiniteSet(R) /\ Cardinality(R) = Cardinality(S)
  <2> DEFINE f == [p \in S |-> Place(w, base[w], p[1], p[2])]
  <2>1. f \in [S -> R] /\ \A r \in R : \E p \in S : f[p] = r
    BY DEF RunKeys
  <2>2. \A p, q \in S : f[p] = f[q] => p = q
    <3> SUFFICES ASSUME NEW p \in S, NEW q \in S,
                        Place(w, base[w], p[1], p[2]) = Place(w, base[w], q[1], q[2])
                 PROVE  p = q
      OBVIOUS
    <3>1. p[1] = q[1] /\ p[2] = q[2]
      BY <1>2, <1>4, PlaceUnique
    <3> QED BY <1>4, <3>1
  <2> HIDE DEF f, R, S
  <2>3. f \in Injection(S, R) /\ f \in Surjection(S, R)
    BY <2>1, <2>2, Fun_IsInj, Fun_IsSurj
  <2> QED BY <1>3, <2>3, FS_Surjection
<1>8. IsFiniteSet(L)
  BY SurvivorsFinite
<1>9. Cardinality(L \cup R) = out_count'
  <2>1. Cardinality(L \cup R) = Cardinality(L) + Cardinality(R) - Cardinality(L \cap R)
    BY <1>7, <1>8, FS_Union
  <2>2. Cardinality(L \cap R) = 0
    BY <1>6, FS_EmptySet
  <2>3. out_count \in Nat
    BY DEF Typed
  <2> HIDE DEF R, S
  <2> QED BY <1>1, <1>7, <2>1, <2>2, <2>3
<1>10. FreshInv(M)'
  <2>1. FreshInv(L)'
    <3>1. StepOf(w)
      BY DEF StepOf, WarpStep
    <3> QED BY <3>1, StepFresh
  <2> SUFFICES ASSUME NEW v \in Warp, NEW l \in Lane, NEW i \in Item, NEW b \in TileBases(v),
                      Active(v), Place(v, b, l, i) \in R
               PROVE  b = base'[v] /\ pc'[v] = "write"
    <3>1. \A v \in Warp : (Active(v)' <=> Active(v)) /\ TileBases(v)' = TileBases(v)
      BY <1>1 DEF Active, TileBases
    <3>2. \A v, b, l, i : Place(v, b, l, i)' = Place(v, b, l, i)
      BY DEF Place
    <3> QED BY <2>1, <3>1, <3>2 DEF FreshInv
  <2>2. PICK p \in S : Place(v, b, l, i) = Place(w, base[w], p[1], p[2])
    BY DEF RunKeys
  <2>3. v = w /\ b = base[w]
    BY <1>2, <1>4, <2>2, PlaceUnique
  <2>4. pc'[w] = "write"
    BY DEF Reserve, Typed
  <2> QED BY <1>1, <2>3, <2>4
<1>11. WrittenInv(M)'
  <2> SUFFICES ASSUME out_count' <= launch.capacity, NEW n \in M
               PROVE  \/ \E c \in DOMAIN out : out[c] = Key(n)
                      \/ \E v \in Warp, l \in Lane, i \in Item :
                           ToWrite(v, l, i)' /\ HashOf(v, l, i)' = Key(n)
    BY <1>1 DEF WrittenInv, Key
  <2>1. \A v, l, i : HashOf(v, l, i)' = HashOf(v, l, i)
    BY <1>1 DEF HashOf
  <2>2. CASE n \in L
    <3>1. out_count <= launch.capacity
      <4>1. launch.capacity \in Nat /\ out_count \in Nat
        BY LaunchParts DEF Typed
      <4> HIDE DEF S
      <4> QED BY <1>1, <4>1
    <3>2. ASSUME NEW v \in Warp, NEW l \in Lane, NEW i \in Item, ToWrite(v, l, i)
          PROVE  ToWrite(v, l, i)'
      <4>1. v # w
        BY <1>2, <3>2 DEF ToWrite, Writing
      <4> QED BY <1>1, <3>2, <4>1 DEF ToWrite, SameRegisters
    <3> QED BY <2>1, <2>2, <3>1, <3>2 DEF WrittenInv
  <2>3. CASE n \in R
    <3>1. PICK p \in S : n = Place(w, base[w], p[1], p[2])
      BY <2>3 DEF RunKeys
    <3>2. PICK l \in Lane, i \in Item : p = <<l, i>>
      BY <1>4, <3>1
    <3>3. <<l, i>> \in kept[w] /\ n = Place(w, base[w], l, i)
      BY <3>1, <3>2
    <3>4. Key(n) = HashOf(w, l, i)
      BY <3>3, KeptIsDistinct DEF Key
    <3>5. ToWrite(w, l, i)'
      BY <1>1, <3>3
    <3> QED BY <2>1, <3>4, <3>5
  <2> QED BY <2>2, <2>3
<1> HIDE DEF R, S
<1>12. L \cup R \in SUBSET Survivors
  BY <1>5
<1> QED BY <1>9, <1>10, <1>11, <1>12 DEF R

LEMMA InitAccounts == Init => AccountInv
<1> SUFFICES ASSUME Init PROVE Accounts({})
  BY DEF AccountInv
<1>1. /\ out_count = 0 /\ launch \in Launches
      /\ \A w \in Warp : /\ base[w] = w[1] * TileKeys
                         /\ Active(w) => pc[w] = "clear"
  BY DEF Init, Active
<1>2. Cardinality({}) = 0
  BY FS_EmptySet
<1>3. FilterInv({}) /\ FreshInv({}) /\ WrittenInv({})
  BY <1>1 DEF FilterInv, FreshInv, WrittenInv
<1>4. ASSUME NEW w \in Warp, Active(w), NEW b \in TileBases(w) PROVE ~(b < base[w])
  <2>1. PICK q \in Nat : b = (w[1] + q * launch.grid) * TileKeys
    BY DEF TileBases
  <2>2. PICK a, g, k \in Nat : a = w[1] /\ g = launch.grid /\ k = TileKeys
    BY <1>1, WarpParts, Sizes, LaunchParts
  <2>3. (a + q * g) * k = a * k + (q * g) * k
    OBVIOUS
  <2>4. (q * g) * k \in Nat /\ a * k \in Nat
    OBVIOUS
  <2>5. b = a * k + (q * g) * k /\ base[w] = a * k
    BY <1>1, <2>1, <2>2, <2>3
  <2> QED BY <2>4, <2>5
<1>5. CoverInv({})
  BY <1>1, <1>4 DEF CoverInv, Past
<1> QED BY <1>1, <1>2, <1>3, <1>5 DEF Accounts

LEMMA StepAccounts ==
  ASSUME Typed, StageInv, RunInv, AccountInv, [Next]_vars
  PROVE  AccountInv'
<1>1. PICK L : Accounts(L)
  BY DEF AccountInv
<1>2. CASE UNCHANGED vars
  <2>1. /\ launch' = launch /\ pc' = pc /\ base' = base /\ item' = item /\ waiting' = waiting
        /\ storing' = storing /\ kept' = kept /\ warp_base' = warp_base /\ filter' = filter
        /\ out_count' = out_count /\ out' = out
    BY <1>2 DEF vars
  <2>2. /\ \A v, l, i : HashOf(v, l, i)' = HashOf(v, l, i)
        /\ \A v, l : Hash(v, l)' = Hash(v, l)
        /\ \A n : Key(n)' = Key(n)
        /\ Survivors' = Survivors
    BY <2>1 DEF HashOf, Hash, Key, Survivors
  <2>3. /\ \A v \in Warp : (Active(v)' <=> Active(v)) /\ TileBases(v)' = TileBases(v)
        /\ \A v, b, i : Past(v, b, i)' <=> Past(v, b, i)
        /\ \A v, b, l, i : Place(v, b, l, i)' = Place(v, b, l, i)
        /\ \A v, l, i : ToWrite(v, l, i)' <=> ToWrite(v, l, i)
    BY <2>1 DEF Active, TileBases, Past, Place, ToWrite, Writing
  <2>4. \A h : IsSafe(L, h)' <=> IsSafe(L, h)
    BY <2>1, <2>2 DEF IsSafe, IsLogged, IsPending
  <2>5. FilterInv(L)' /\ FreshInv(L)'
    BY <1>1, <2>1, <2>3, <2>4 DEF Accounts, FilterInv, FreshInv, Owner
  <2>6. CoverInv(L)'
    <3>1. \A v, n : /\ IsSafe(L, Key(n))' <=> IsSafe(L, Key(n))
                    /\ IsCarried(v, Key(n))' <=> IsCarried(v, Key(n))
      BY <2>1 DEF IsSafe, IsCarried, IsLogged, IsPending, Key, Hash, HashOf
    <3> QED BY <1>1, <2>1, <2>2, <2>3, <3>1 DEF Accounts, CoverInv
  <2>7. WrittenInv(L)'
    BY <1>1, <2>1, <2>2, <2>3 DEF Accounts, WrittenInv
  <2>8. Accounts(L)'
    BY <1>1, <2>1, <2>2, <2>5, <2>6, <2>7 DEF Accounts
  <2> QED BY <2>8 DEF AccountInv
<1>3. ASSUME NEW w \in Warp, StepOf(w) PROVE AccountInv'
  <2>1. Survivors' = Survivors
    BY <1>3, SameLaunch DEF Survivors
  <2>2. CASE Reserve(w) /\ kept[w] # {}
    <3>1. PICK M : M = L \cup RunKeys(w)
      OBVIOUS
    <3>2. /\ M \in SUBSET Survivors /\ Cardinality(M) = out_count'
          /\ FreshInv(M)' /\ WrittenInv(M)'
      BY <1>1, <2>2, <3>1, ReserveAccounts DEF Accounts
    <3>3. L \subseteq M /\ RunKeys(w) \subseteq M
      BY <3>1
    <3>4. FilterInv(M)' /\ CoverInv(M)'
      BY <1>1, <1>3, <3>3, StepFilter, StepCover DEF Accounts
    <3> QED BY <2>1, <3>2, <3>4 DEF Accounts, AccountInv
  <2>3. CASE ~(Reserve(w) /\ kept[w] # {})
    <3>1. Reserve(w) => RunKeys(w) \subseteq L
      BY <2>3 DEF RunKeys
    <3>2. FilterInv(L)' /\ CoverInv(L)' /\ FreshInv(L)'
      BY <1>1, <1>3, <3>1, StepFilter, StepCover, StepFresh DEF Accounts
    <3>3. WrittenInv(L)' /\ out_count' = out_count
      <4>1. CASE Quiet(w)
        BY <1>1, <4>1, QuietWritten, QuietWriters DEF Accounts
      <4>2. ASSUME NEW l \in Lane, Write(w, l) PROVE WrittenInv(L)' /\ out_count' = out_count
        BY <1>1, <4>2, WriteWritten DEF Accounts, Write
      <4> QED BY <1>3, <2>3, <4>1, <4>2, StepKinds
    <3> QED BY <1>1, <2>1, <3>2, <3>3 DEF Accounts, AccountInv
  <2> QED BY <2>2, <2>3
<1> QED BY <1>2, <1>3, StepsOfWarps

ScreenInv == Typed /\ StageInv /\ RunInv /\ AccountInv

LEMMA AlwaysScreening == Spec => []ScreenInv
<1>1. Init => ScreenInv
  BY InitTyped, InitStage, InitRuns, InitAccounts DEF ScreenInv
<1>2. ScreenInv /\ [Next]_vars => ScreenInv'
  BY StepTyped, StepStage, StepRuns, StepAccounts DEF ScreenInv
<1> QED BY <1>1, <1>2, PTL DEF Spec

(* When the grid has finished every survivor has been counted.             *)
LEMMA DoneCounted ==
  ASSUME Typed, StageInv, Done, NEW L, L \in SUBSET Survivors, CoverInv(L)
  PROVE  \A h \in Distinct : IsLogged(L, h)
<1> SUFFICES ASSUME NEW n \in Survivors PROVE IsLogged(L, Key(n))
  BY DEF Distinct, Key
<1>1. /\ n \in DOMAIN launch.keys /\ n \in Nat \ {0} /\ n <= Len(launch.keys)
      /\ launch.grid \in 1 .. Blocks /\ Len(launch.keys) \in Nat
  BY LaunchParts DEF Survivors, Typed
<1>2. PICK w \in Warp, l \in Lane, i \in Item :
        Active(w) /\ \E b \in TileBases(w) : n = Place(w, b, l, i)
  BY <1>1, PlaceExists
<1>3. PICK b \in TileBases(w) : n = Place(w, b, l, i)
  BY <1>2
<1>4. base[w] >= Len(launch.keys) /\ base[w] \in Nat
  BY <1>2 DEF Done, StageInv, StageOf, Striding, Typed
<1>5. b < n
  <2>1. PICK q \in Nat : b = (w[1] + q * launch.grid) * TileKeys
    BY DEF TileBases
  <2>2. b \in Int
    <3>1. PICK a, g, k \in Nat : a = w[1] /\ g = launch.grid /\ k = TileKeys
      BY <1>1, WarpParts, Sizes
    <3> QED BY <2>1, <3>1
  <2>3. i * BlockThreads \in Nat /\ w[2] * WarpWidth \in Nat /\ l \in Nat
    BY WarpParts, Sizes DEF Lane, Item
  <2> QED BY <1>3, <2>2, <2>3 DEF Place
<1>6. Past(w, b, i)
  <2>1. PICK c \in Int : c = b
    <3>1. PICK q \in Nat : b = (w[1] + q * launch.grid) * TileKeys
      BY DEF TileBases
    <3>2. PICK a, g, k \in Nat : a = w[1] /\ g = launch.grid /\ k = TileKeys
      BY <1>1, WarpParts, Sizes
    <3> QED BY <3>1, <3>2
  <2> QED BY <1>1, <1>4, <1>5, <2>1 DEF Past
<1>7. IsSafe(L, Key(n))
  BY <1>2, <1>3, <1>6 DEF CoverInv
<1>8. ~IsPending(Key(n))
  BY DEF IsPending, Done, Gathering
<1> QED BY <1>7, <1>8 DEF IsSafe

LEMMA DoneWritten ==
  ASSUME Typed, RunInv, Done
  PROVE  DOMAIN out = 0 .. Lesser(out_count, launch.capacity) - 1
<1>1. out_count \in Nat /\ launch.capacity \in Nat
  BY LaunchParts DEF Typed
<1>2. \A w \in Warp : ~Writing(w)
  BY DEF Done, Writing
<1>3. \A c \in Nat : c < out_count /\ Writable(c) => c \in DOMAIN out
  BY <1>2 DEF RunInv, NoGap, ToWrite
<1>4. \A c \in DOMAIN out : c \in Nat /\ c < out_count /\ Writable(c)
  BY DEF RunInv, OutBounded
<1> DEFINE D == DOMAIN out
<1> HIDE DEF D
<1>5. \A c \in D : c \in 0 .. Lesser(out_count, launch.capacity) - 1
  BY <1>1, <1>4 DEF Writable, Lesser, D
<1>6. \A c \in 0 .. Lesser(out_count, launch.capacity) - 1 : c \in D
  BY <1>1, <1>3 DEF Writable, Lesser, D
<1> QED BY <1>5, <1>6 DEF D

(* For every grid, tuning, input and capacity, and whatever the threads'   *)
(* order and the staleness of the filter: when the grid has finished, the  *)
(* counter lies between the numbers of distinct survivors and of           *)
(* survivors, and if it does not exceed the capacity the written run is    *)
(* exactly the set of survivors (screen.cuh 36-41; sketch_impl.hpp 190,    *)
(* 291).                                                                   *)
THEOREM ScreenCorrect == Spec => []ScreenResult
<1>1. ScreenInv => ScreenResult
  <2> SUFFICES ASSUME ScreenInv, Done
               PROVE  /\ out_count \in Cardinality(Distinct) .. Cardinality(Survivors)
                      /\ DOMAIN out = 0 .. Lesser(out_count, launch.capacity) - 1
                      /\ out_count <= launch.capacity => Range(out) = Distinct
    BY DEF ScreenResult
  <2>1. Typed /\ StageInv /\ RunInv /\ AccountInv
    BY DEF ScreenInv
  <2>2. PICK L : Accounts(L)
    BY <2>1 DEF AccountInv
  <2>3. L \in SUBSET Survivors /\ Cardinality(L) = out_count
    BY <2>2 DEF Accounts
  <2>4. \A h \in Distinct : IsLogged(L, h)
    BY <2>1, <2>2, DoneCounted DEF Accounts
  <2>5. out_count \in Nat
    BY <2>1 DEF Typed
  <2>6. out_count <= Cardinality(Survivors) /\ Cardinality(Survivors) \in Nat
    <3>1. IsFiniteSet(Survivors) /\ Cardinality(Survivors) \in Nat
      BY <2>1, SurvivorsFinite
    <3> QED BY <2>3, <3>1, FS_Subset
  <2>7. Cardinality(Distinct) <= out_count /\ Cardinality(Distinct) \in Nat
    <3> DEFINE f == [n \in L |-> Key(n)]
    <3>1. IsFiniteSet(L)
      BY <2>1, <2>3, SurvivorsFinite
    <3>2. f \in [L -> Distinct]
      BY <2>3 DEF Distinct, Key
    <3>3. \A h \in Distinct : \E n \in L : f[n] = h
      BY <2>4 DEF IsLogged
    <3> HIDE DEF f
    <3>4. f \in Surjection(L, Distinct)
      BY <3>2, <3>3, Fun_IsSurj
    <3> QED BY <2>3, <3>1, <3>4, FS_Surjection, FS_CardinalityType
  <2>8. DOMAIN out = 0 .. Lesser(out_count, launch.capacity) - 1
    BY <2>1, DoneWritten
  <2>9. ASSUME out_count <= launch.capacity PROVE Range(out) = Distinct
    <3>1. Range(out) \subseteq Distinct
      BY <2>1 DEF RunInv, OutBounded, Range
    <3>2. ASSUME NEW h \in Distinct PROVE h \in Range(out)
      <4>1. PICK n \in L : Key(n) = h
        BY <2>4 DEF IsLogged
      <4>2. \A w \in Warp, l \in Lane, i \in Item : ~ToWrite(w, l, i)
        BY DEF Done, ToWrite, Writing
      <4>3. \E c \in DOMAIN out : out[c] = Key(n)
        BY <2>2, <2>9, <4>2 DEF Accounts, WrittenInv
      <4> QED BY <4>1, <4>3 DEF Range
    <3> QED BY <3>1, <3>2
  <2> QED BY <2>5, <2>6, <2>7, <2>8, <2>9
<1> QED BY <1>1, AlwaysScreening, PTL
=============================================================================
