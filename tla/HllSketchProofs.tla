-------------------------- MODULE HllSketchProofs --------------------------
(***************************************************************************)
(* HLL sketches used from several streams, for every number of streams and *)
(* sketches, every precision, every hash width, every set of batches, and  *)
(* every interleaving of the device's work.                                *)
(***************************************************************************)
EXTENDS HllSketch, FiniteSetTheorems, SequenceTheorems, WellFoundedInduction, TLAPS

-----------------------------------------------------------------------------
(* Powers of two.                                                          *)

(* A nonempty set of naturals has a least element.                         *)
LEMMA LeastNumber ==
  ASSUME NEW T \in SUBSET Nat, T # {}
  PROVE  \E x \in T : \A y \in T : x <= y
<1>1. PICK x \in T : \A y \in T : ~ (<<y, x>> \in OpToRel(<, Nat))
  BY NatLessThanWellFounded, WFMin
<1>2. ASSUME NEW y \in T PROVE x <= y
  <2>1. ~ (<<y, x>> \in OpToRel(<, Nat))
    BY <1>1
  <2>2. <<y, x>> \in Nat \X Nat /\ <<y, x>>[1] = y /\ <<y, x>>[2] = x
    OBVIOUS
  <2>3. ~ (y < x)
    BY <2>1, <2>2 DEF OpToRel
  <2> QED BY <2>3
<1> QED BY <1>2

Pow(n) == 2 ^ n

(* The exponents of which PowerAssumption says what they are.              *)
Exponent(n) == n \in Nat /\ (n <= Width \/ n <= 26)

LEMMA PowDoubles ==
  ASSUME NEW n \in Nat, Exponent(n + 1)
  PROVE  Pow(n + 1) = 2 * Pow(n) /\ Exponent(n)
<1>1. Width \in Nat
  BY PolicyAssumption
<1>2. n \in (0 .. Width - 1) \cup (0 .. 25) /\ Exponent(n)
  BY <1>1 DEF Exponent
<1> QED BY <1>2, PowerAssumption DEF Pow

LEMMA PowZero == Pow(0) = 1
BY DEF Pow

LEMMA PowPositive ==
  ASSUME NEW n, Exponent(n)
  PROVE  Pow(n) \in Nat \ {0}
<1> DEFINE T == {m \in Nat : Exponent(m) /\ Pow(m) \notin Nat \ {0}}
<1> SUFFICES ASSUME T # {} PROVE FALSE
  BY DEF Exponent
<1>1. PICK m \in T : \A k \in T : m <= k
  BY LeastNumber
<1>2. m # 0
  BY PowZero
<1>3. PICK k \in Nat : m = k + 1
  <2>1. m - 1 \in Nat /\ m = (m - 1) + 1
    BY <1>2
  <2> QED BY <2>1
<1>4. k \notin T
  BY <1>1, <1>3
<1>5. Pow(m) = 2 * Pow(k) /\ Exponent(k)
  BY <1>1, <1>3, PowDoubles
<1>6. Pow(k) \in Nat \ {0}
  BY <1>4, <1>5
<1> QED BY <1>1, <1>5, <1>6

LEMMA PowGrows ==
  ASSUME NEW m \in Nat, NEW n \in Nat, m < n, Exponent(n)
  PROVE  Pow(m) < Pow(n) /\ Exponent(m)
<1>1. \A k \in Nat : k <= n => Exponent(k)
  BY PolicyAssumption DEF Exponent
<1> DEFINE T == {k \in Nat : m < k /\ k <= n /\ ~(Pow(m) < Pow(k))}
<1> SUFFICES ASSUME T # {} PROVE FALSE
  BY <1>1
<1>2. PICK k \in T : \A j \in T : k <= j
  BY LeastNumber
<1>3. PICK j \in Nat : k = j + 1
  <2>1. k - 1 \in Nat /\ k = (k - 1) + 1
    OBVIOUS
  <2> QED BY <2>1
<1>4. j \notin T /\ m <= j /\ j <= n
  BY <1>2, <1>3
<1>5. Exponent(j) /\ Exponent(k) /\ Exponent(m) /\ Pow(k) = 2 * Pow(j)
  BY <1>1, <1>3, <1>4, PowDoubles
<1>6. Pow(j) \in Nat \ {0} /\ Pow(m) \in Nat \ {0}
  BY <1>5, PowPositive
<1>7. m = j \/ Pow(m) < Pow(j)
  BY <1>4
<1>8. Pow(m) < Pow(k)
  BY <1>5, <1>6, <1>7
<1> QED BY <1>2, <1>8

(* A power of two is a multiple of every smaller one.                      *)
LEMMA PowSplits ==
  ASSUME NEW m \in Nat, NEW n \in Nat, m <= n, Exponent(n)
  PROVE  \E q \in Nat : Pow(n) = q * Pow(m)
<1>1. \A k \in Nat : k <= n => Exponent(k)
  BY PolicyAssumption DEF Exponent
<1> DEFINE T == {k \in Nat : m <= k /\ k <= n /\ ~(\E q \in Nat : Pow(k) = q * Pow(m))}
<1> SUFFICES ASSUME T # {} PROVE FALSE
  OBVIOUS
<1>2. PICK k \in T : \A j \in T : k <= j
  BY LeastNumber
<1>3. Pow(m) \in Nat
  BY <1>1, PowPositive
<1>4. k # m
  <2>1. Pow(m) = 1 * Pow(m)
    BY <1>3
  <2> QED BY <2>1
<1>5. PICK j \in Nat : k = j + 1
  <2>1. k - 1 \in Nat /\ k = (k - 1) + 1
    BY <1>4
  <2> QED BY <2>1
<1>6. j \notin T /\ m <= j /\ j <= n
  BY <1>2, <1>4, <1>5
<1>7. PICK q \in Nat : Pow(j) = q * Pow(m)
  BY <1>6
<1>8. Pow(k) = 2 * Pow(j)
  BY <1>1, <1>5, PowDoubles
<1>9. 2 * (q * Pow(m)) = (2 * q) * Pow(m)
  BY <1>3
<1> QED BY <1>7, <1>8, <1>9

(* A remainder is what it is said to be.                                   *)
LEMMA RemainderIs ==
  ASSUME NEW n \in Nat \ {0}, NEW x \in Nat, NEW q \in Int, NEW r \in 0 .. n - 1, x = q * n + r
  PROVE  x % n = r
<1>1. PICK p \in Int, s \in 0 .. n - 1 : p = x \div n /\ s = x % n /\ x = p * n + s
  <2>1. x = (x \div n) * n + (x % n) /\ x % n \in 0 .. n - 1 /\ x \div n \in Int
    OBVIOUS
  <2> QED BY <2>1
<1>2. ASSUME NEW a \in Int, NEW b \in Int, NEW c \in 0 .. n - 1, NEW d \in 0 .. n - 1,
             a * n + c = b * n + d, a < b
      PROVE  FALSE
  <2>1. (b - a) * n = c - d /\ b - a >= 1 /\ b - a \in Nat
    BY <1>2
  <2>2. (b - a) * n >= n
    BY <2>1
  <2> QED BY <2>1, <2>2
<1>3. ~(q < p) /\ ~(p < q)
  BY <1>1, <1>2
<1> QED BY <1>1, <1>3

-----------------------------------------------------------------------------
(* The coupon of a hash is that of the CPU sketch.                         *)

LEMMA Params ==
  /\ Width \in Nat \ {0, 1} /\ MaxRho \in Nat \ {0} /\ MaxRho = Width - 1
  /\ \A l \in LgKs : l \in Nat /\ l <= 21 /\ Exponent(l)
  /\ Exponent(Width) /\ Exponent(26)
BY PolicyAssumption DEF MaxRho, Exponent

LEMMA SlotsFacts ==
  ASSUME NEW l \in LgKs
  PROVE  /\ Pow(l) \in Nat \ {0} /\ Slots(l) = 0 .. Pow(l) - 1 /\ Slots(l) \subseteq Nat
         /\ IsFiniteSet(Slots(l)) /\ Cardinality(Slots(l)) = Pow(l)
<1>1. Pow(l) \in Nat \ {0}
  BY Params, PowPositive
<1>2. Slots(l) = 0 .. Pow(l) - 1
  BY DEF Slots, Pow
<1>3. IsFiniteSet(0 .. Pow(l) - 1) /\ Cardinality(0 .. Pow(l) - 1) = Pow(l)
  BY <1>1, FS_Interval
<1> QED BY <1>1, <1>2, <1>3

LEMMA SlotsAgree ==
  ASSUME NEW l \in LgKs, NEW h \in Nat
  PROVE  register_index(h, l) = CpuSlot(h, l) /\ register_index(h, l) \in Slots(l)
<1> DEFINE n == Pow(l)
           x == h % Pow(26)
           r == x % n
<1>1. n \in Nat \ {0} /\ Pow(26) \in Nat \ {0}
  BY Params, PowPositive
<1>2. PICK q \in Nat : Pow(26) = q * n
  BY Params, PowSplits
<1>3. PICK p \in Int : h = p * Pow(26) + x /\ x \in Nat
  <2>1. \A m \in Nat \ {0} : h = (h \div m) * m + (h % m) /\ h % m \in Nat /\ h \div m \in Int
    OBVIOUS
  <2> QED BY <1>1, <2>1
<1> HIDE DEF x, n
<1>4. PICK c \in Int : x = c * n + r /\ r \in 0 .. n - 1
  <2>1. x = (x \div n) * n + (x % n) /\ x % n \in 0 .. n - 1 /\ x \div n \in Int
    BY <1>1, <1>3
  <2> QED BY <2>1
<1> HIDE DEF r
<1>5. PICK e \in Int : e = p * q + c
  OBVIOUS
<1>6. h = e * n + r
  <2>1. p * (q * n) + (c * n + r) = (p * q + c) * n + r
    BY <1>1, <1>4
  <2> QED BY <1>2, <1>3, <1>4, <1>5, <2>1
<1>7. h % n = r
  BY <1>1, <1>4, <1>6, RemainderIs
<1>8. r \in Slots(l)
  BY <1>4, SlotsFacts DEF n
<1> QED BY <1>7, <1>8 DEF register_index, CpuSlot, Pow, n, x, r

(* The number of bits of the second half that are in use.                  *)
LEMMA LevelExists ==
  ASSUME NEW h \in 0 .. 2 ^ Width - 1
  PROVE  \E m \in 0 .. Width : \A b \in 0 .. Width : h < Pow(b) <=> m <= b
<1>1. Width \in Nat /\ Pow(Width) \in Nat \ {0} /\ \A b \in 0 .. Width : Exponent(b)
  BY Params, PowPositive DEF Exponent
<1>2. h \in Nat /\ h < Pow(Width)
  BY <1>1 DEF Pow
<1> DEFINE T == {b \in 0 .. Width : h < Pow(b)}
<1>3. T \in SUBSET Nat /\ T # {}
  BY <1>1, <1>2
<1>4. PICK m \in T : \A b \in T : m <= b
  BY <1>3, LeastNumber
<1>5. ASSUME NEW b \in 0 .. Width, m <= b PROVE h < Pow(b)
  <2>1. Pow(m) <= Pow(b)
    <3>1. m = b \/ m < b
      BY <1>1, <1>5
    <3>2. Exponent(b) /\ Exponent(m) /\ m \in Nat /\ b \in Nat
      BY <1>1
    <3>3. Pow(m) \in Nat /\ Pow(b) \in Nat
      BY <3>2, PowPositive
    <3> QED BY <3>1, <3>2, <3>3, PowGrows
  <2>2. Pow(m) \in Nat /\ Pow(b) \in Nat
    BY <1>1, PowPositive
  <2> QED BY <1>2, <2>1, <2>2
<1> QED BY <1>4, <1>5

LEMMA ValuesAgree ==
  ASSUME NEW h \in 0 .. 2 ^ Width - 1
  PROVE  register_value(h) = CpuValue(h) /\ CpuValue(h) \in 1 .. MaxRho
<1>1. PICK m \in 0 .. Width : \A b \in 0 .. Width : h < Pow(b) <=> m <= b
  BY LevelExists
<1>2. Width \in Nat \ {0, 1} /\ MaxRho = Width - 1
  BY Params
<1>3. CountlZero(h) = Width - m
  <2>1. {b \in 0 .. Width - 1 : h < 2 ^ b} = m .. Width - 1
    BY <1>1, <1>2 DEF Pow
  <2>2. Cardinality(m .. Width - 1) = IF m > Width - 1 THEN 0 ELSE Width - 1 - m + 1
    BY <1>2, FS_Interval
  <2>3. CountlZero(h) = Cardinality(m .. Width - 1)
    BY <2>1 DEF CountlZero
  <2> QED BY <1>2, <2>2, <2>3
<1> DEFINE v == IF Width - m <= Width - 2 THEN Width - m + 1 ELSE Width - 1
<1>4. v \in 1 .. MaxRho
  BY <1>2
<1>5. register_value(h) = v
  <2>1. \A a, b \in Int : Min({a, b}) = IF a <= b THEN a ELSE b
    BY DEF Min
  <2> QED BY <1>2, <1>3, <2>1 DEF register_value
<1>6. CpuValue(h) = v
  <2> DEFINE P(u) == /\ h < 2 ^ (Width - u + 1)
                     /\ u < MaxRho => h >= 2 ^ (Width - u)
  <2>1. \A u \in 1 .. MaxRho : P(u) <=> m <= Width - u + 1 /\ (u < MaxRho => ~(m <= Width - u))
    <3> SUFFICES ASSUME NEW u \in 1 .. MaxRho
                 PROVE  P(u) <=> m <= Width - u + 1 /\ (u < MaxRho => ~(m <= Width - u))
      OBVIOUS
    <3>1. PICK a, b \in 0 .. Width : a = Width - u + 1 /\ b = Width - u
      BY <1>2
    <3>2. Exponent(b) /\ Pow(b) \in Nat
      <4>1. Exponent(b)
        BY <1>2, <3>1 DEF Exponent
      <4> QED BY <4>1, PowPositive
    <3>3. h \in Nat
      BY Params, PowPositive DEF Pow
    <3>4. h >= Pow(b) <=> ~(h < Pow(b))
      BY <3>2, <3>3
    <3> QED BY <1>1, <3>1, <3>4 DEF Pow
  <2>2. \A u \in 1 .. MaxRho : P(u) <=> u = v
    BY <1>2, <2>1
  <2>3. CpuValue(h) = CHOOSE u \in 1 .. MaxRho : P(u)
    BY DEF CpuValue
  <2> HIDE DEF P, v
  <2> QED BY <1>4, <2>2, <2>3
<1> QED BY <1>4, <1>5, <1>6

LEMMA MaxOf ==
  ASSUME NEW n \in Nat, NEW S \in SUBSET (0 .. n), S # {}
  PROVE  Max(S) \in S /\ \A x \in S : x <= Max(S)
<1> DEFINE T == {n - x : x \in S}
<1>1. T \in SUBSET Nat /\ T # {}
  <2>1. \A x \in S : n - x \in Nat
    OBVIOUS
  <2>2. PICK x \in S : TRUE
    OBVIOUS
  <2>3. n - x \in T
    BY <2>2
  <2> QED BY <2>1, <2>3
<1>2. PICK y \in T : \A z \in T : y <= z
  BY <1>1, LeastNumber
<1>3. PICK m \in S : y = n - m
  BY <1>2
<1>4. \A x \in S : m >= x
  <2> SUFFICES ASSUME NEW x \in S PROVE m >= x
    OBVIOUS
  <2>1. n - x \in T
    OBVIOUS
  <2>2. y <= n - x
    BY <1>2, <2>1
  <2> QED BY <1>3, <2>2
<1>5. Max(S) \in S /\ \A x \in S : Max(S) >= x
  BY <1>4 DEF Max
<1> QED BY <1>5

(* What the kernel of an update does to a register, coupon by coupon, is   *)
(* what the CPU sketch makes of the batch.                                 *)
LEMMA CouponsAgree ==
  ASSUME NEW l \in LgKs, NEW batch \in SUBSET Keys
  PROVE  /\ ArrayOf(batch, l) \in Arrays(l)
         /\ \A p \in Coupons(batch, l) :
              /\ p = <<p[1], p[2]>> /\ p[1] \in Slots(l) /\ p[2] \in 1 .. MaxRho
              /\ p[2] <= ArrayOf(batch, l)[p[1]]
         /\ \A i \in Slots(l) :
              ArrayOf(batch, l)[i] # 0 => <<i, ArrayOf(batch, l)[i]>> \in Coupons(batch, l)
<1> DEFINE V(i) == {CpuValue(k[2]) : k \in {j \in batch : CpuSlot(j[1], l) = i}}
           a == ArrayOf(batch, l)
<1>1. ASSUME NEW k \in batch
      PROVE  /\ register_index(k[1], l) = CpuSlot(k[1], l) /\ register_index(k[1], l) \in Slots(l)
             /\ register_value(k[2]) = CpuValue(k[2]) /\ CpuValue(k[2]) \in 1 .. MaxRho
  <2>1. k[1] \in 0 .. 2 ^ Width - 1 /\ k[2] \in 0 .. 2 ^ Width - 1
    BY DEF Keys
  <2>2. k[1] \in Nat
    BY <2>1, Params, PowPositive DEF Pow
  <2> QED BY <2>1, <2>2, SlotsAgree, ValuesAgree
<1>2. MaxRho \in Nat
  BY Params
<1>3. \A i \in Slots(l) : a[i] = Max({0} \cup V(i))
  BY DEF ArrayOf
<1>4. ASSUME NEW i \in Slots(l)
      PROVE  a[i] \in {0} \cup V(i) /\ (\A x \in V(i) : x <= a[i]) /\ a[i] \in 0 .. MaxRho
  <2>1. {0} \cup V(i) \in SUBSET (0 .. MaxRho)
    BY <1>1, <1>2
  <2>2. {0} \cup V(i) # {}
    OBVIOUS
  <2> HIDE DEF V
  <2>3. a[i] = Max({0} \cup V(i))
    BY <1>3
  <2>4. Max({0} \cup V(i)) \in {0} \cup V(i) /\ \A x \in {0} \cup V(i) : x <= Max({0} \cup V(i))
    BY <1>2, <2>1, <2>2, MaxOf
  <2> QED BY <2>1, <2>3, <2>4
<1>5. a \in Arrays(l)
  <2>1. DOMAIN a = Slots(l) /\ a = [i \in Slots(l) |-> a[i]]
    BY DEF ArrayOf
  <2> QED BY <1>4, <2>1 DEF Arrays
<1>6. ASSUME NEW p \in Coupons(batch, l)
      PROVE  /\ p = <<p[1], p[2]>> /\ p[1] \in Slots(l) /\ p[2] \in 1 .. MaxRho
             /\ p[2] <= a[p[1]]
  <2>1. PICK k \in batch : p = <<register_index(k[1], l), register_value(k[2])>>
    BY DEF Coupons
  <2>2. p[2] \in V(p[1]) /\ p[1] \in Slots(l) /\ p[2] \in 1 .. MaxRho
    BY <1>1, <2>1
  <2> HIDE DEF V, a
  <2> QED BY <1>4, <2>1, <2>2
<1>7. ASSUME NEW i \in Slots(l), a[i] # 0
      PROVE  <<i, a[i]>> \in Coupons(batch, l)
  <2>1. a[i] \in V(i)
    BY <1>4, <1>7
  <2>2. PICK k \in batch : CpuSlot(k[1], l) = i /\ a[i] = CpuValue(k[2])
    BY <2>1
  <2>3. register_index(k[1], l) = i /\ register_value(k[2]) = a[i]
    BY <1>1, <2>2
  <2> QED BY <2>3 DEF Coupons
<1> QED BY <1>5, <1>6, <1>7
-----------------------------------------------------------------------------
(* The invariants: shapes and owners.                                      *)

AllArrays == UNION {Arrays(l) : l \in LgKs}

Ops == {"clear", "add", "merge", "copy", "load", "free"}

Pieces == Nat \X (Unread .. MaxRho)

TaskSet == [op : Ops, to : Sketches, from : Sketches, left : SUBSET Pieces]

Positions(st) == 1 .. Len(queue[st])

Typed ==
  /\ live \in SUBSET Sketches
  /\ lgk \in [Sketches -> LgKs]
  /\ home \in [Sketches -> Streams]
  /\ calls \in 0 .. MaxCalls
  /\ regs \in [Sketches -> AllArrays] /\ promised \in [Sketches -> AllArrays]
  /\ may \in [Sketches -> AllArrays] /\ pending \in [Streams -> [Sketches -> AllArrays]]
  /\ queue \in [Streams -> Seq(TaskSet)]
  /\ buf \in [Streams -> AllArrays]
  /\ call \in [Streams -> {None} \cup Waits \cup Snapshots]

\* Every array of a sketch has the sketch's precision.
Sized ==
  /\ \A s \in Sketches :
       /\ regs[s] \in Arrays(lgk[s]) /\ promised[s] \in Arrays(lgk[s])
       /\ may[s] \in Arrays(lgk[s])
  /\ \A st \in Streams, s \in Sketches : pending[st][s] \in Arrays(lgk[s])

Asked(st, op) == call[st] # None /\ call[st].op = op

\* st waits for a snapshot of s.
SnapshotOn(st, s) == Asked(st, "snapshot") /\ call[st].sketch = s

\* st waits for s to be loaded from an image.
LoadingOn(st, s) == Asked(st, "deserialize") /\ call[st].uses = {s}

CallOK(st) ==
  /\ Asked(st, "snapshot") =>
       /\ call[st] \in Snapshots
       /\ call[st].uses = {call[st].sketch} /\ call[st].sketch \in live
       /\ call[st].must \in Arrays(lgk[call[st].sketch])
       /\ buf[st] \in Arrays(lgk[call[st].sketch])
  /\ Asked(st, "deserialize") => \E s \in Sketches : LoadingOn(st, s)

\* The owner of a task.
OwnerOK(st, t) ==
  /\ t.op = "load" => LoadingOn(st, t.to)
  /\ t.op = "copy" => SnapshotOn(st, t.to)
  /\ t.op = "merge" => lgk[t.from] = lgk[t.to]
  /\ t.op # "merge" => t.from = t.to

\* Nothing but the loading itself goes on with a sketch that is loaded.
LoadingAlone(st, s) ==
  /\ s \notin live
  /\ \A o \in Streams : o # st /\ call[o] # None => s \notin call[o].uses
  /\ \A o \in Streams : \A n \in Positions(o) :
       Names(queue[o][n], s) => o = st /\ queue[o][n].op \in {"clear", "load"}
  /\ \A o \in Streams : pending[o][s] = Zeros(lgk[s])

\* A sketch is cleared before anything else is done with it.
ClearedFirst(st, n) ==
  queue[st][n].op = "clear" =>
    \A o \in Streams : \A m \in Positions(o) :
      Names(queue[o][m], queue[st][n].to) => o = st /\ (m = n \/ n < m)

\* The pieces of a task.
PiecesOK(t) ==
  /\ \A p \in t.left : p[1] \in Slots(lgk[t.to])
  /\ t.op = "free" => t.left = {}
  /\ t.op = "clear" => \A p \in t.left : p[2] = 0
  /\ t.op \in {"add", "load"} => \A p \in t.left : p[2] # Unread
  /\ t.op = "copy" => \A p \in t.left : p[2] = Unread

ImageOK(i) == i.lgK \in LgKs /\ i.body \in [1 .. 2 ^ i.lgK -> 0 .. MaxRho]

Owners ==
  /\ \A st \in Streams : CallOK(st)
  /\ \A st \in Streams : \A n \in Positions(st) :
       OwnerOK(st, queue[st][n]) /\ ClearedFirst(st, n)
  /\ \A st \in Streams, s \in Sketches : LoadingOn(st, s) => LoadingAlone(st, s)

Shapes ==
  /\ \A st \in Streams : \A n \in Positions(st) : PiecesOK(queue[st][n])
  /\ answer # None => ImageOK(answer.image)

Base == Typed /\ Sized /\ Owners /\ Shapes

-----------------------------------------------------------------------------
(* The invariants: no more than what was given.                            *)

\* Register i of s is still to be cleared.
Uncleared(s, i) ==
  \E st \in Streams : \E n \in Positions(st) :
    /\ queue[st][n].op = "clear" /\ queue[st][n].to = s
    /\ <<i, 0>> \in queue[st][n].left

NoMore ==
  /\ \A s \in Sketches : \A i \in Slots(lgk[s]) :
       Uncleared(s, i) \/ regs[s][i] <= may[s][i]
  /\ \A st \in Streams : \A n \in Positions(st) :
       /\ \A p \in queue[st][n].left : p[2] <= may[queue[st][n].to][p[1]]
       /\ queue[st][n].op = "merge" => Leq(may[queue[st][n].from], may[queue[st][n].to])
  /\ \A st \in Streams : \A s \in Sketches :
       SnapshotOn(st, s) => \A i \in Slots(lgk[s]) : buf[st][i] <= may[s][i]

-----------------------------------------------------------------------------
(* The invariants: no less than what is known.  A floor is a value that a  *)
(* merge which has not read its register yet will read at least.           *)

\* Register i of s has reached v for good.
Held(s, i, v) == v = 0 \/ (v <= regs[s][i] /\ ~Uncleared(s, i))

Floors == [Streams -> [Nat -> [Nat -> 0 .. MaxRho]]]

\* Task t, with floors f, will raise register i of s to v or more.
BringsBy(t, f, s, i, v) ==
  /\ t.to = s /\ t.op \in {"add", "merge"}
  /\ \E p \in t.left : p[1] = i /\ (v <= p[2] \/ (p[2] = Unread /\ v <= f[i]))

Brings(F, st, n, s, i, v) == BringsBy(queue[st][n], F[st][n], s, i, v)

\* When the task at n on st starts, register i of s is v or more.
Supplied(F, st, n, s, i, v) ==
  Held(s, i, v) \/ \E m \in Positions(st) : m < n /\ Brings(F, st, m, s, i, v)

\* The task at n on st will load register i of s.
LoadsOn(st, n, s, i) ==
  /\ queue[st][n].op = "load" /\ queue[st][n].to = s
  /\ \E p \in queue[st][n].left : p[1] = i

\* What is promised of register i of s is there, or is loaded.
KnownAt(s, i) ==
  \/ Held(s, i, promised[s][i])
  \/ \E st \in Streams : \E n \in Positions(st) : LoadsOn(st, n, s, i)

\* A load brings what is promised.
LoadAt(st, n) ==
  queue[st][n].op = "load" =>
    \A p \in queue[st][n].left : promised[queue[st][n].to][p[1]] <= p[2]

\* A merge finds its floors when it starts.
MergeAt(F, st, n) ==
  queue[st][n].op = "merge" =>
    \A p \in queue[st][n].left :
      p[2] = Unread => Supplied(F, st, n, queue[st][n].from, p[1], F[st][n][p[1]])

\* Register i of the copy is of s, and will be what the answer must say or more.
SnapshotAt(F, st, s, i) ==
  /\ Held(s, i, buf[st][i])
  /\ \/ call[st].must[i] <= buf[st][i]
     \/ \E n \in Positions(st) :
          /\ queue[st][n].op = "copy" /\ <<i, Unread>> \in queue[st][n].left
          /\ Supplied(F, st, n, s, i, call[st].must[i])

\* What st will have added to register i of s is there when its tasks are done.
PendingAt(F, st, s, i) == Supplied(F, st, Len(queue[st]) + 1, s, i, pending[st][s][i])

Enough(F) ==
  /\ \A s \in Sketches : \A i \in Slots(lgk[s]) :
       /\ KnownAt(s, i)
       /\ \A st \in Streams : PendingAt(F, st, s, i)
       /\ \A st \in Streams : SnapshotOn(st, s) => SnapshotAt(F, st, s, i)
  /\ \A st \in Streams : \A n \in Positions(st) : LoadAt(st, n) /\ MergeAt(F, st, n)

NoLess == \E F \in Floors : Enough(F)

-----------------------------------------------------------------------------
(* Arrays and queues.                                                      *)

LEMMA ArrayFacts ==
  ASSUME NEW l \in LgKs
  PROVE  /\ Zeros(l) \in Arrays(l)
         /\ \A i \in Slots(l) : Zeros(l)[i] = 0
         /\ \A a \in Arrays(l) : /\ DOMAIN a = Slots(l) /\ a \in AllArrays
                                 /\ \A i \in Slots(l) : a[i] \in 0 .. MaxRho
<1>1. 0 \in 0 .. MaxRho
  BY Params
<1>2. Zeros(l) \in Arrays(l) /\ \A i \in Slots(l) : Zeros(l)[i] = 0
  BY <1>1 DEF Zeros, Arrays
<1>3. ASSUME NEW a \in Arrays(l)
      PROVE  DOMAIN a = Slots(l) /\ a \in AllArrays /\ \A i \in Slots(l) : a[i] \in 0 .. MaxRho
  <2>1. a \in AllArrays
    BY DEF AllArrays
  <2> QED BY <2>1 DEF Arrays
<1> QED BY <1>2, <1>3

LEMMA JoinFacts ==
  ASSUME NEW l \in LgKs, NEW a \in Arrays(l), NEW b \in Arrays(l)
  PROVE  /\ Join(a, b) \in Arrays(l)
         /\ \A i \in Slots(l) : /\ a[i] <= Join(a, b)[i] /\ b[i] <= Join(a, b)[i]
                                /\ Join(a, b)[i] = a[i] \/ Join(a, b)[i] = b[i]
<1>1. DOMAIN a = Slots(l) /\ \A i \in Slots(l) : a[i] \in 0 .. MaxRho /\ b[i] \in 0 .. MaxRho
  BY ArrayFacts
<1>2. ASSUME NEW i \in Slots(l)
      PROVE  /\ Join(a, b)[i] \in 0 .. MaxRho
             /\ a[i] <= Join(a, b)[i] /\ b[i] <= Join(a, b)[i]
             /\ Join(a, b)[i] = a[i] \/ Join(a, b)[i] = b[i]
  <2>1. Join(a, b)[i] = Larger(a[i], b[i])
    BY <1>1 DEF Join
  <2> QED BY <1>1, <2>1, Params DEF Larger
<1>3. Join(a, b) = [i \in Slots(l) |-> Join(a, b)[i]]
  BY <1>1 DEF Join
<1>4. Join(a, b) \in Arrays(l)
  BY <1>2, <1>3 DEF Arrays
<1> QED BY <1>2, <1>4

LEMMA LeqFacts ==
  ASSUME NEW l \in LgKs, NEW a \in Arrays(l), NEW b \in Arrays(l)
  PROVE  Leq(a, b) <=> \A i \in Slots(l) : a[i] <= b[i]
BY ArrayFacts DEF Leq

(* What is done to the queues.                                             *)

\* The tasks follow those of st.
Appends(st, tasks) ==
  /\ queue' \in [Streams -> Seq(TaskSet)]
  /\ \A o \in Streams : o # st => queue'[o] = queue[o]
  /\ Len(queue'[st]) = Len(queue[st]) + Len(tasks)
  /\ \A n \in Positions(st) : queue'[st][n] = queue[st][n]
  /\ \A k \in 1 .. Len(tasks) : queue'[st][Len(queue[st]) + k] = tasks[k]

\* X is left of the first task of st.
Leaves(st, X) ==
  /\ queue' \in [Streams -> Seq(TaskSet)]
  /\ 1 \in Positions(st)
  /\ \A o \in Streams : Len(queue'[o]) = Len(queue[o])
  /\ \A o \in Streams : \A n \in Positions(o) :
       /\ queue'[o][n].op = queue[o][n].op /\ queue'[o][n].to = queue[o][n].to
       /\ queue'[o][n].from = queue[o][n].from
       /\ queue'[o][n].left = IF o = st /\ n = 1 THEN X ELSE queue[o][n].left

\* The first task of st is done.
Retires(st) ==
  /\ queue' \in [Streams -> Seq(TaskSet)]
  /\ 1 \in Positions(st) /\ queue[st][1].left = {}
  /\ \A o \in Streams : o # st => queue'[o] = queue[o]
  /\ Len(queue'[st]) = Len(queue[st]) - 1
  /\ \A n \in 1 .. Len(queue'[st]) : n + 1 \in Positions(st) /\ queue'[st][n] = queue[st][n + 1]

LEMMA QueueFacts ==
  ASSUME Typed, NEW st \in Streams
  PROVE  /\ queue[st] \in Seq(TaskSet) /\ Len(queue[st]) \in Nat
         /\ \A n \in Positions(st) : queue[st][n] \in TaskSet
         /\ queue[st] = <<>> <=> Positions(st) = {}
         /\ queue[st] # <<>> => 1 \in Positions(st) /\ Head(queue[st]) = queue[st][1]
<1>1. PICK q \in Seq(TaskSet) : q = queue[st]
  BY DEF Typed
<1>2. Len(q) \in Nat /\ \A n \in 1 .. Len(q) : q[n] \in TaskSet
  BY LenProperties, ElementOfSeq
<1>3. q # <<>> => Len(q) \in Nat \ {0}
  BY EmptySeq
<1>4. Len(<<>>) = 0 /\ Head(q) = q[1]
  OBVIOUS
<1> QED BY <1>1, <1>2, <1>3, <1>4 DEF Positions

LEMMA ShortQueues ==
  ASSUME NEW S, NEW t \in S, NEW u \in S
  PROVE  /\ \E q \in Seq(S) : q = <<t>> /\ Len(q) = 1 /\ q[1] = t
         /\ \E q \in Seq(S) : q = <<t, u>> /\ Len(q) = 2 /\ q[1] = t /\ q[2] = u
<1>1. <<t>> \in Seq(S) /\ Len(<<t>>) = 1 /\ <<t>>[1] = t
  OBVIOUS
<1>2. <<t, u>> \in Seq(S) /\ Len(<<t, u>>) = 2 /\ <<t, u>>[1] = t /\ <<t, u>>[2] = u
  OBVIOUS
<1> QED BY <1>1, <1>2

LEMMA EnqueueAppends ==
  ASSUME Typed, NEW st \in Streams, NEW tasks \in Seq(TaskSet), Enqueue(st, tasks)
  PROVE  Appends(st, tasks)
<1>1. queue[st] \in Seq(TaskSet) /\ Len(queue[st]) \in Nat
  BY QueueFacts
<1>2. PICK q \in Seq(TaskSet) : q = queue[st] \o tasks
  BY <1>1, ConcatProperties
<1>3. /\ Len(q) = Len(queue[st]) + Len(tasks) /\ Len(tasks) \in Nat
      /\ \A i \in 1 .. Len(queue[st]) + Len(tasks) :
           q[i] = IF i <= Len(queue[st]) THEN queue[st][i] ELSE tasks[i - Len(queue[st])]
  BY <1>1, <1>2, ConcatProperties, LenProperties
<1>4. \A n \in Positions(st) : q[n] = queue[st][n]
  BY <1>1, <1>3 DEF Positions
<1>5. \A k \in 1 .. Len(tasks) : q[Len(queue[st]) + k] = tasks[k]
  <2> SUFFICES ASSUME NEW k \in 1 .. Len(tasks) PROVE q[Len(queue[st]) + k] = tasks[k]
    OBVIOUS
  <2>1. PICK i \in 1 .. Len(queue[st]) + Len(tasks) : i = Len(queue[st]) + k
    BY <1>1, <1>3
  <2>2. ~(i <= Len(queue[st])) /\ i - Len(queue[st]) = k
    BY <1>1, <1>3, <2>1
  <2> QED BY <1>3, <2>1, <2>2
<1>6. queue' = [queue EXCEPT ![st] = q]
  BY <1>2 DEF Enqueue
<1>7. queue' \in [Streams -> Seq(TaskSet)] /\ queue'[st] = q
  BY <1>6 DEF Typed
<1>8. \A o \in Streams : o # st => queue'[o] = queue[o]
  BY <1>6 DEF Typed
<1> QED BY <1>3, <1>4, <1>5, <1>7, <1>8 DEF Appends

LEMMA AppendsWhence ==
  ASSUME Typed, NEW st \in Streams, NEW tasks \in Seq(TaskSet), Appends(st, tasks),
         NEW o \in Streams, NEW n \in Positions(o)'
  PROVE  \/ n \in Positions(o) /\ queue'[o][n] = queue[o][n]
         \/ /\ o = st
            /\ \E k \in 1 .. Len(tasks) : n = Len(queue[st]) + k /\ queue'[o][n] = tasks[k]
<1>0. Len(queue[o]) \in Nat /\ Len(tasks) \in Nat
  BY QueueFacts, LenProperties
<1>1. CASE o # st
  BY <1>1 DEF Appends, Positions
<1>2. CASE o = st
  <2>1. n \in Positions(st) \/ n - Len(queue[st]) \in 1 .. Len(tasks)
    BY <1>0, <1>2 DEF Positions, Appends
  <2>2. CASE n \in Positions(st)
    BY <1>2, <2>2 DEF Appends
  <2>3. CASE n - Len(queue[st]) \in 1 .. Len(tasks)
    <3>1. PICK k \in 1 .. Len(tasks) : k = n - Len(queue[st])
      BY <2>3
    <3>2. n = Len(queue[st]) + k
      BY <1>0, <1>2, <3>1 DEF Positions
    <3>3. queue'[st][Len(queue[st]) + k] = tasks[k]
      BY DEF Appends
    <3> QED BY <1>2, <3>2, <3>3
  <2> QED BY <2>1, <2>2, <2>3
<1> QED BY <1>1, <1>2

LEMMA LeavesHead ==
  ASSUME Typed, NEW st \in Streams, queue[st] # <<>>, NEW X \in SUBSET Pieces,
         queue' = [queue EXCEPT ![st][1].left = X]
  PROVE  Leaves(st, X)
<1>1. queue[st] \in Seq(TaskSet) /\ 1 \in Positions(st) /\ queue[st][1] \in TaskSet
  BY QueueFacts
<1>2. PICK t \in TaskSet : t = [queue[st][1] EXCEPT !.left = X]
  BY <1>1 DEF TaskSet
<1>3. t.op = queue[st][1].op /\ t.to = queue[st][1].to /\ t.from = queue[st][1].from /\ t.left = X
  BY <1>1, <1>2 DEF TaskSet
<1>4. PICK q \in Seq(TaskSet) : q = [queue[st] EXCEPT ![1] = t]
  BY <1>1, ExceptSeq DEF Positions
<1>5. Len(q) = Len(queue[st]) /\ q[1] = t /\ \A n \in Positions(st) : n # 1 => q[n] = queue[st][n]
  BY <1>1, <1>4, ExceptSeq DEF Positions
<1>6. queue' = [queue EXCEPT ![st] = q]
  BY <1>2, <1>4
<1>7. queue' \in [Streams -> Seq(TaskSet)] /\ queue'[st] = q
  BY <1>6 DEF Typed
<1>8. \A o \in Streams : o # st => queue'[o] = queue[o]
  BY <1>6 DEF Typed
<1> QED BY <1>1, <1>3, <1>5, <1>7, <1>8 DEF Leaves

LEMMA RetireRetires ==
  ASSUME Typed, NEW st \in Streams, Retire(st)
  PROVE  Retires(st)
<1>1. queue[st] \in Seq(TaskSet) /\ queue[st] # <<>> /\ 1 \in Positions(st)
      /\ queue[st][1].left = {}
  BY QueueFacts DEF Retire
<1>2. PICK q \in Seq(TaskSet) : q = Tail(queue[st])
  BY <1>1, HeadTailProperties
<1>3. Len(q) = Len(queue[st]) - 1 /\ \A n \in 1 .. Len(q) : q[n] = queue[st][n + 1]
  BY <1>1, <1>2, HeadTailProperties
<1>4. queue' = [queue EXCEPT ![st] = q]
  BY <1>2 DEF Retire
<1>5. queue' \in [Streams -> Seq(TaskSet)] /\ queue'[st] = q
  BY <1>4 DEF Typed
<1>6. \A o \in Streams : o # st => queue'[o] = queue[o]
  BY <1>4 DEF Typed
<1>7. \A n \in 1 .. Len(q) : n + 1 \in Positions(st)
  <2>1. Len(queue[st]) \in Nat
    BY QueueFacts
  <2> QED BY <1>3, <2>1 DEF Positions
<1> QED BY <1>1, <1>3, <1>5, <1>6, <1>7 DEF Retires

(* The tasks of the calls.                                                 *)
LEMMA PieceIs ==
  ASSUME NEW l \in LgKs, NEW i \in Slots(l), NEW v \in Unread .. MaxRho
  PROVE  <<i, v>> \in Pieces
BY SlotsFacts DEF Pieces

LEMMA TaskIs ==
  ASSUME NEW op \in Ops, NEW to \in Sketches, NEW from \in Sketches, NEW left \in SUBSET Pieces
  PROVE  \E t \in TaskSet : /\ t = Task(op, to, from, left) /\ t.op = op /\ t.to = to
                            /\ t.from = from /\ t.left = left
<1>1. PICK t \in TaskSet : t = [op |-> op, to |-> to, from |-> from, left |-> left]
  BY DEF TaskSet
<1> QED BY <1>1 DEF Task

LEMMA ValueRange == 0 \in Unread .. MaxRho /\ Unread \in Unread .. MaxRho
                    /\ 0 .. MaxRho \subseteq Unread .. MaxRho
BY Params DEF Unread

LEMMA ClearTask ==
  ASSUME NEW s \in Sketches, NEW l \in LgKs
  PROVE  \E t \in TaskSet : /\ t = Clear(s, l) /\ t.op = "clear" /\ t.to = s /\ t.from = s
                            /\ t.left = {<<i, 0>> : i \in Slots(l)}
<1> DEFINE X == {<<i, 0>> : i \in Slots(l)}
<1>1. X \in SUBSET Pieces
  BY PieceIs, ValueRange
<1> HIDE DEF X
<1>3. PICK t \in TaskSet : /\ t = Task("clear", s, s, X) /\ t.op = "clear" /\ t.to = s
                         /\ t.from = s /\ t.left = X
  BY <1>1, TaskIs DEF Ops
<1> QED BY <1>3 DEF X, Clear

LEMMA AddTask ==
  ASSUME NEW s \in Sketches, NEW l \in LgKs, NEW batch \in SUBSET Keys
  PROVE  \E t \in TaskSet : /\ t = Add(s, Coupons(batch, l)) /\ t.op = "add" /\ t.to = s
                            /\ t.from = s /\ t.left = Coupons(batch, l)
<1>1. ASSUME NEW p \in Coupons(batch, l) PROVE p \in Pieces
  <2>1. p = <<p[1], p[2]>> /\ p[1] \in Slots(l) /\ p[2] \in 1 .. MaxRho
    BY CouponsAgree
  <2>2. p[2] \in Unread .. MaxRho
    BY <2>1, ValueRange, Params
  <2> QED BY <2>1, <2>2, PieceIs
<1> QED BY <1>1, TaskIs DEF Add, Ops

LEMMA MergeTask ==
  ASSUME Typed, NEW s \in Sketches, NEW other \in Sketches
  PROVE  \E t \in TaskSet : /\ t = MergeFrom(s, other) /\ t.op = "merge" /\ t.to = s
                            /\ t.from = other /\ t.left = {<<i, Unread>> : i \in Slots(lgk[s])}
<1> DEFINE X == {<<i, Unread>> : i \in Slots(lgk[s])}
<1>1. lgk[s] \in LgKs
  BY DEF Typed
<1>2. X \in SUBSET Pieces
  BY <1>1, PieceIs, ValueRange
<1> HIDE DEF X
<1>3. PICK t \in TaskSet : /\ t = Task("merge", s, other, X) /\ t.op = "merge" /\ t.to = s
                         /\ t.from = other /\ t.left = X
  BY <1>2, TaskIs DEF Ops
<1> QED BY <1>3 DEF X, MergeFrom

LEMMA CopyTask ==
  ASSUME Typed, NEW s \in Sketches
  PROVE  \E t \in TaskSet : /\ t = CopyOut(s) /\ t.op = "copy" /\ t.to = s
                            /\ t.from = s /\ t.left = {<<i, Unread>> : i \in Slots(lgk[s])}
<1> DEFINE X == {<<i, Unread>> : i \in Slots(lgk[s])}
<1>1. lgk[s] \in LgKs
  BY DEF Typed
<1>2. X \in SUBSET Pieces
  BY <1>1, PieceIs, ValueRange
<1> HIDE DEF X
<1>3. PICK t \in TaskSet : /\ t = Task("copy", s, s, X) /\ t.op = "copy" /\ t.to = s
                         /\ t.from = s /\ t.left = X
  BY <1>2, TaskIs DEF Ops
<1> QED BY <1>3 DEF X, CopyOut

LEMMA LoadTask ==
  ASSUME NEW s \in Sketches, NEW l \in LgKs, NEW a \in Arrays(l)
  PROVE  \E t \in TaskSet : /\ t = Load(s, a) /\ t.op = "load" /\ t.to = s
                            /\ t.from = s /\ t.left = {<<i, a[i]>> : i \in Slots(l)}
<1> DEFINE X == {<<i, a[i]>> : i \in Slots(l)}
<1>1. DOMAIN a = Slots(l) /\ \A i \in Slots(l) : a[i] \in Unread .. MaxRho
  BY ArrayFacts, ValueRange
<1>2. X \in SUBSET Pieces
  BY <1>1, PieceIs
<1> HIDE DEF X
<1>3. PICK t \in TaskSet : /\ t = Task("load", s, s, X) /\ t.op = "load" /\ t.to = s
                         /\ t.from = s /\ t.left = X
  BY <1>2, TaskIs DEF Ops
<1> QED BY <1>1, <1>3 DEF X, Load

LEMMA FreeTask ==
  ASSUME NEW s \in Sketches
  PROVE  \E t \in TaskSet : /\ t = Free(s) /\ t.op = "free" /\ t.to = s
                            /\ t.from = s /\ t.left = {}
BY TaskIs DEF Free, Ops

-----------------------------------------------------------------------------
(* What the calls do to the arrays.                                        *)

LEMMA AllocateEffect ==
  ASSUME Typed, Sized, NEW st \in Streams, NEW s \in Sketches, NEW l \in LgKs, NEW a \in Arrays(l),
         Allocate(st, s, l, a)
  PROVE  /\ lgk' \in [Sketches -> LgKs] /\ home' \in [Sketches -> Streams]
         /\ regs' \in [Sketches -> AllArrays] /\ promised' \in [Sketches -> AllArrays]
         /\ may' \in [Sketches -> AllArrays]
         /\ pending' \in [Streams -> [Sketches -> AllArrays]]
         /\ Sized'
         /\ lgk'[s] = l /\ promised'[s] = a /\ may'[s] = a
         /\ \A o \in Streams : pending'[o][s] = Zeros(l)
         /\ \A x \in Sketches : x # s =>
              /\ lgk'[x] = lgk[x] /\ regs'[x] = regs[x] /\ promised'[x] = promised[x]
              /\ may'[x] = may[x] /\ \A o \in Streams : pending'[o][x] = pending[o][x]
<1>1. PICK g \in Garbage(l) : regs' = [regs EXCEPT ![s] = g]
  BY DEF Allocate
<1>2. g \in Arrays(l)
  <2>1. \A v \in {0, MaxRho} : v \in 0 .. MaxRho
    BY Params
  <2> QED BY <2>1 DEF Garbage, Arrays
<1>3. a \in AllArrays /\ g \in AllArrays /\ Zeros(l) \in AllArrays /\ Zeros(l) \in Arrays(l)
  BY <1>2, ArrayFacts
<1>4. /\ regs' \in [Sketches -> AllArrays] /\ regs'[s] = g
      /\ \A x \in Sketches : x # s => regs'[x] = regs[x]
  BY <1>1, <1>3 DEF Typed
<1>5. /\ lgk' \in [Sketches -> LgKs] /\ lgk'[s] = l
      /\ \A x \in Sketches : x # s => lgk'[x] = lgk[x]
  BY DEF Typed, Allocate
<1>6. home' \in [Sketches -> Streams]
  BY DEF Typed, Allocate
<1>7. /\ promised' \in [Sketches -> AllArrays] /\ promised'[s] = a
      /\ \A x \in Sketches : x # s => promised'[x] = promised[x]
  BY <1>3 DEF Typed, Allocate
<1>8. /\ may' \in [Sketches -> AllArrays] /\ may'[s] = a
      /\ \A x \in Sketches : x # s => may'[x] = may[x]
  BY <1>3 DEF Typed, Allocate
<1>9. /\ pending' \in [Streams -> [Sketches -> AllArrays]]
      /\ \A o \in Streams : pending'[o][s] = Zeros(l)
      /\ \A o \in Streams, x \in Sketches : x # s => pending'[o][x] = pending[o][x]
  BY <1>3 DEF Typed, Allocate
<1>10. Sized'
  BY <1>2, <1>3, <1>4, <1>5, <1>7, <1>8, <1>9 DEF Sized
<1> QED BY <1>4, <1>5, <1>6, <1>7, <1>8, <1>9, <1>10

LEMMA FedFacts ==
  ASSUME Typed, Owners, NEW s \in Sketches
  PROVE  /\ s \in Fed(s)
         /\ \A x \in Fed(s) : x \in Sketches /\ lgk[x] = lgk[s]
         /\ \A st \in Streams : \A n \in Positions(st) :
              queue[st][n].op = "merge" /\ queue[st][n].from \in Fed(s)
                => queue[st][n].to \in Fed(s)
<1> DEFINE Closed(C) == \A st \in Streams : \A t \in Tasks(st) :
                          t.op = "merge" /\ t.from \in C => t.to \in C
<1>1. Fed(s) = {x \in Sketches : \A C \in SUBSET Sketches : s \in C /\ Closed(C) => x \in C}
  BY DEF Fed
<1>2. \A st \in Streams : \A n \in Positions(st) :
        queue[st][n] \in Tasks(st) /\ queue[st][n] \in TaskSet
  <2> SUFFICES ASSUME NEW st \in Streams, NEW n \in Positions(st)
               PROVE  queue[st][n] \in Tasks(st) /\ queue[st][n] \in TaskSet
    OBVIOUS
  <2>1. DOMAIN queue[st] = Positions(st)
    BY QueueFacts, LenProperties DEF Positions
  <2> QED BY <2>1, QueueFacts DEF Tasks
<1>3. \A st \in Streams : \A t \in Tasks(st) : \E n \in Positions(st) : t = queue[st][n]
  <2> SUFFICES ASSUME NEW st \in Streams, NEW t \in Tasks(st)
               PROVE  \E n \in Positions(st) : t = queue[st][n]
    OBVIOUS
  <2>1. DOMAIN queue[st] = Positions(st)
    BY QueueFacts, LenProperties DEF Positions
  <2> QED BY <2>1 DEF Tasks
<1> DEFINE D == {x \in Sketches : lgk[x] = lgk[s]}
<1>4. Closed(D)
  <2> SUFFICES ASSUME NEW st \in Streams, NEW t \in Tasks(st), t.op = "merge", t.from \in D
               PROVE  t.to \in D
    OBVIOUS
  <2>1. PICK n \in Positions(st) : t = queue[st][n]
    BY <1>3
  <2>2. lgk[t.from] = lgk[t.to] /\ t.to \in Sketches
    BY <1>2, <2>1 DEF Owners, OwnerOK, TaskSet
  <2> QED BY <2>2
<1>5. ASSUME NEW st \in Streams, NEW n \in Positions(st), queue[st][n].op = "merge",
             queue[st][n].from \in Fed(s)
      PROVE  queue[st][n].to \in Fed(s)
  <2>1. queue[st][n] \in Tasks(st) /\ queue[st][n].to \in Sketches
    BY <1>2 DEF TaskSet
  <2>2. ASSUME NEW C \in SUBSET Sketches, s \in C, Closed(C) PROVE queue[st][n].to \in C
    <3>1. queue[st][n].from \in C
      BY <1>1, <1>5, <2>2
    <3> QED BY <1>5, <2>1, <2>2, <3>1
  <2> HIDE DEF Closed
  <2> QED BY <1>1, <2>1, <2>2
<1> HIDE DEF Closed
<1>6. s \in Fed(s)
  BY <1>1
<1>7. \A x \in Fed(s) : x \in Sketches /\ x \in D
  BY <1>1, <1>4
<1> QED BY <1>5, <1>6, <1>7

LEMMA PromiseEffect ==
  ASSUME Typed, Sized, Owners, NEW st \in Streams, NEW s \in Sketches,
         NEW least \in Arrays(lgk[s]), NEW most \in Arrays(lgk[s]), Promise(st, s, least, most),
         lgk' = lgk, regs' = regs
  PROVE  /\ may' \in [Sketches -> AllArrays] /\ pending' \in [Streams -> [Sketches -> AllArrays]]
         /\ promised' = promised /\ Sized'
         /\ \A x \in Sketches :
              may'[x] = IF x \in Fed(s) THEN Join(may[x], most) ELSE may[x]
         /\ \A o \in Streams, x \in Sketches :
              pending'[o][x] = IF o = st /\ x = s THEN Join(pending[st][s], least) ELSE pending[o][x]
<1>1. \A x \in Sketches : lgk[x] \in LgKs
  BY DEF Typed
<1>2. Join(pending[st][s], least) \in Arrays(lgk[s]) /\ Join(pending[st][s], least) \in AllArrays
  <2>1. pending[st][s] \in Arrays(lgk[s])
    BY DEF Sized
  <2>2. Join(pending[st][s], least) \in Arrays(lgk[s])
    BY <1>1, <2>1, JoinFacts
  <2> QED BY <1>1, <2>2, ArrayFacts
<1>3. \A x \in Fed(s) : Join(may[x], most) \in Arrays(lgk[x]) /\ Join(may[x], most) \in AllArrays
  <2> SUFFICES ASSUME NEW x \in Fed(s)
               PROVE  Join(may[x], most) \in Arrays(lgk[x]) /\ Join(may[x], most) \in AllArrays
    OBVIOUS
  <2>1. x \in Sketches /\ most \in Arrays(lgk[x])
    BY FedFacts
  <2>2. may[x] \in Arrays(lgk[x])
    BY <2>1 DEF Sized
  <2>3. Join(may[x], most) \in Arrays(lgk[x])
    BY <1>1, <2>1, <2>2, JoinFacts
  <2> QED BY <1>1, <2>1, <2>3, ArrayFacts
<1>4. may' = [x \in Sketches |-> IF x \in Fed(s) THEN Join(may[x], most) ELSE may[x]]
  BY DEF Promise
<1>5. /\ may' \in [Sketches -> AllArrays]
      /\ \A x \in Sketches : may'[x] = IF x \in Fed(s) THEN Join(may[x], most) ELSE may[x]
  BY <1>3, <1>4 DEF Typed
<1>6. PICK j \in AllArrays : j = Join(pending[st][s], least)
  BY <1>2
<1>7. pending' = [pending EXCEPT ![st][s] = j]
  BY <1>6 DEF Promise
<1>8. /\ pending' \in [Streams -> [Sketches -> AllArrays]]
      /\ \A o \in Streams, x \in Sketches :
           pending'[o][x] = IF o = st /\ x = s THEN j ELSE pending[o][x]
  BY <1>7 DEF Typed
<1>9. promised' = promised
  BY DEF Promise
<1>10. Sized'
  <2>1. \A x \in Sketches : may'[x] \in Arrays(lgk[x])
    BY <1>3, <1>5 DEF Sized
  <2>2. \A o \in Streams, x \in Sketches : pending'[o][x] \in Arrays(lgk[x])
    BY <1>2, <1>6, <1>8 DEF Sized
  <2> QED BY <1>9, <2>1, <2>2 DEF Sized
<1> QED BY <1>5, <1>6, <1>8, <1>9, <1>10

LEMMA LearnEffect ==
  ASSUME Typed, Sized, NEW st \in Streams, NEW seen, \A x \in Sketches : seen[x] \in Arrays(lgk[x]),
         Learn(st, seen), lgk' = lgk, regs' = regs
  PROVE  /\ promised' \in [Sketches -> AllArrays]
         /\ pending' \in [Streams -> [Sketches -> AllArrays]]
         /\ may' = may /\ Sized'
         /\ \A x \in Sketches : \A i \in Slots(lgk[x]) :
              \/ promised'[x][i] = promised[x][i]
              \/ promised'[x][i] = pending[st][x][i]
              \/ promised'[x][i] = seen[x][i]
         /\ \A o \in Streams, x \in Sketches :
              pending'[o][x] = IF o = st THEN Zeros(lgk[x]) ELSE pending[o][x]
<1>1. ASSUME NEW x \in Sketches
      PROVE  LET j == Join(Join(promised[x], pending[st][x]), seen[x])
             IN  /\ j \in Arrays(lgk[x]) /\ j \in AllArrays
                 /\ Zeros(lgk[x]) \in Arrays(lgk[x]) /\ Zeros(lgk[x]) \in AllArrays
                 /\ \A i \in Slots(lgk[x]) :
                      \/ j[i] = promised[x][i] \/ j[i] = pending[st][x][i] \/ j[i] = seen[x][i]
  <2>1. lgk[x] \in LgKs /\ seen[x] \in Arrays(lgk[x]) /\ promised[x] \in Arrays(lgk[x])
        /\ pending[st][x] \in Arrays(lgk[x])
    BY DEF Typed, Sized
  <2>2. PICK k \in Arrays(lgk[x]) : /\ k = Join(promised[x], pending[st][x])
                                    /\ \A i \in Slots(lgk[x]) : k[i] = promised[x][i]
                                                                \/ k[i] = pending[st][x][i]
    BY <2>1, JoinFacts
  <2>3. PICK j \in Arrays(lgk[x]) : /\ j = Join(k, seen[x])
                                    /\ \A i \in Slots(lgk[x]) : j[i] = k[i] \/ j[i] = seen[x][i]
    BY <2>1, JoinFacts
  <2>4. Zeros(lgk[x]) \in Arrays(lgk[x]) /\ Zeros(lgk[x]) \in AllArrays /\ j \in AllArrays
    BY <2>1, ArrayFacts
  <2> QED BY <2>2, <2>3, <2>4
<1>2. promised' = [x \in Sketches |-> Join(Join(promised[x], pending[st][x]), seen[x])]
  BY DEF Learn
<1>3. /\ promised' \in [Sketches -> AllArrays]
      /\ \A x \in Sketches : /\ promised'[x] \in Arrays(lgk[x])
                             /\ \A i \in Slots(lgk[x]) :
                                  \/ promised'[x][i] = promised[x][i]
                                  \/ promised'[x][i] = pending[st][x][i]
                                  \/ promised'[x][i] = seen[x][i]
  BY <1>1, <1>2
<1>4. PICK z \in [Sketches -> AllArrays] : /\ z = Nothing
                                           /\ \A x \in Sketches : z[x] = Zeros(lgk[x])
  <2>1. \A x \in Sketches : Zeros(lgk[x]) \in AllArrays
    BY <1>1
  <2>2. Nothing \in [Sketches -> AllArrays] /\ \A x \in Sketches : Nothing[x] = Zeros(lgk[x])
    BY <2>1 DEF Nothing
  <2> QED BY <2>2
<1>5. pending' = [pending EXCEPT ![st] = z]
  BY <1>4 DEF Learn
<1>6. /\ pending' \in [Streams -> [Sketches -> AllArrays]]
      /\ \A o \in Streams, x \in Sketches :
           pending'[o][x] = IF o = st THEN Zeros(lgk[x]) ELSE pending[o][x]
  BY <1>4, <1>5 DEF Typed
<1>7. may' = may
  BY DEF Learn
<1>8. Sized'
  <2>1. \A o \in Streams, x \in Sketches : pending'[o][x] \in Arrays(lgk[x])
    BY <1>1, <1>6 DEF Sized
  <2> QED BY <1>3, <1>7, <2>1 DEF Sized
<1> QED BY <1>3, <1>6, <1>7, <1>8

-----------------------------------------------------------------------------
(* Who works on what.                                                      *)

LEMMA TasksAre ==
  ASSUME Typed, NEW st \in Streams
  PROVE  /\ \A n \in Positions(st) : queue[st][n] \in Tasks(st)
         /\ \A t \in Tasks(st) : \E n \in Positions(st) : t = queue[st][n]
<1>1. DOMAIN queue[st] = Positions(st)
  BY QueueFacts, LenProperties DEF Positions
<1> QED BY <1>1 DEF Tasks

\* No other stream than st is still to clear x.
Settled(st, x) ==
  \A o \in Streams : \A n \in Positions(o) : o # st /\ queue[o][n].op = "clear" => queue[o][n].to # x

Idle(x) ==
  /\ \A o \in Streams : call[o] # None => x \notin call[o].uses
  /\ \A o \in Streams : \A n \in Positions(o) : ~Names(queue[o][n], x)

LEMMA UsableMeans ==
  ASSUME Typed, NEW st \in Streams, NEW s \in Sketches, Usable(st, s)
  PROVE  s \in live /\ Settled(st, s)
<1>1. ASSUME NEW o \in Streams, NEW n \in Positions(o), o # st, queue[o][n].op = "clear"
      PROVE  queue[o][n].to # s
  <2>1. queue[o][n] \in Tasks(o)
    BY TasksAre
  <2> QED BY <1>1, <2>1 DEF Usable
<1> QED BY <1>1 DEF Usable, Settled

LEMMA UnusedMeans ==
  ASSUME Typed, NEW s \in Sketches, Unused(s)
  PROVE  s \notin live /\ Idle(s)
<1>1. ASSUME NEW o \in Streams, NEW n \in Positions(o)
      PROVE  ~Names(queue[o][n], s)
  <2>1. queue[o][n] \in Tasks(o)
    BY TasksAre
  <2> QED BY <2>1 DEF Unused
<1> QED BY <1>1 DEF Unused, Idle

LEMMA OwnersUse ==
  ASSUME Owners, NEW st \in Streams, NEW n \in Positions(st)
  PROVE  OwnerOK(st, queue[st][n]) /\ ClearedFirst(st, n)
BY DEF Owners

(* One more task for sketches that are in use.                             *)
LEMMA AskedOwners ==
  ASSUME Typed, Owners, NEW st \in Streams, NEW t \in TaskSet, Appends(st, <<t>>), t.op # "clear",
         \A x \in {t.to, t.from} : x \in live /\ Settled(st, x),
         OwnerOK(st, t)',
         \A o \in Streams : o # st => call'[o] = call[o],
         \/ call'[st] = call[st]
         \/ /\ call[st] = None /\ CallOK(st)' /\ ~Asked(st, "deserialize")'
            /\ call'[st] # None => call'[st].uses \subseteq live,
         live' \subseteq live, \A o \in Streams : Asked(o, "snapshot") => call[o].sketch \in live',
         lgk' = lgk, \A o \in Streams : o # st \/ call'[st] = call[st] => buf'[o] = buf[o],
         \A o \in Streams, x \in Sketches : x \notin live => pending'[o][x] = pending[o][x]
  PROVE  Owners'
<1>0. /\ \A o \in Streams : Len(queue[o]) \in Nat
      /\ t.to \in Sketches /\ t.from \in Sketches
  BY QueueFacts DEF TaskSet
<1>1. ASSUME NEW o \in Streams, NEW n \in Positions(o)'
      PROVE  \/ n \in Positions(o) /\ queue'[o][n] = queue[o][n]
             \/ o = st /\ n = Len(queue[st]) + 1 /\ queue'[o][n] = t
  <2>1. PICK tasks \in Seq(TaskSet) : tasks = <<t>> /\ Len(tasks) = 1 /\ tasks[1] = t
    BY ShortQueues
  <2>2. \A k \in 1 .. Len(tasks) : k = 1 /\ tasks[k] = t
    BY <2>1
  <2>3. Appends(st, tasks)
    BY <2>1
  <2>4. \/ n \in Positions(o) /\ queue'[o][n] = queue[o][n]
        \/ /\ o = st
           /\ \E k \in 1 .. Len(tasks) : n = Len(queue[st]) + k /\ queue'[o][n] = tasks[k]
    BY <2>3, AppendsWhence
  <2> QED BY <2>2, <2>4
<1>2. ASSUME NEW o \in Streams PROVE CallOK(o)'
  <2>1. CASE call'[o] = call[o]
    <3>1. CallOK(o)
      BY DEF Owners
    <3>2. buf'[o] = buf[o]
      BY <2>1
    <3>3. Asked(o, "snapshot") => call[o].sketch \in live'
      OBVIOUS
    <3> QED BY <2>1, <3>1, <3>2, <3>3 DEF CallOK, Asked, LoadingOn
  <2> QED BY <2>1
<1>3. ASSUME NEW o \in Streams, NEW s \in Sketches, LoadingOn(o, s)'
      PROVE  LoadingOn(o, s) /\ LoadingAlone(o, s)
  <2>1. call'[o] = call[o]
    BY <1>3 DEF LoadingOn
  <2>2. LoadingOn(o, s)
    BY <1>3, <2>1 DEF LoadingOn, Asked
  <2> QED BY <2>2 DEF Owners
<1>4. ASSUME NEW o \in Streams, NEW n \in Positions(o)'
      PROVE  OwnerOK(o, queue[o][n])'
  <2>1. CASE n \in Positions(o) /\ queue'[o][n] = queue[o][n]
    <3>1. OwnerOK(o, queue[o][n])
      BY <2>1, OwnersUse
    <3>2. CASE call'[o] = call[o]
      BY <2>1, <3>1, <3>2 DEF OwnerOK, LoadingOn, SnapshotOn, Asked
    <3>3. CASE call[o] = None
      BY <2>1, <3>1, <3>3 DEF OwnerOK, LoadingOn, SnapshotOn, Asked
    <3> QED BY <3>2, <3>3
  <2>2. CASE o = st /\ n = Len(queue[st]) + 1 /\ queue'[o][n] = t
    BY <2>2 DEF OwnerOK, LoadingOn, SnapshotOn, Asked
  <2> QED BY <1>1, <2>1, <2>2
<1>5. ASSUME NEW o \in Streams, NEW n \in Positions(o)'
      PROVE  ClearedFirst(o, n)'
  <2> SUFFICES ASSUME queue'[o][n].op = "clear", NEW p \in Streams, NEW m \in Positions(p)',
                      Names(queue'[p][m], queue'[o][n].to)
               PROVE  p = o /\ (m = n \/ n < m)
    BY DEF ClearedFirst, Names
  <2>1. n \in Positions(o) /\ queue'[o][n] = queue[o][n]
    BY <1>1
  <2>2. CASE m \in Positions(p) /\ queue'[p][m] = queue[p][m]
    <3>1. ClearedFirst(o, n)
      BY <2>1, OwnersUse
    <3> QED BY <2>1, <2>2, <3>1 DEF ClearedFirst
  <2>3. CASE p = st /\ m = Len(queue[st]) + 1 /\ queue'[p][m] = t
    <3>1. queue[o][n].to \in {t.to, t.from}
      BY <2>1, <2>3 DEF Names
    <3>2. o = st
      BY <2>1, <3>1 DEF Settled
    <3>3. n < m
      BY <1>0, <2>1, <2>3, <3>2 DEF Positions
    <3> QED BY <2>3, <3>2, <3>3
  <2> QED BY <1>1, <2>2, <2>3
<1>6. ASSUME NEW o \in Streams, NEW s \in Sketches, LoadingOn(o, s)'
      PROVE  LoadingAlone(o, s)'
  <2>1. LoadingAlone(o, s)
    BY <1>3, <1>6
  <2>2. s \notin live /\ s \notin live'
    BY <2>1 DEF LoadingAlone
  <2>3. ASSUME NEW p \in Streams, p # o, call'[p] # None PROVE s \notin call'[p].uses
    BY <2>1, <2>2, <2>3 DEF LoadingAlone
  <2>4. ASSUME NEW p \in Streams, NEW n \in Positions(p)', Names(queue'[p][n], s)
        PROVE  p = o /\ queue'[p][n].op \in {"clear", "load"}
    <3>1. CASE n \in Positions(p) /\ queue'[p][n] = queue[p][n]
      BY <2>1, <2>4, <3>1 DEF LoadingAlone
    <3>2. CASE p = st /\ n = Len(queue[st]) + 1 /\ queue'[p][n] = t
      BY <2>2, <2>4, <3>2 DEF Names
    <3> QED BY <1>1, <3>1, <3>2
  <2>5. \A p \in Streams : pending'[p][s] = Zeros(lgk'[s])
    BY <2>1, <2>2 DEF LoadingAlone
  <2> QED BY <2>2, <2>3, <2>4, <2>5 DEF LoadingAlone, Names
<1> QED BY <1>2, <1>4, <1>5, <1>6 DEF Owners

(* A new sketch, on a stream that is not in a call.                        *)
LEMMA CreatedOwners ==
  ASSUME Typed, Owners, NEW st \in Streams, NEW s \in Sketches, NEW tasks \in Seq(TaskSet),
         Appends(st, tasks), s \notin live, Idle(s),
         \A k \in 1 .. Len(tasks) :
           /\ tasks[k].to = s /\ tasks[k].from = s /\ tasks[k].op \in {"clear", "load", "free"}
           /\ tasks[k].op = "clear" <=> k = 1,
         call[st] = None, \A o \in Streams : o # st => call'[o] = call[o],
         \/ /\ call'[st] = None /\ live' \in {live, live \cup {s}}
            /\ \A k \in 1 .. Len(tasks) : tasks[k].op # "load"
         \/ /\ LoadingOn(st, s)' /\ live' = live
            /\ \A k \in 1 .. Len(tasks) : tasks[k].op # "free",
         buf' = buf,
         \A x \in Sketches : x # s =>
           lgk'[x] = lgk[x] /\ \A o \in Streams : pending'[o][x] = pending[o][x],
         \A o \in Streams : pending'[o][s] = Zeros(lgk'[s])
  PROVE  Owners'
<1>0. /\ \A o \in Streams : Len(queue[o]) \in Nat
      /\ Len(tasks) \in Nat
  BY QueueFacts, LenProperties
<1>1. ASSUME NEW o \in Streams, NEW n \in Positions(o)'
      PROVE  \/ n \in Positions(o) /\ queue'[o][n] = queue[o][n] /\ ~Names(queue[o][n], s)
             \/ /\ o = st
                /\ \E k \in 1 .. Len(tasks) : n = Len(queue[st]) + k /\ queue'[o][n] = tasks[k]
  BY AppendsWhence DEF Idle
<1>2. ASSUME NEW o \in Streams PROVE CallOK(o)'
  <2>1. CASE o # st
    <3>1. CallOK(o)
      BY DEF Owners
    <3>2. call'[o] = call[o] /\ live \subseteq live' /\ buf'[o] = buf[o]
      BY <2>1
    <3>3. Asked(o, "snapshot") => lgk'[call[o].sketch] = lgk[call[o].sketch]
      <4> HAVE Asked(o, "snapshot")
      <4>1. call[o] # None /\ call[o].sketch \in call[o].uses /\ call[o].sketch \in live
        BY <3>1 DEF CallOK, Asked
      <4>2. call[o].sketch \in Sketches
        BY <4>1 DEF Typed
      <4> QED BY <4>1, <4>2
    <3> QED BY <3>1, <3>2, <3>3 DEF CallOK, Asked, LoadingOn
  <2>2. CASE o = st
    BY <2>2 DEF CallOK, Asked, LoadingOn
  <2> QED BY <2>1, <2>2
<1>3. ASSUME NEW o \in Streams, NEW n \in Positions(o)'
      PROVE  OwnerOK(o, queue[o][n])'
  <2>1. CASE n \in Positions(o) /\ queue'[o][n] = queue[o][n] /\ ~Names(queue[o][n], s)
    <3>1. OwnerOK(o, queue[o][n]) /\ queue[o][n] \in TaskSet
      BY <2>1, OwnersUse, QueueFacts
    <3>2. lgk'[queue[o][n].to] = lgk[queue[o][n].to] /\ lgk'[queue[o][n].from] = lgk[queue[o][n].from]
      BY <2>1, <3>1 DEF Names, TaskSet
    <3>3. CASE o # st
      BY <2>1, <3>1, <3>2, <3>3 DEF OwnerOK, LoadingOn, SnapshotOn, Asked
    <3>4. CASE o = st
      BY <2>1, <3>1, <3>2, <3>4 DEF OwnerOK, LoadingOn, SnapshotOn, Asked
    <3> QED BY <3>3, <3>4
  <2>2. CASE o = st /\ \E k \in 1 .. Len(tasks) : n = Len(queue[st]) + k /\ queue'[o][n] = tasks[k]
    <3>1. PICK k \in 1 .. Len(tasks) : queue'[o][n] = tasks[k]
      BY <2>2
    <3>2. tasks[k].op = "load" => LoadingOn(st, s)'
      OBVIOUS
    <3> QED BY <2>2, <3>1, <3>2 DEF OwnerOK, LoadingOn, SnapshotOn, Asked
  <2> QED BY <1>1, <2>1, <2>2
<1>4. ASSUME NEW o \in Streams, NEW n \in Positions(o)'
      PROVE  ClearedFirst(o, n)'
  <2> SUFFICES ASSUME queue'[o][n].op = "clear", NEW p \in Streams, NEW m \in Positions(p)',
                      Names(queue'[p][m], queue'[o][n].to)
               PROVE  p = o /\ (m = n \/ n < m)
    BY DEF ClearedFirst, Names
  <2>1. CASE n \in Positions(o) /\ queue'[o][n] = queue[o][n] /\ ~Names(queue[o][n], s)
    <3>1. m \in Positions(p) /\ queue'[p][m] = queue[p][m]
      BY <1>1, <2>1 DEF Names
    <3>2. ClearedFirst(o, n)
      BY <2>1, OwnersUse
    <3> QED BY <2>1, <3>1, <3>2 DEF ClearedFirst
  <2>2. CASE o = st /\ \E k \in 1 .. Len(tasks) : n = Len(queue[st]) + k /\ queue'[o][n] = tasks[k]
    <3>1. n = Len(queue[st]) + 1 /\ queue'[o][n].to = s
      BY <2>2
    <3>2. PICK k \in 1 .. Len(tasks) : p = st /\ m = Len(queue[st]) + k
      BY <1>1, <3>1
    <3>3. m = n \/ n < m
      BY <1>0, <3>1, <3>2
    <3> QED BY <2>2, <3>2, <3>3
  <2> QED BY <1>1, <2>1, <2>2
<1>5. ASSUME NEW o \in Streams, NEW x \in Sketches, LoadingOn(o, x)'
      PROVE  LoadingAlone(o, x)'
  <2>1. CASE o # st
    <3>1. LoadingOn(o, x)
      BY <1>5, <2>1 DEF LoadingOn, Asked
    <3>2. LoadingAlone(o, x) /\ x # s
      BY <3>1 DEF Owners, Idle, LoadingOn, Asked
    <3>3. x \notin live'
      BY <3>2 DEF LoadingAlone
    <3>4. ASSUME NEW p \in Streams, p # o, call'[p] # None PROVE x \notin call'[p].uses
      BY <3>2, <3>4 DEF LoadingAlone, LoadingOn
    <3>5. ASSUME NEW p \in Streams, NEW n \in Positions(p)', Names(queue'[p][n], x)
          PROVE  p = o /\ queue'[p][n].op \in {"clear", "load"}
      <4>1. n \in Positions(p) /\ queue'[p][n] = queue[p][n]
        BY <1>1, <3>2, <3>5 DEF Names
      <4> QED BY <3>2, <3>5, <4>1 DEF LoadingAlone
    <3>6. \A p \in Streams : pending'[p][x] = Zeros(lgk'[x])
      BY <3>2 DEF LoadingAlone
    <3> QED BY <3>3, <3>4, <3>5, <3>6 DEF LoadingAlone, Names
  <2>2. CASE o = st
    <3>1. x = s /\ live' = live /\ \A k \in 1 .. Len(tasks) : tasks[k].op # "free"
      BY SMTT(30), <1>5, <2>2 DEF LoadingOn, Asked
    <3>2. ASSUME NEW p \in Streams, p # o, call'[p] # None PROVE s \notin call'[p].uses
      BY <2>2, <3>2 DEF Idle
    <3>3. ASSUME NEW p \in Streams, NEW n \in Positions(p)', Names(queue'[p][n], s)
          PROVE  p = o /\ queue'[p][n].op \in {"clear", "load"}
      <4>1. PICK k \in 1 .. Len(tasks) : p = st /\ queue'[p][n] = tasks[k]
        BY <1>1, <3>3
      <4> QED BY <2>2, <3>1, <4>1
    <3> QED BY <3>1, <3>2, <3>3 DEF LoadingAlone, Names
  <2> QED BY <2>1, <2>2
<1> QED BY <1>2, <1>3, <1>4, <1>5 DEF Owners

(* The thread of a drained stream returns.                                 *)
LEMMA ReturnedOwners ==
  ASSUME Typed, Owners, NEW st \in Streams, Positions(st) = {},
         queue' = queue, lgk' = lgk, buf' = buf,
         \A o \in Streams : o # st => call'[o] = call[o], call'[st] = None,
         \/ live' = live
         \/ Asked(st, "deserialize") /\ live' = live \cup call[st].uses,
         \A o \in Streams, x \in Sketches :
           pending'[o][x] = IF o = st THEN Zeros(lgk[x]) ELSE pending[o][x]
  PROVE  Owners'
<1>1. ASSUME NEW o \in Streams PROVE CallOK(o)'
  <2>1. CallOK(o)
    BY DEF Owners
  <2>2. live \subseteq live'
    OBVIOUS
  <2>3. CASE o = st
    BY <2>3 DEF CallOK, Asked
  <2>4. CASE o # st
    BY <2>1, <2>2, <2>4 DEF CallOK, Asked, LoadingOn
  <2> QED BY <2>3, <2>4
<1>2. ASSUME NEW o \in Streams, NEW n \in Positions(o)'
      PROVE  OwnerOK(o, queue[o][n])' /\ ClearedFirst(o, n)'
  <2>1. n \in Positions(o) /\ o # st
    BY <1>2 DEF Positions
  <2>2. OwnerOK(o, queue[o][n]) /\ ClearedFirst(o, n)
    BY <2>1, OwnersUse
  <2> QED BY <2>1, <2>2 DEF OwnerOK, LoadingOn, SnapshotOn, Asked, ClearedFirst, Positions
<1>3. ASSUME NEW o \in Streams, NEW s \in Sketches, LoadingOn(o, s)'
      PROVE  LoadingAlone(o, s)'
  <2>1. LoadingOn(o, s) /\ o # st
    BY <1>3 DEF LoadingOn, Asked
  <2>2. LoadingAlone(o, s)
    BY <2>1 DEF Owners
  <2>3. s \notin live'
    BY <2>1, <2>2 DEF LoadingAlone, Asked
  <2>4. ASSUME NEW p \in Streams, p # o, call'[p] # None PROVE s \notin call'[p].uses
    BY <2>2, <2>4 DEF LoadingAlone
  <2>5. \A p \in Streams : pending'[p][s] = Zeros(lgk'[s])
    BY <2>2 DEF LoadingAlone
  <2> QED BY <2>2, <2>3, <2>4, <2>5 DEF LoadingAlone, Positions
<1> QED BY <1>1, <1>2, <1>3 DEF Owners

(* The device's work.                                                      *)

\* The tasks are those there were, but for those that are done.
Remains ==
  \A o \in Streams : \E d \in {0, 1} : \A n \in 1 .. Len(queue'[o]) :
    /\ n + d \in Positions(o)
    /\ queue'[o][n].op = queue[o][n + d].op /\ queue'[o][n].to = queue[o][n + d].to
    /\ queue'[o][n].from = queue[o][n + d].from

LEMMA LeavesRemains ==
  ASSUME Typed, NEW st \in Streams, NEW X, Leaves(st, X)
  PROVE  Remains
<1> SUFFICES ASSUME NEW o \in Streams
             PROVE  \A n \in 1 .. Len(queue'[o]) :
                      /\ n + 0 \in Positions(o)
                      /\ queue'[o][n].op = queue[o][n + 0].op /\ queue'[o][n].to = queue[o][n + 0].to
                      /\ queue'[o][n].from = queue[o][n + 0].from
  BY DEF Remains
<1>1. Len(queue[o]) \in Nat
  BY QueueFacts
<1> QED BY <1>1 DEF Leaves, Positions

LEMMA RetiresRemains ==
  ASSUME Typed, NEW st \in Streams, Retires(st)
  PROVE  Remains
<1>1. ASSUME NEW o \in Streams, o # st
      PROVE  \A n \in 1 .. Len(queue'[o]) :
               /\ n + 0 \in Positions(o)
               /\ queue'[o][n].op = queue[o][n + 0].op /\ queue'[o][n].to = queue[o][n + 0].to
               /\ queue'[o][n].from = queue[o][n + 0].from
  <2>1. Len(queue[o]) \in Nat
    BY QueueFacts
  <2> QED BY <1>1, <2>1 DEF Retires, Positions
<1>2. \A n \in 1 .. Len(queue'[st]) :
        /\ n + 1 \in Positions(st)
        /\ queue'[st][n].op = queue[st][n + 1].op /\ queue'[st][n].to = queue[st][n + 1].to
        /\ queue'[st][n].from = queue[st][n + 1].from
  BY DEF Retires
<1> QED BY <1>1, <1>2 DEF Remains

LEMMA WorkedOwners ==
  ASSUME Typed, Owners, Remains, live' = live, lgk' = lgk, call' = call, pending' = pending,
         \A o \in Streams : Asked(o, "snapshot") => buf'[o] \in Arrays(lgk[call[o].sketch])
  PROVE  Owners'
<1>0. \A o \in Streams : Positions(o) \subseteq Nat
  BY QueueFacts DEF Positions
<1>1. ASSUME NEW o \in Streams PROVE CallOK(o)'
  <2>1. CallOK(o)
    BY DEF Owners
  <2> QED BY <2>1 DEF CallOK, Asked, LoadingOn
<1>2. ASSUME NEW o \in Streams, NEW n \in Positions(o)'
      PROVE  OwnerOK(o, queue[o][n])'
  <2>1. PICK k \in Positions(o) :
          /\ queue'[o][n].op = queue[o][k].op /\ queue'[o][n].to = queue[o][k].to
          /\ queue'[o][n].from = queue[o][k].from
    BY DEF Remains, Positions
  <2>2. OwnerOK(o, queue[o][k])
    BY OwnersUse
  <2> QED BY <2>1, <2>2 DEF OwnerOK, LoadingOn, SnapshotOn, Asked
<1>3. ASSUME NEW o \in Streams, NEW n \in Positions(o)'
      PROVE  ClearedFirst(o, n)'
  <2> SUFFICES ASSUME queue'[o][n].op = "clear", NEW p \in Streams, NEW m \in Positions(p)',
                      Names(queue'[p][m], queue'[o][n].to)
               PROVE  p = o /\ (m = n \/ n < m)
    BY DEF ClearedFirst, Names
  <2>1. PICK d \in {0, 1} : \A k \in 1 .. Len(queue'[o]) :
          /\ k + d \in Positions(o)
          /\ queue'[o][k].op = queue[o][k + d].op /\ queue'[o][k].to = queue[o][k + d].to
          /\ queue'[o][k].from = queue[o][k + d].from
    BY DEF Remains
  <2>2. PICK e \in {0, 1} : \A k \in 1 .. Len(queue'[p]) :
          /\ k + e \in Positions(p)
          /\ queue'[p][k].op = queue[p][k + e].op /\ queue'[p][k].to = queue[p][k + e].to
          /\ queue'[p][k].from = queue[p][k + e].from
    BY DEF Remains
  <2>3. PICK i \in Positions(o) : i = n + d /\ queue[o][i].op = "clear"
                                  /\ queue[o][i].to = queue'[o][n].to
    BY <2>1 DEF Positions
  <2>4. PICK j \in Positions(p) : Names(queue[p][j], queue[o][i].to) /\ (p = o => j = m + d)
    <3>1. CASE p = o
      <4>1. PICK j \in Positions(o) :
              /\ j = m + d /\ queue'[o][m].to = queue[o][j].to
              /\ queue'[o][m].from = queue[o][j].from
        BY <2>1, <3>1 DEF Positions
      <4> QED BY <2>3, <3>1, <4>1 DEF Names
    <3>2. CASE p # o
      <4>1. PICK j \in Positions(p) : /\ queue'[p][m].to = queue[p][j].to
                                      /\ queue'[p][m].from = queue[p][j].from
        BY <2>2 DEF Positions
      <4> QED BY <2>3, <3>2, <4>1 DEF Names
    <3> QED BY <3>1, <3>2
  <2>5. p = o /\ (j = i \/ i < j)
    <3>1. ClearedFirst(o, i)
      BY OwnersUse
    <3> QED BY <2>3, <2>4, <3>1 DEF ClearedFirst
  <2>6. m \in Nat /\ n \in Nat
    BY DEF Positions
  <2> QED BY <1>0, <2>3, <2>4, <2>5, <2>6
<1>4. ASSUME NEW o \in Streams, NEW s \in Sketches, LoadingOn(o, s)'
      PROVE  LoadingAlone(o, s)'
  <2>1. LoadingAlone(o, s)
    BY <1>4 DEF Owners, LoadingOn, Asked
  <2>2. ASSUME NEW p \in Streams, NEW n \in Positions(p)', Names(queue'[p][n], s)
        PROVE  p = o /\ queue'[p][n].op \in {"clear", "load"}
    <3>1. PICK k \in Positions(p) :
            /\ queue'[p][n].op = queue[p][k].op /\ queue'[p][n].to = queue[p][k].to
            /\ queue'[p][n].from = queue[p][k].from
      BY DEF Remains, Positions
    <3> QED BY <2>1, <2>2, <3>1 DEF LoadingAlone, Names
  <2> QED BY <2>1, <2>2 DEF LoadingAlone, Names
<1> QED BY <1>1, <1>2, <1>3, <1>4 DEF Owners

-----------------------------------------------------------------------------
(* New sketches.                                                           *)

LEMMA ImageRegisters ==
  ASSUME Shapes, NEW image \in Foreign \cup OwnImages, HeaderValid(image)
  PROVE  /\ image.lgK \in LgKs
         /\ RegistersValid(image) => RegistersOf(image) \in Arrays(image.lgK)
<1>1. image.lgK \in LgKs
  BY DEF HeaderValid
<1> SUFFICES ASSUME RegistersValid(image)
             PROVE  RegistersOf(image) \in Arrays(image.lgK)
  BY <1>1
<1>2. PICK l \in LgKs : l = image.lgK
  BY <1>1
<1>3. Pow(l) \in Nat \ {0} /\ Slots(l) = 0 .. Pow(l) - 1 /\ MaxRho \in Nat
  BY SlotsFacts, Params
<1>4. PICK b : b = image.body
  OBVIOUS
<1>5. \A n \in 1 .. Pow(l) : b[n] \in 0 .. MaxRho
  <2>1. CASE image \in Foreign
    <3>1. image \in Images /\ image.size >= PREAMBLE_BYTES
          /\ image.size = PREAMBLE_BYTES + Pow(l) /\ Len(b) = image.size - PREAMBLE_BYTES
      BY <1>2, <1>4, <2>1, ImageAssumption DEF HeaderValid, Pow
    <3>2. b \in Seq(Nat) /\ Len(b) = Pow(l)
      BY <1>3, <1>4, <3>1 DEF Images, PREAMBLE_BYTES
    <3>3. \A n \in 1 .. Pow(l) : b[n] \in Nat
      BY <3>2, ElementOfSeq
    <3>4. \A n \in 1 .. Pow(l) : b[n] <= MaxRho
      BY <1>2, <1>4 DEF RegistersValid, Pow
    <3> QED BY <1>3, <3>3, <3>4
  <2>2. CASE image \in OwnImages
    <3>1. ImageOK(image)
      BY <2>2 DEF OwnImages, Shapes
    <3> QED BY <1>2, <1>4, <3>1 DEF ImageOK, Pow
  <2> QED BY <2>1, <2>2
<1>6. \A k \in Slots(l) : k + 1 \in 1 .. Pow(l)
  BY <1>3
<1>7. RegistersOf(image) = [k \in Slots(l) |-> b[k + 1]]
  BY <1>2, <1>4 DEF RegistersOf
<1>8. [k \in Slots(l) |-> b[k + 1]] \in [Slots(l) -> 0 .. MaxRho]
  BY <1>5, <1>6
<1> QED BY <1>2, <1>7, <1>8 DEF Arrays

\* s is allocated, and the tasks that initialize it are queued.
Creates(st, s, l, a, tasks) ==
  /\ s \notin live /\ Idle(s) /\ call[st] = None
  /\ Allocate(st, s, l, a) /\ Appends(st, tasks) /\ buf' = buf /\ answer' = answer
  /\ 1 \in 1 .. Len(tasks)
  /\ \A k \in 1 .. Len(tasks) :
       /\ tasks[k].to = s /\ tasks[k].from = s /\ tasks[k].op \in {"clear", "load", "free"}
       /\ tasks[k].op = "clear" <=> k = 1
       /\ tasks[k].op = "clear" => tasks[k].left = {<<i, 0>> : i \in Slots(l)}
       /\ tasks[k].op = "load" => tasks[k].left = {<<i, a[i]>> : i \in Slots(l)}
       /\ tasks[k].op = "free" => tasks[k].left = {}
  /\ a = Zeros(l) \/ \E k \in 1 .. Len(tasks) : tasks[k].op = "load"
  /\ calls' \in 0 .. MaxCalls
  /\ \A o \in Streams : o # st => call'[o] = call[o]
  /\ call' \in [Streams -> {None} \cup Waits \cup Snapshots]
  /\ \/ /\ call'[st] = None /\ live' \in {live, live \cup {s}}
        /\ \A k \in 1 .. Len(tasks) : tasks[k].op # "load"
     \/ /\ LoadingOn(st, s)' /\ live' = live
        /\ \A k \in 1 .. Len(tasks) : tasks[k].op # "free"

LEMMA CallingMeans ==
  ASSUME Typed, NEW st, Calling(st)
  PROVE  call[st] = None /\ calls' \in 0 .. MaxCalls
BY SketchAssumption DEF Calling, Typed

LEMMA ConstructCreates ==
  ASSUME Base, NEW st \in Streams, NEW s \in Sketches, NEW l \in LgKs, Construct(st, s, l)
  PROVE  \E tasks \in Seq(TaskSet) : Creates(st, s, l, Zeros(l), tasks)
<1>1. Typed
  BY DEF Base
<1>2. PICK t \in TaskSet : /\ t = Clear(s, l) /\ t.op = "clear" /\ t.to = s /\ t.from = s
                           /\ t.left = {<<i, 0>> : i \in Slots(l)}
  BY ClearTask
<1>3. PICK tasks \in Seq(TaskSet) : tasks = <<t>> /\ Len(tasks) = 1 /\ tasks[1] = t
  BY ShortQueues
<1>4. Len(tasks) = 1 /\ tasks[1] = t
  BY <1>3
<1>5. Appends(st, tasks)
  BY <1>1, <1>2, <1>3, EnqueueAppends DEF Construct
<1>6. call[st] = None /\ calls' \in 0 .. MaxCalls
  BY <1>1, CallingMeans DEF Construct
<1>7. s \notin live /\ Idle(s)
  BY <1>1, UnusedMeans DEF Construct
<1>8. call' = call /\ call' \in [Streams -> {None} \cup Waits \cup Snapshots]
  BY <1>1 DEF Construct, Typed
<1>9. \A k \in 1 .. Len(tasks) : k = 1 /\ tasks[k] = t
  BY <1>4
<1>10. Creates(st, s, l, Zeros(l), tasks)
  BY <1>2, <1>4, <1>5, <1>6, <1>7, <1>8, <1>9 DEF Creates, Construct
<1> QED BY <1>10

LEMMA WaitingIs ==
  ASSUME NEW s \in Sketches
  PROVE  \E w \in Waits : w = Waiting("deserialize", {s}) /\ w.op = "deserialize" /\ w.uses = {s}
                          /\ w # None
<1>1. PICK w \in Waits : w = [op |-> "deserialize", uses |-> {s}]
  BY DEF Waits
<1> QED BY <1>1, SketchAssumption DEF Waiting

LEMMA DeserializeCreates ==
  ASSUME Base, NEW st \in Streams, NEW s \in Sketches, NEW image \in Foreign \cup OwnImages,
         Deserialize(st, s, image)
  PROVE  \E l \in LgKs : \E a \in Arrays(l) : \E tasks \in Seq(TaskSet) : Creates(st, s, l, a, tasks)
<1>1. Typed /\ Shapes
  BY DEF Base
<1>2. PICK l \in LgKs : l = image.lgK
  BY <1>1, ImageRegisters DEF Deserialize
<1>3. PICK t \in TaskSet : /\ t = Clear(s, l) /\ t.op = "clear" /\ t.to = s /\ t.from = s
                           /\ t.left = {<<i, 0>> : i \in Slots(l)}
  BY ClearTask
<1>4. call[st] = None /\ calls' \in 0 .. MaxCalls
  BY <1>1, CallingMeans DEF Deserialize
<1>5. s \notin live /\ Idle(s)
  BY <1>1, UnusedMeans DEF Deserialize
<1>6. live' = live /\ buf' = buf /\ answer' = answer
  BY DEF Deserialize
<1>7. CASE RegistersValid(image)
  <2>1. PICK a \in Arrays(l) : a = RegistersOf(image)
    BY <1>1, <1>2, <1>7, ImageRegisters DEF Deserialize
  <2>2. PICK u \in TaskSet : /\ u = Load(s, a) /\ u.op = "load" /\ u.to = s /\ u.from = s
                             /\ u.left = {<<i, a[i]>> : i \in Slots(l)}
    BY LoadTask
  <2>3. PICK tasks \in Seq(TaskSet) : /\ tasks = <<t, u>> /\ Len(tasks) = 2
                                      /\ tasks[1] = t /\ tasks[2] = u
    BY ShortQueues
  <2>4. Len(tasks) = 2 /\ tasks[1] = t /\ tasks[2] = u
    BY <2>3
  <2>5. Enqueue(st, tasks) /\ Allocate(st, s, l, a)
        /\ call' = [call EXCEPT ![st] = Waiting("deserialize", {s})]
    BY <1>2, <1>3, <1>7, <2>1, <2>2, <2>3 DEF Deserialize
  <2>6. Appends(st, tasks)
    BY <1>1, <2>5, EnqueueAppends
  <2>7. PICK w \in Waits : /\ w = Waiting("deserialize", {s}) /\ w.op = "deserialize"
                           /\ w.uses = {s} /\ w # None
    BY WaitingIs
  <2>8. /\ call' \in [Streams -> {None} \cup Waits \cup Snapshots] /\ call'[st] = w
        /\ \A o \in Streams : o # st => call'[o] = call[o]
    BY <1>1, <2>5, <2>7 DEF Typed
  <2>9. LoadingOn(st, s)'
    BY <2>7, <2>8 DEF LoadingOn, Asked
  <2>10. \A k \in 1 .. Len(tasks) : (k = 1 /\ tasks[k] = t) \/ (k = 2 /\ tasks[k] = u)
    BY <2>4
  <2>11. 2 \in 1 .. Len(tasks) /\ tasks[2].op = "load" /\ 1 \in 1 .. Len(tasks)
    BY <2>2, <2>4
  <2>12. \A k \in 1 .. Len(tasks) :
           /\ tasks[k].to = s /\ tasks[k].from = s /\ tasks[k].op \in {"clear", "load"}
           /\ tasks[k].op = "clear" <=> k = 1
           /\ tasks[k].op = "clear" => tasks[k].left = {<<i, 0>> : i \in Slots(l)}
           /\ tasks[k].op = "load" => tasks[k].left = {<<i, a[i]>> : i \in Slots(l)}
    BY <1>3, <2>2, <2>10
  <2>13. Creates(st, s, l, a, tasks)
    BY <1>4, <1>5, <1>6, <2>5, <2>6, <2>8, <2>9, <2>11, <2>12 DEF Creates
  <2> QED BY <2>13
<1>8. CASE ~RegistersValid(image)
  <2>2. PICK u \in TaskSet : u = Free(s) /\ u.op = "free" /\ u.to = s /\ u.from = s /\ u.left = {}
    BY FreeTask
  <2>3. PICK tasks \in Seq(TaskSet) : /\ tasks = <<t, u>> /\ Len(tasks) = 2
                                      /\ tasks[1] = t /\ tasks[2] = u
    BY ShortQueues
  <2>4. Len(tasks) = 2 /\ tasks[1] = t /\ tasks[2] = u
    BY <2>3
  <2>5. Enqueue(st, tasks) /\ Allocate(st, s, l, Zeros(l)) /\ call' = call
    BY <1>2, <1>3, <1>8, <2>2, <2>3 DEF Deserialize
  <2>6. Appends(st, tasks)
    BY <1>1, <2>5, EnqueueAppends
  <2>7. call' \in [Streams -> {None} \cup Waits \cup Snapshots]
    BY <1>1, <2>5 DEF Typed
  <2>8. \A k \in 1 .. Len(tasks) : (k = 1 /\ tasks[k] = t) \/ (k = 2 /\ tasks[k] = u)
    BY <2>4
  <2>9. \A k \in 1 .. Len(tasks) :
           /\ tasks[k].to = s /\ tasks[k].from = s /\ tasks[k].op \in {"clear", "free"}
           /\ tasks[k].op = "clear" <=> k = 1
           /\ tasks[k].op = "clear" => tasks[k].left = {<<i, 0>> : i \in Slots(l)}
           /\ tasks[k].op = "free" => tasks[k].left = {}
    BY <1>3, <2>2, <2>8
  <2>10. 1 \in 1 .. Len(tasks)
    BY <2>4
  <2>11. Creates(st, s, l, Zeros(l), tasks)
    BY <1>4, <1>5, <1>6, <2>5, <2>6, <2>7, <2>9, <2>10 DEF Creates
  <2> QED BY <2>11, ArrayFacts
<1> QED BY <1>7, <1>8

LEMMA CreatesBase ==
  ASSUME Base, NEW st \in Streams, NEW s \in Sketches, NEW l \in LgKs, NEW a \in Arrays(l),
         NEW tasks \in Seq(TaskSet), Creates(st, s, l, a, tasks)
  PROVE  Base'
<1>1. Typed /\ Sized /\ Owners /\ Shapes
  BY DEF Base
<1>2. Allocate(st, s, l, a) /\ Appends(st, tasks)
  BY DEF Creates
<1>3. /\ lgk' \in [Sketches -> LgKs] /\ home' \in [Sketches -> Streams]
      /\ regs' \in [Sketches -> AllArrays] /\ promised' \in [Sketches -> AllArrays]
      /\ may' \in [Sketches -> AllArrays] /\ pending' \in [Streams -> [Sketches -> AllArrays]]
      /\ Sized'
      /\ lgk'[s] = l /\ \A o \in Streams : pending'[o][s] = Zeros(l)
      /\ \A x \in Sketches : x # s =>
           lgk'[x] = lgk[x] /\ \A o \in Streams : pending'[o][x] = pending[o][x]
  BY <1>1, <1>2, AllocateEffect
<1>4. Typed'
  <2>1. live' \in SUBSET Sketches
    BY <1>1 DEF Creates, Typed
  <2>2. buf' \in [Streams -> AllArrays]
    BY <1>1 DEF Creates, Typed
  <2>3. queue' \in [Streams -> Seq(TaskSet)]
    BY <1>2 DEF Appends
  <2> QED BY <1>3, <2>1, <2>2, <2>3 DEF Typed, Creates
<1>5. Owners'
  <2>1. /\ Appends(st, tasks) /\ s \notin live /\ Idle(s) /\ call[st] = None /\ buf' = buf
        /\ \A o \in Streams : o # st => call'[o] = call[o]
    BY DEF Creates
  <2>2. \A k \in 1 .. Len(tasks) :
          /\ tasks[k].to = s /\ tasks[k].from = s /\ tasks[k].op \in {"clear", "load", "free"}
          /\ tasks[k].op = "clear" <=> k = 1
    BY DEF Creates
  <2>3. \/ /\ call'[st] = None /\ live' \in {live, live \cup {s}}
           /\ \A k \in 1 .. Len(tasks) : tasks[k].op # "load"
        \/ /\ LoadingOn(st, s)' /\ live' = live
           /\ \A k \in 1 .. Len(tasks) : tasks[k].op # "free"
    BY DEF Creates
  <2>4. \A o \in Streams : pending'[o][s] = Zeros(lgk'[s])
    BY <1>3
  <2>5. \A x \in Sketches : x # s =>
          lgk'[x] = lgk[x] /\ \A o \in Streams : pending'[o][x] = pending[o][x]
    BY <1>3
  <2> QED BY <1>1, <2>1, <2>2, <2>3, <2>4, <2>5, CreatedOwners
<1>6. ASSUME NEW o \in Streams, NEW n \in Positions(o)'
      PROVE  PiecesOK(queue[o][n])'
  <2>1. CASE n \in Positions(o) /\ queue'[o][n] = queue[o][n]
    <3>1. queue[o][n] \in TaskSet /\ ~Names(queue[o][n], s) /\ PiecesOK(queue[o][n])
      BY <1>1, <2>1, QueueFacts DEF Creates, Idle, Shapes
    <3>2. lgk'[queue[o][n].to] = lgk[queue[o][n].to]
      BY <1>3, <3>1 DEF TaskSet, Names
    <3> QED BY <2>1, <3>1, <3>2 DEF PiecesOK
  <2>2. ASSUME NEW k \in 1 .. Len(tasks), queue'[o][n] = tasks[k]
        PROVE  PiecesOK(queue[o][n])'
    <3>1. tasks[k].to = s
      BY DEF Creates
    <3>2. CASE tasks[k].op = "clear"
      <4>1. tasks[k].left = {<<i, 0>> : i \in Slots(l)}
        BY <3>2 DEF Creates
      <4> QED BY <1>3, <2>2, <3>1, <3>2, <4>1 DEF PiecesOK
    <3>3. CASE tasks[k].op = "load"
      <4>1. tasks[k].left = {<<i, a[i]>> : i \in Slots(l)}
        BY <3>3 DEF Creates
      <4>2. \A i \in Slots(l) : a[i] # Unread
        BY ArrayFacts, Params DEF Unread
      <4> QED BY <1>3, <2>2, <3>1, <3>3, <4>1, <4>2 DEF PiecesOK
    <3>4. CASE tasks[k].op = "free"
      <4>1. tasks[k].left = {}
        BY <3>4 DEF Creates
      <4> QED BY <1>3, <2>2, <3>1, <3>4, <4>1 DEF PiecesOK
    <3> QED BY <3>2, <3>3, <3>4 DEF Creates
  <2> QED BY <1>1, <1>2, <2>1, <2>2, AppendsWhence
<1>7. Shapes'
  <2>1. answer' = answer
    BY DEF Creates
  <2> QED BY <1>1, <1>6, <2>1 DEF Shapes, ImageOK
<1> QED BY <1>3, <1>4, <1>5, <1>7 DEF Base

-----------------------------------------------------------------------------
(* Work for sketches that are in use.                                      *)

\* A task follows on st, for sketches that are in use there.
Asks(st, t) ==
  /\ t.op \in {"add", "merge", "copy", "free"} /\ Appends(st, <<t>>)
  /\ \A x \in {t.to, t.from} : x \in live /\ Settled(st, x)
  /\ OwnerOK(st, t)' /\ PiecesOK(t)
  /\ calls' \in 0 .. MaxCalls
  /\ regs' = regs /\ lgk' = lgk /\ home' = home /\ answer' = answer /\ promised' = promised
  /\ may' \in [Sketches -> AllArrays] /\ pending' \in [Streams -> [Sketches -> AllArrays]]
  /\ Sized'
  /\ \A o \in Streams, x \in Sketches : x \notin live => pending'[o][x] = pending[o][x]
  /\ buf' \in [Streams -> AllArrays] /\ call' \in [Streams -> {None} \cup Waits \cup Snapshots]
  /\ \A o \in Streams : o # st => call'[o] = call[o] /\ buf'[o] = buf[o]
  /\ \/ call'[st] = call[st] /\ buf'[st] = buf[st]
     \/ /\ call[st] = None /\ CallOK(st)' /\ ~Asked(st, "deserialize")'
        /\ call'[st] # None /\ call'[st].uses \subseteq live
  /\ live' \subseteq live
  /\ \A o \in Streams : Asked(o, "snapshot") => call[o].sketch \in live'

LEMMA AsksBase ==
  ASSUME Base, NEW st \in Streams, NEW t \in TaskSet, Asks(st, t)
  PROVE  Base'
<1>1. Typed /\ Sized /\ Owners /\ Shapes
  BY DEF Base
<1>2. PICK tasks \in Seq(TaskSet) : tasks = <<t>> /\ Len(tasks) = 1 /\ tasks[1] = t
  BY ShortQueues
<1>3. Appends(st, tasks)
  BY <1>2 DEF Asks
<1>4. Typed'
  <2>1. queue' \in [Streams -> Seq(TaskSet)]
    BY <1>3 DEF Appends
  <2>2. live' \in SUBSET Sketches
    BY <1>1 DEF Asks, Typed
  <2>3. /\ lgk' \in [Sketches -> LgKs] /\ home' \in [Sketches -> Streams]
        /\ regs' \in [Sketches -> AllArrays] /\ promised' \in [Sketches -> AllArrays]
    BY <1>1 DEF Asks, Typed
  <2> QED BY <2>1, <2>2, <2>3 DEF Asks, Typed
<1>5. Owners'
  <2>1. \A x \in {t.to, t.from} : x \in live /\ Settled(st, x)
    BY DEF Asks
  <2>2. t.op # "clear" /\ OwnerOK(st, t)' /\ lgk' = lgk /\ live' \subseteq live
        /\ Appends(st, <<t>>)
    BY DEF Asks
  <2>3. \A o \in Streams : o # st => call'[o] = call[o] /\ buf'[o] = buf[o]
    BY DEF Asks
  <2>4. \/ call'[st] = call[st] /\ buf'[st] = buf[st]
        \/ /\ call[st] = None /\ CallOK(st)' /\ ~Asked(st, "deserialize")'
           /\ call'[st] # None /\ call'[st].uses \subseteq live
    BY DEF Asks
  <2>5. /\ \A o \in Streams : Asked(o, "snapshot") => call[o].sketch \in live'
        /\ \A o \in Streams, x \in Sketches : x \notin live => pending'[o][x] = pending[o][x]
    BY DEF Asks
  <2>6. CASE call'[st] = call[st] /\ buf'[st] = buf[st]
    BY <1>1, <2>1, <2>2, <2>3, <2>5, <2>6, AskedOwners
  <2>7. CASE call'[st] # call[st]
    BY <1>1, <2>1, <2>2, <2>3, <2>4, <2>5, <2>7, AskedOwners
  <2> QED BY <2>4, <2>6, <2>7
<1>6. ASSUME NEW o \in Streams, NEW n \in Positions(o)'
      PROVE  PiecesOK(queue[o][n])'
  <2>0. lgk' = lgk /\ PiecesOK(t)
    BY DEF Asks
  <2>1. CASE n \in Positions(o) /\ queue'[o][n] = queue[o][n]
    <3>1. PiecesOK(queue[o][n])
      BY <1>1, <2>1 DEF Shapes
    <3> QED BY <2>0, <2>1, <3>1 DEF PiecesOK
  <2>2. ASSUME NEW k \in 1 .. Len(tasks), queue'[o][n] = tasks[k]
        PROVE  PiecesOK(queue[o][n])'
    <3>1. queue'[o][n] = t
      BY <1>2, <2>2
    <3> QED BY <2>0, <3>1 DEF PiecesOK
  <2> QED BY <1>1, <1>3, <2>1, <2>2, AppendsWhence
<1>7. Shapes'
  <2>1. answer' = answer
    BY DEF Asks
  <2> QED BY <1>1, <1>6, <2>1 DEF Shapes, ImageOK
<1>8. Sized'
  BY DEF Asks
<1> QED BY <1>4, <1>5, <1>7, <1>8 DEF Base

LEMMA WaitMeans ==
  ASSUME Typed, NEW st \in Streams, NEW sync \in BOOLEAN, NEW uses \in SUBSET Sketches,
         Wait(st, sync, uses), call[st] = None
  PROVE  /\ call' \in [Streams -> {None} \cup Waits \cup Snapshots]
         /\ \A o \in Streams : o # st => call'[o] = call[o]
         /\ ~Asked(st, "snapshot")' /\ ~Asked(st, "deserialize")'
         /\ call'[st] = call[st] \/ (CallOK(st)' /\ call'[st] # None /\ call'[st].uses = uses)
<1>1. CASE ~sync
  <2>1. call' = call
    BY <1>1 DEF Wait
  <2> QED BY <2>1 DEF Typed, Asked
<1>2. CASE sync
  <2>1. PICK w \in Waits : w = Waiting("sync", uses) /\ w.op = "sync" /\ w.uses = uses /\ w # None
    <3>1. PICK w \in Waits : w = [op |-> "sync", uses |-> uses]
      BY DEF Waits
    <3> QED BY <3>1, SketchAssumption DEF Waiting
  <2>2. call' = [call EXCEPT ![st] = w]
    BY <1>2, <2>1 DEF Wait
  <2>3. call' \in [Streams -> {None} \cup Waits \cup Snapshots] /\ call'[st] = w
        /\ \A o \in Streams : o # st => call'[o] = call[o]
    BY <2>2 DEF Typed
  <2>4. ~Asked(st, "snapshot")' /\ ~Asked(st, "deserialize")'
    BY <2>1, <2>3 DEF Asked
  <2>5. CallOK(st)'
    BY <2>4 DEF CallOK
  <2> QED BY <2>1, <2>3, <2>4, <2>5
<1> QED BY <1>1, <1>2

LEMMA UpdateAsks ==
  ASSUME Base, NEW st \in Streams, NEW s \in Sketches, NEW batch \in Batches, NEW sync \in BOOLEAN,
         Update(st, s, batch, sync)
  PROVE  \E t \in TaskSet : \E a \in Arrays(lgk[s]) :
           /\ Asks(st, t) /\ t.op = "add" /\ t.to = s /\ t.from = s
           /\ \A p \in t.left : p[2] <= a[p[1]]
           /\ \A i \in Slots(lgk[s]) : a[i] # 0 => <<i, a[i]>> \in t.left
           /\ Promise(st, s, a, a) /\ live' = live /\ buf' = buf /\ ~Asked(st, "snapshot")'
<1>1. Typed /\ Sized /\ Owners /\ Shapes
  BY DEF Base
<1>2. batch \in SUBSET Keys /\ lgk[s] \in LgKs
  BY <1>1, SketchAssumption DEF Typed
<1>3. PICK a \in Arrays(lgk[s]) :
        /\ a = ArrayOf(batch, lgk[s])
        /\ \A p \in Coupons(batch, lgk[s]) :
             p[1] \in Slots(lgk[s]) /\ p[2] \in 1 .. MaxRho /\ p[2] <= a[p[1]]
        /\ \A i \in Slots(lgk[s]) : a[i] # 0 => <<i, a[i]>> \in Coupons(batch, lgk[s])
  BY <1>2, CouponsAgree
<1>4. PICK t \in TaskSet : /\ t = Add(s, Coupons(batch, lgk[s])) /\ t.op = "add" /\ t.to = s
                           /\ t.from = s /\ t.left = Coupons(batch, lgk[s])
  BY <1>2, AddTask
<1>5. Appends(st, <<t>>)
  <2>1. PICK tasks \in Seq(TaskSet) : tasks = <<t>>
    BY ShortQueues
  <2> QED BY <1>1, <1>4, <2>1, EnqueueAppends DEF Update
<1>6. /\ Promise(st, s, a, a) /\ Wait(st, sync, {s}) /\ Calling(st) /\ Usable(st, s)
      /\ live' = live /\ lgk' = lgk /\ home' = home /\ regs' = regs /\ buf' = buf
      /\ answer' = answer
  BY <1>3 DEF Update
<1>7. call[st] = None /\ calls' \in 0 .. MaxCalls
  BY <1>1, <1>6, CallingMeans
<1>8. s \in live /\ Settled(st, s)
  BY <1>1, <1>6, UsableMeans
<1>9. /\ call' \in [Streams -> {None} \cup Waits \cup Snapshots]
      /\ \A o \in Streams : o # st => call'[o] = call[o]
      /\ ~Asked(st, "snapshot")' /\ ~Asked(st, "deserialize")'
      /\ call'[st] = call[st] \/ (CallOK(st)' /\ call'[st] # None /\ call'[st].uses = {s})
  BY <1>1, <1>6, <1>7, WaitMeans
<1>10. /\ may' \in [Sketches -> AllArrays] /\ pending' \in [Streams -> [Sketches -> AllArrays]]
       /\ promised' = promised /\ Sized'
       /\ \A o \in Streams, x \in Sketches :
            pending'[o][x] = IF o = st /\ x = s THEN Join(pending[st][s], a) ELSE pending[o][x]
  <2>1. Promise(st, s, a, a) /\ lgk' = lgk /\ regs' = regs
    BY <1>6
  <2> QED BY <1>1, <2>1, PromiseEffect
<1>11. OwnerOK(st, t)' /\ PiecesOK(t)
  <2>1. OwnerOK(st, t)'
    BY <1>4 DEF OwnerOK
  <2>2. \A p \in t.left : p[1] \in Slots(lgk[s]) /\ p[2] # Unread
    BY <1>3, <1>4, Params DEF Unread
  <2> QED BY <1>4, <2>1, <2>2 DEF PiecesOK
<1>12. \A o \in Streams : Asked(o, "snapshot") => call[o].sketch \in live'
  BY <1>1, <1>6 DEF Owners, CallOK
<1>13. buf' \in [Streams -> AllArrays]
  BY <1>1, <1>6 DEF Typed
<1>14. \A o \in Streams, x \in Sketches : x \notin live => pending'[o][x] = pending[o][x]
  BY <1>8, <1>10
<1>15. Asks(st, t)
  BY <1>4, <1>5, <1>6, <1>7, <1>8, <1>9, <1>10, <1>11, <1>12, <1>13, <1>14 DEF Asks
<1> QED BY <1>3, <1>4, <1>6, <1>9, <1>15

LEMMA KnownFacts ==
  ASSUME Typed, Sized, NEW st \in Streams, NEW s \in Sketches
  PROVE  \E a \in Arrays(lgk[s]) :
           /\ a = Join(promised[s], pending[st][s])
           /\ \A i \in Slots(lgk[s]) : a[i] = promised[s][i] \/ a[i] = pending[st][s][i]
BY JoinFacts DEF Typed, Sized

LEMMA MergeAsks ==
  ASSUME Base, NEW st \in Streams, NEW s \in Sketches, NEW other \in Sketches,
         NEW sync \in BOOLEAN, Merge(st, s, other, sync)
  PROVE  \E t \in TaskSet : \E a \in Arrays(lgk[s]) :
           /\ Asks(st, t) /\ t.op = "merge" /\ t.to = s /\ t.from = other
           /\ t.left = {<<i, Unread>> : i \in Slots(lgk[s])}
           /\ a = Join(promised[other], pending[st][other])
           /\ may[other] \in Arrays(lgk[s]) /\ lgk[other] = lgk[s]
           /\ Promise(st, s, a, may[other])
           /\ live' = live /\ buf' = buf /\ ~Asked(st, "snapshot")' /\ other \in live
<1>1. Typed /\ Sized /\ Owners /\ Shapes
  BY DEF Base
<1>2. lgk[s] \in LgKs /\ lgk[other] = lgk[s]
  BY <1>1 DEF Typed, Merge
<1>3. PICK a \in Arrays(lgk[s]) : a = Join(promised[other], pending[st][other])
  BY <1>1, <1>2, KnownFacts
<1>4. PICK t \in TaskSet : /\ t = MergeFrom(s, other) /\ t.op = "merge" /\ t.to = s
                           /\ t.from = other /\ t.left = {<<i, Unread>> : i \in Slots(lgk[s])}
  BY <1>1, MergeTask
<1>5. Appends(st, <<t>>)
  <2>1. PICK tasks \in Seq(TaskSet) : tasks = <<t>>
    BY ShortQueues
  <2> QED BY <1>1, <1>4, <2>1, EnqueueAppends DEF Merge
<1>6. /\ Promise(st, s, a, may[other]) /\ Wait(st, sync, {s, other}) /\ Calling(st)
      /\ Usable(st, s) /\ Usable(st, other)
      /\ live' = live /\ lgk' = lgk /\ home' = home /\ regs' = regs /\ buf' = buf
      /\ answer' = answer
  BY <1>3 DEF Merge
<1>7. call[st] = None /\ calls' \in 0 .. MaxCalls
  BY <1>1, <1>6, CallingMeans
<1>8. s \in live /\ Settled(st, s) /\ other \in live /\ Settled(st, other)
  BY <1>1, <1>6, UsableMeans
<1>9. /\ call' \in [Streams -> {None} \cup Waits \cup Snapshots]
      /\ \A o \in Streams : o # st => call'[o] = call[o]
      /\ ~Asked(st, "snapshot")' /\ ~Asked(st, "deserialize")'
      /\ call'[st] = call[st] \/ (CallOK(st)' /\ call'[st] # None /\ call'[st].uses = {s, other})
  BY <1>1, <1>6, <1>7, WaitMeans
<1>10. PICK most \in Arrays(lgk[s]) : most = may[other]
  BY <1>1, <1>2 DEF Sized
<1>11. /\ may' \in [Sketches -> AllArrays] /\ pending' \in [Streams -> [Sketches -> AllArrays]]
       /\ promised' = promised /\ Sized'
       /\ \A o \in Streams, x \in Sketches :
            pending'[o][x] = IF o = st /\ x = s THEN Join(pending[st][s], a) ELSE pending[o][x]
  <2>1. Promise(st, s, a, most)
    BY <1>6, <1>10
  <2>2. lgk' = lgk /\ regs' = regs
    BY <1>6
  <2>3. /\ may' \in [Sketches -> AllArrays]
        /\ pending' \in [Streams -> [Sketches -> AllArrays]]
        /\ promised' = promised /\ Sized'
        /\ \A x \in Sketches :
             may'[x] = IF x \in Fed(s) THEN Join(may[x], most) ELSE may[x]
        /\ \A o \in Streams, x \in Sketches :
             pending'[o][x] = IF o = st /\ x = s THEN Join(pending[st][s], a) ELSE pending[o][x]
    BY <1>1, <2>1, <2>2, PromiseEffect, SMTT(60)
  <2> QED BY <2>3
<1>12. OwnerOK(st, t)' /\ PiecesOK(t)
  <2>1. OwnerOK(st, t)'
    BY <1>2, <1>4, <1>6 DEF OwnerOK
  <2>2. \A p \in t.left : p[1] \in Slots(lgk[s])
    BY <1>4
  <2> QED BY <1>4, <2>1, <2>2 DEF PiecesOK
<1>13. \A o \in Streams : Asked(o, "snapshot") => call[o].sketch \in live'
  BY <1>1, <1>6 DEF Owners, CallOK
<1>14. buf' \in [Streams -> AllArrays]
  BY <1>1, <1>6 DEF Typed
<1>15. \A o \in Streams, x \in Sketches : x \notin live => pending'[o][x] = pending[o][x]
  BY <1>8, <1>11
<1>16. Asks(st, t)
  BY <1>4, <1>5, <1>6, <1>7, <1>8, <1>9, <1>11, <1>12, <1>13, <1>14, <1>15 DEF Asks
<1> QED BY <1>2, <1>3, <1>4, <1>6, <1>8, <1>9, <1>10, <1>16

LEMMA SnapshotAsks ==
  ASSUME Base, NEW st \in Streams, NEW s \in Sketches, NEW kind \in Kinds, Snapshot(st, s, kind)
  PROVE  \E t \in TaskSet : \E a \in Arrays(lgk[s]) :
           /\ Asks(st, t) /\ t.op = "copy" /\ t.to = s /\ t.from = s
           /\ t.left = {<<i, Unread>> : i \in Slots(lgk[s])}
           /\ a = Join(promised[s], pending[st][s])
           /\ SnapshotOn(st, s)' /\ call'[st].must = a /\ buf'[st] = Zeros(lgk[s])
           /\ pending' = pending /\ may' = may /\ live' = live /\ s \in live
<1>1. Typed /\ Sized /\ Owners /\ Shapes
  BY DEF Base
<1>2. PICK l \in LgKs : l = lgk[s]
  BY <1>1 DEF Typed
<1>3. PICK a \in Arrays(l) : a = Join(promised[s], pending[st][s])
  BY <1>1, <1>2, KnownFacts
<1>4. PICK t \in TaskSet : /\ t = CopyOut(s) /\ t.op = "copy" /\ t.to = s
                           /\ t.from = s /\ t.left = {<<i, Unread>> : i \in Slots(lgk[s])}
  BY <1>1, CopyTask
<1>5. Appends(st, <<t>>)
  <2>1. PICK tasks \in Seq(TaskSet) : tasks = <<t>>
    BY ShortQueues
  <2> QED BY <1>1, <1>4, <2>1, EnqueueAppends DEF Snapshot
<1>6. PICK c \in Snapshots : /\ c.op = "snapshot" /\ c.uses = {s} /\ c.sketch = s
                             /\ c.must = a /\ c # None /\ call' = [call EXCEPT ![st] = c]
  <2>1. a \in UNION {Arrays(k) : k \in LgKs}
    OBVIOUS
  <2>2. PICK c \in Snapshots :
          c = [op |-> "snapshot", uses |-> {s}, sketch |-> s, kind |-> kind, must |-> a]
    BY <2>1 DEF Snapshots
  <2>3. call' = [call EXCEPT ![st] = c]
    BY <1>3, <2>2 DEF Snapshot
  <2>4. c # None
    BY SketchAssumption
  <2> QED BY <2>2, <2>3, <2>4
<1>7. /\ Calling(st) /\ Usable(st, s) /\ buf' = [buf EXCEPT ![st] = Zeros(l)]
      /\ live' = live /\ lgk' = lgk /\ home' = home /\ regs' = regs /\ answer' = answer
      /\ promised' = promised /\ pending' = pending /\ may' = may
  BY <1>2 DEF Snapshot, history
<1>8. call[st] = None /\ calls' \in 0 .. MaxCalls
  BY <1>1, <1>7, CallingMeans
<1>9. s \in live /\ Settled(st, s)
  BY <1>1, <1>7, UsableMeans
<1>10. /\ call' \in [Streams -> {None} \cup Waits \cup Snapshots] /\ call'[st] = c
       /\ \A o \in Streams : o # st => call'[o] = call[o]
  BY <1>1, <1>6 DEF Typed
<1>11. /\ buf' \in [Streams -> AllArrays] /\ buf'[st] = Zeros(l) /\ Zeros(l) \in Arrays(l)
       /\ \A o \in Streams : o # st => buf'[o] = buf[o]
  <2>1. PICK z \in AllArrays : z = Zeros(l) /\ z \in Arrays(l)
    BY ArrayFacts
  <2> QED BY <1>1, <1>7, <2>1 DEF Typed
<1>12. CallOK(st)' /\ ~Asked(st, "deserialize")' /\ SnapshotOn(st, s)'
  <2>1. ~Asked(st, "deserialize")' /\ SnapshotOn(st, s)'
    BY <1>6, <1>10 DEF Asked, SnapshotOn
  <2> QED BY <1>2, <1>6, <1>7, <1>9, <1>10, <1>11, <2>1 DEF CallOK
<1>13. Sized'
  BY <1>1, <1>7 DEF Sized
<1>14. OwnerOK(st, t)' /\ PiecesOK(t)
  <2>1. OwnerOK(st, t)'
    BY <1>4, <1>12 DEF OwnerOK
  <2>2. \A p \in t.left : p[1] \in Slots(lgk[s]) /\ p[2] = Unread
    BY <1>4
  <2> QED BY <1>4, <2>1, <2>2 DEF PiecesOK
<1>15. \A o \in Streams : Asked(o, "snapshot") => call[o].sketch \in live'
  BY <1>1, <1>7 DEF Owners, CallOK
<1>16. /\ may' \in [Sketches -> AllArrays] /\ pending' \in [Streams -> [Sketches -> AllArrays]]
  BY <1>1, <1>7 DEF Typed
<1>17. Asks(st, t)
  BY <1>4, <1>5, <1>6, <1>7, <1>8, <1>9, <1>10, <1>11, <1>12, <1>13, <1>14, <1>15, <1>16 DEF Asks
<1> QED BY <1>2, <1>3, <1>4, <1>6, <1>7, <1>9, <1>10, <1>11, <1>12, <1>17

LEMMA DestroyAsks ==
  ASSUME Base, NEW s \in Sketches, Destroy(s)
  PROVE  \E t \in TaskSet :
           /\ Asks(home[s], t) /\ home[s] \in Streams /\ t.op = "free" /\ t.left = {}
           /\ pending' = pending /\ may' = may /\ buf' = buf /\ call' = call /\ live' = live \ {s}
<1>1. Typed /\ Sized /\ Owners /\ Shapes
  BY DEF Base
<1>2. PICK st \in Streams : st = home[s]
  BY <1>1 DEF Typed
<1>3. PICK t \in TaskSet : t = Free(s) /\ t.op = "free" /\ t.to = s /\ t.from = s /\ t.left = {}
  BY FreeTask
<1>4. Appends(st, <<t>>)
  <2>1. PICK tasks \in Seq(TaskSet) : tasks = <<t>>
    BY ShortQueues
  <2> QED BY <1>1, <1>2, <1>3, <2>1, EnqueueAppends DEF Destroy
<1>5. /\ s \in live /\ live' = live \ {s} /\ lgk' = lgk /\ home' = home /\ regs' = regs
      /\ answer' = answer /\ promised' = promised /\ pending' = pending /\ may' = may
      /\ buf' = buf /\ call' = call
      /\ \A o \in Streams : call[o] # None => s \notin call[o].uses
  BY DEF Destroy, history
<1>6. Settled(st, s)
  <2>1. ASSUME NEW o \in Streams, NEW n \in Positions(o), o # st
        PROVE  queue[o][n].to # s
    <3>1. queue[o][n] \in Tasks(o)
      BY <1>1, TasksAre
    <3> QED BY <1>2, <2>1, <3>1 DEF Destroy, Names
  <2> QED BY <2>1 DEF Settled
<1>7. calls' \in 0 .. MaxCalls
  BY <1>1, SketchAssumption DEF Destroy, Typed
<1>8. OwnerOK(st, t)' /\ PiecesOK(t)
  BY <1>3 DEF OwnerOK, PiecesOK
<1>9. ASSUME NEW o \in Streams, Asked(o, "snapshot") PROVE call[o].sketch \in live'
  <2>1. call[o].sketch \in live /\ call[o].sketch \in call[o].uses
    BY <1>1, <1>9 DEF Owners, CallOK
  <2> QED BY <1>5, <1>9, <2>1 DEF Asked
<1>10. Sized'
  BY <1>1, <1>5 DEF Sized
<1>11. /\ may' \in [Sketches -> AllArrays] /\ pending' \in [Streams -> [Sketches -> AllArrays]]
       /\ buf' \in [Streams -> AllArrays] /\ call' \in [Streams -> {None} \cup Waits \cup Snapshots]
  BY <1>1, <1>5 DEF Typed
<1>12. Asks(st, t)
  BY <1>3, <1>4, <1>5, <1>6, <1>7, <1>8, <1>9, <1>10, <1>11 DEF Asks
<1> QED BY <1>2, <1>3, <1>5, <1>12

-----------------------------------------------------------------------------
(* The device's work on the arrays.                                        *)

\* Register i of s becomes v.
Sets(s, i, v) ==
  /\ regs' \in [Sketches -> AllArrays] /\ regs'[s] \in Arrays(lgk[s])
  /\ \A x \in Sketches : x # s => regs'[x] = regs[x]
  /\ \A j \in Slots(lgk[s]) : regs'[s][j] = IF j = i THEN v ELSE regs[s][j]

\* Nothing but the device's state changes.
Inside ==
  /\ live' = live /\ lgk' = lgk /\ home' = home /\ call' = call /\ answer' = answer
  /\ calls' = calls /\ promised' = promised /\ pending' = pending /\ may' = may

\* Piece p of the first task of st, which changes sketch s, is under way.
Piece(st, p, s) ==
  /\ 1 \in Positions(st) /\ p \in queue[st][1].left /\ queue[st][1] \in TaskSet
  /\ p \in Pieces /\ p = <<p[1], p[2]>> /\ s = queue[st][1].to /\ s \in Sketches
  /\ p[1] \in Slots(lgk[s])

RaisesIt(st, p, s) ==
  /\ queue[st][1].op \in {"add", "merge"} /\ p[2] \in 0 .. MaxRho
  /\ Sets(s, p[1], Larger(regs[s][p[1]], p[2]))
  /\ Leaves(st, queue[st][1].left \ {p}) /\ buf' = buf

ReadsIt(st, p, s) ==
  /\ queue[st][1].op = "merge" /\ p[2] = Unread
  /\ Leaves(st, (queue[st][1].left \ {p}) \cup {<<p[1], regs[queue[st][1].from][p[1]]>>})
  /\ lgk[queue[st][1].from] = lgk[s]
  /\ regs[queue[st][1].from][p[1]] \in 0 .. MaxRho
  /\ regs' = regs /\ buf' = buf

StoresIt(st, p, s) ==
  /\ queue[st][1].op \in {"clear", "load"} /\ p[2] \in 0 .. MaxRho
  /\ Sets(s, p[1], p[2])
  /\ Leaves(st, queue[st][1].left \ {p}) /\ buf' = buf

CopiesIt(st, p, s) ==
  /\ queue[st][1].op = "copy" /\ p[2] = Unread /\ SnapshotOn(st, s)
  /\ buf' \in [Streams -> AllArrays] /\ buf'[st] \in Arrays(lgk[s])
  /\ \A o \in Streams : o # st => buf'[o] = buf[o]
  /\ \A j \in Slots(lgk[s]) : buf'[st][j] = IF j = p[1] THEN regs[s][j] ELSE buf[st][j]
  /\ Leaves(st, queue[st][1].left \ {p}) /\ regs' = regs

LEMMA RegsSet ==
  ASSUME Typed, Sized, NEW s \in Sketches, NEW i \in Slots(lgk[s]), NEW v \in 0 .. MaxRho,
         regs' = [regs EXCEPT ![s][i] = v]
  PROVE  Sets(s, i, v)
<1>1. lgk[s] \in LgKs /\ regs[s] \in Arrays(lgk[s])
  BY DEF Typed, Sized
<1>2. PICK r : r = [regs[s] EXCEPT ![i] = v]
  OBVIOUS
<1>3. r \in Arrays(lgk[s]) /\ \A j \in Slots(lgk[s]) : r[j] = IF j = i THEN v ELSE regs[s][j]
  BY <1>1, <1>2 DEF Arrays
<1>4. r \in AllArrays
  BY <1>1, <1>3, ArrayFacts
<1>5. regs' = [regs EXCEPT ![s] = r]
  BY <1>2
<1> QED BY ZenonT(60), <1>3, <1>4, <1>5 DEF Sets, Typed

LEMMA WorkCases ==
  ASSUME Base, NEW st \in Streams, Work(st)
  PROVE  /\ Inside
         /\ \/ Retires(st) /\ regs' = regs /\ buf' = buf
            \/ \E p \in Pieces, s \in Sketches :
                 /\ Piece(st, p, s)
                 /\ RaisesIt(st, p, s) \/ ReadsIt(st, p, s) \/ StoresIt(st, p, s) \/ CopiesIt(st, p, s)
<1>1. Typed /\ Sized /\ Owners /\ Shapes
  BY DEF Base
<1>2. Inside
  BY DEF Work, Inside, history
<1>3. CASE Retire(st)
  <2>1. regs' = regs /\ buf' = buf
    BY <1>3 DEF Retire
  <2> QED BY <1>1, <1>2, <1>3, <2>1, RetireRetires
<1>4. ASSUME queue[st] # <<>>, NEW p \in Head(queue[st]).left,
             Raise(st, p) \/ ReadOther(st, p) \/ Store(st, p) \/ Copy(st, p)
      PROVE  \E q \in Pieces, s \in Sketches :
                 /\ Piece(st, q, s)
                 /\ RaisesIt(st, q, s) \/ ReadsIt(st, q, s) \/ StoresIt(st, q, s) \/ CopiesIt(st, q, s)
  <2>1. 1 \in Positions(st) /\ Head(queue[st]) = queue[st][1] /\ queue[st][1] \in TaskSet
    BY <1>1, <1>4, QueueFacts
  <2>2. PICK t \in TaskSet : t = queue[st][1]
    BY <2>1
  <2>3. OwnerOK(st, t) /\ PiecesOK(t)
    BY <1>1, <2>1, <2>2, OwnersUse DEF Shapes
  <2>4. PICK s \in Sketches : s = t.to
    BY DEF TaskSet
  <2>5. PICK f \in Sketches : f = t.from
    BY DEF TaskSet
  <2>6. PICK X \in SUBSET Pieces : X = t.left
    BY DEF TaskSet
  <2>7. p \in X /\ p \in Pieces
    BY <2>1, <2>2, <2>6
  <2>8. p = <<p[1], p[2]>> /\ p[1] \in Nat /\ p[2] \in Unread .. MaxRho
    BY <2>7 DEF Pieces
  <2>9. PICK i \in Slots(lgk[s]), v \in Unread .. MaxRho : p[1] = i /\ p[2] = v
    BY <2>3, <2>4, <2>6, <2>7, <2>8 DEF PiecesOK
  <2>10. Piece(st, p, s)
    BY <2>1, <2>2, <2>4, <2>6, <2>7, <2>8, <2>9 DEF Piece
  <2>11. v # Unread => v \in 0 .. MaxRho
    BY Params DEF Unread
  <2>12. lgk[s] \in LgKs /\ regs[s] \in Arrays(lgk[s])
    BY <1>1 DEF Typed, Sized
  <2>13. regs[s][i] \in 0 .. MaxRho
    BY <2>12, ArrayFacts
  <2>14. Finish(st, p) => Leaves(st, X \ {p})
    <3>1. HAVE Finish(st, p)
    <3>2. queue' = [queue EXCEPT ![st][1].left = X \ {p}]
      BY <2>2, <2>6, <3>1 DEF Finish
    <3> QED BY <1>1, <1>4, <3>2, LeavesHead
  <2>15. CASE Raise(st, p)
    <3>1. t.op \in {"add", "merge"} /\ v # Unread /\ Finish(st, p) /\ buf' = buf
          /\ regs' = [regs EXCEPT ![s][i] = Larger(@, v)]
      BY <2>1, <2>2, <2>4, <2>9, <2>15 DEF Raise, AtHead, Raised
    <3>2. PICK w \in 0 .. MaxRho : w = Larger(regs[s][i], v)
      BY <2>11, <2>13, <3>1 DEF Larger
    <3>3. regs' = [regs EXCEPT ![s][i] = w]
      BY <3>1, <3>2
    <3>4. Sets(s, i, w)
      BY <1>1, <3>3, RegsSet
    <3>5. RaisesIt(st, p, s)
      BY <2>2, <2>6, <2>9, <2>11, <2>14, <3>1, <3>2, <3>4 DEF RaisesIt
    <3> QED BY <2>7, <2>10, <3>5
  <2>16. CASE ReadOther(st, p)
    <3>1. t.op = "merge" /\ v = Unread /\ regs' = regs /\ buf' = buf
          /\ queue' = [queue EXCEPT ![st][1].left = (@ \ {p}) \cup {<<i, regs[f][i]>>}]
      BY <2>1, <2>2, <2>5, <2>9, <2>16 DEF ReadOther, AtHead
    <3>2. lgk[f] = lgk[s] /\ regs[f] \in Arrays(lgk[s])
      BY <1>1, <2>3, <2>4, <2>5, <3>1 DEF OwnerOK, Sized
    <3>3. PICK w \in 0 .. MaxRho : w = regs[f][i]
      BY <2>12, <3>2, ArrayFacts
    <3>4. <<i, w>> \in Pieces
      BY <2>12, PieceIs, ValueRange
    <3>5. PICK Y \in SUBSET Pieces : Y = (X \ {p}) \cup {<<i, w>>}
      BY <3>4
    <3>6. queue' = [queue EXCEPT ![st][1].left = Y]
      BY <2>2, <2>6, <3>1, <3>3, <3>5
    <3>7. Leaves(st, Y)
      BY <1>1, <1>4, <3>6, LeavesHead
    <3>8. ReadsIt(st, p, s)
      BY <2>2, <2>5, <2>6, <2>9, <3>1, <3>2, <3>3, <3>5, <3>7 DEF ReadsIt
    <3> QED BY <2>7, <2>10, <3>8
  <2>17. CASE Store(st, p)
    <3>1. t.op \in {"clear", "load"} /\ Finish(st, p) /\ buf' = buf
          /\ regs' = [regs EXCEPT ![s][i] = v]
      BY <2>1, <2>2, <2>4, <2>9, <2>17 DEF Store, AtHead
    <3>2. v # Unread
      BY <2>3, <2>6, <2>7, <2>9, <3>1 DEF PiecesOK, Unread
    <3>3. v \in 0 .. MaxRho
      BY <2>11, <3>2
    <3>4. Sets(s, i, v)
      BY <1>1, <3>1, <3>3, RegsSet
    <3>5. StoresIt(st, p, s)
      BY <2>2, <2>6, <2>9, <2>14, <3>1, <3>3, <3>4 DEF StoresIt
    <3> QED BY <2>7, <2>10, <3>5
  <2>18. CASE Copy(st, p)
    <3>1. t.op = "copy" /\ Finish(st, p) /\ regs' = regs
          /\ buf' = [buf EXCEPT ![st][i] = regs[s][i]]
      BY <2>1, <2>2, <2>4, <2>9, <2>18 DEF Copy, AtHead
    <3>2. v = Unread /\ SnapshotOn(st, s)
      BY <2>3, <2>4, <2>6, <2>7, <2>9, <3>1 DEF PiecesOK, OwnerOK
    <3>3. buf[st] \in Arrays(lgk[s])
      BY <1>1, <3>2 DEF Owners, CallOK, SnapshotOn
    <3>4. PICK w \in 0 .. MaxRho : w = regs[s][i]
      BY <2>13
    <3>5. PICK b : b = [buf[st] EXCEPT ![i] = w]
      OBVIOUS
    <3>6. b \in Arrays(lgk[s]) /\ \A j \in Slots(lgk[s]) : b[j] = IF j = i THEN w ELSE buf[st][j]
      BY <3>3, <3>5 DEF Arrays
    <3>7. b \in AllArrays
      BY <2>12, <3>6, ArrayFacts
    <3>8. buf' = [buf EXCEPT ![st] = b]
      BY <3>1, <3>4, <3>5
    <3>9. buf' \in [Streams -> AllArrays] /\ buf'[st] = b
          /\ \A o \in Streams : o # st => buf'[o] = buf[o]
      BY <1>1, <3>7, <3>8 DEF Typed
    <3>10. \A j \in Slots(lgk[s]) : buf'[st][j] = IF j = i THEN regs[s][j] ELSE buf[st][j]
      BY <3>4, <3>6, <3>9
    <3>11. CopiesIt(st, p, s)
      BY <2>2, <2>6, <2>9, <2>14, <3>1, <3>2, <3>6, <3>9, <3>10 DEF CopiesIt
    <3> QED BY <2>7, <2>10, <3>11
  <2> QED BY <1>4, <2>15, <2>16, <2>17, <2>18
<1> QED BY <1>2, <1>3, <1>4 DEF Work

LEMMA WorkBase ==
  ASSUME Base, NEW st \in Streams, Work(st)
  PROVE  Base'
<1>1. Typed /\ Sized /\ Owners /\ Shapes /\ Inside
  BY WorkCases DEF Base
<1>2. CASE Retires(st) /\ regs' = regs /\ buf' = buf
  <2>1. Typed'
    BY <1>1, <1>2 DEF Typed, Inside, Retires
  <2>2. Sized'
    BY <1>1, <1>2 DEF Sized, Inside
  <2>3. Owners'
    <3>1. Remains
      BY <1>1, <1>2, RetiresRemains
    <3>2. \A o \in Streams : Asked(o, "snapshot") => buf'[o] \in Arrays(lgk[call[o].sketch])
      BY <1>1, <1>2 DEF Owners, CallOK
    <3> QED BY <1>1, <3>1, <3>2, WorkedOwners DEF Inside
  <2>4. ASSUME NEW o \in Streams, NEW n \in Positions(o)' PROVE PiecesOK(queue[o][n])'
    <3>1. PICK k \in Positions(o) : queue'[o][n] = queue[o][k]
      BY <1>2 DEF Retires, Positions
    <3>2. PiecesOK(queue[o][k])
      BY <1>1 DEF Shapes
    <3> QED BY <1>1, <3>1, <3>2 DEF PiecesOK, Inside
  <2>5. Shapes'
    BY <1>1, <2>4 DEF Shapes, Inside, ImageOK
  <2> QED BY <2>1, <2>2, <2>3, <2>5 DEF Base
<1>3. ASSUME NEW p \in Pieces, NEW s \in Sketches, Piece(st, p, s),
             RaisesIt(st, p, s) \/ ReadsIt(st, p, s) \/ StoresIt(st, p, s) \/ CopiesIt(st, p, s)
      PROVE  Base'
  <2>1. /\ regs' \in [Sketches -> AllArrays]
        /\ \A x \in Sketches : regs'[x] \in Arrays(lgk[x])
    <3>1. CASE regs' = regs
      BY <1>1, <3>1 DEF Typed, Sized
    <3>2. ASSUME NEW i, NEW v, Sets(s, i, v) PROVE /\ regs' \in [Sketches -> AllArrays]
                                                         /\ \A x \in Sketches : regs'[x] \in Arrays(lgk[x])
      BY <1>1, <3>2 DEF Sets, Sized
    <3> QED BY <1>3, <3>1, <3>2 DEF RaisesIt, ReadsIt, StoresIt, CopiesIt
  <2>2. /\ buf' \in [Streams -> AllArrays]
        /\ \A o \in Streams : Asked(o, "snapshot") => buf'[o] \in Arrays(lgk[call[o].sketch])
    <3>1. CASE buf' = buf
      BY <1>1, <3>1 DEF Typed, Owners, CallOK
    <3>2. CASE CopiesIt(st, p, s)
      BY <1>1, <3>2 DEF CopiesIt, SnapshotOn, Owners, CallOK
    <3> QED BY <1>3, <3>1, <3>2 DEF RaisesIt, ReadsIt, StoresIt
  <2>3. PICK X : /\ Leaves(st, X)
                 /\ \/ X = queue[st][1].left \ {p}
                    \/ /\ queue[st][1].op = "merge"
                       /\ \E v : X = (queue[st][1].left \ {p}) \cup {<<p[1], v>>}
    BY <1>3 DEF RaisesIt, ReadsIt, StoresIt, CopiesIt
  <2>4. Typed'
    <3>1. queue' \in [Streams -> Seq(TaskSet)]
      BY <2>3 DEF Leaves
    <3> QED BY <1>1, <2>1, <2>2, <3>1 DEF Typed, Inside
  <2>5. Sized'
    BY <1>1, <2>1 DEF Sized, Inside
  <2>6. Owners'
    <3>1. Remains
      BY <1>1, <2>3, LeavesRemains
    <3> QED BY <1>1, <2>2, <3>1, WorkedOwners DEF Inside
  <2>7. ASSUME NEW o \in Streams, NEW n \in Positions(o)' PROVE PiecesOK(queue[o][n])'
    <3>1. /\ n \in Positions(o) /\ queue'[o][n].op = queue[o][n].op /\ queue'[o][n].to = queue[o][n].to
          /\ queue'[o][n].left = IF o = st /\ n = 1 THEN X ELSE queue[o][n].left
      BY <2>3 DEF Leaves, Positions
    <3>2. PiecesOK(queue[o][n])
      BY <1>1, <3>1 DEF Shapes
    <3>3. CASE queue'[o][n].left = queue[o][n].left
      BY <1>1, <3>1, <3>2, <3>3 DEF PiecesOK, Inside
    <3>4. CASE o = st /\ n = 1
      <4>1. queue[o][n].op # "free"
        BY <1>3, <3>2, <3>4 DEF Piece, PiecesOK
      <4>2. \A q \in X : q[1] \in Slots(lgk[queue[o][n].to])
        BY <1>3, <2>3, <3>2, <3>4 DEF Piece, PiecesOK
      <4>3. CASE X = queue[st][1].left \ {p}
        BY <1>1, <3>1, <3>2, <3>4, <4>1, <4>2, <4>3 DEF PiecesOK, Inside
      <4>4. CASE queue[st][1].op = "merge"
        BY <1>1, <3>1, <3>4, <4>2, <4>4 DEF PiecesOK, Inside
      <4> QED BY <2>3, <4>3, <4>4
    <3> QED BY <3>1, <3>3, <3>4
  <2>8. Shapes'
    BY <1>1, <2>7 DEF Shapes, Inside, ImageOK
  <2> QED BY <2>4, <2>5, <2>6, <2>8 DEF Base
<1> QED BY <1>2, <1>3, WorkCases

-----------------------------------------------------------------------------
(* Returns.                                                                *)

LEMMA ImageIs ==
  ASSUME NEW l \in LgKs, NEW a \in Arrays(l), NEW compact, NEW r
  PROVE  ImageOK(Serialized(l, compact, a, r))
<1>1. Pow(l) \in Nat \ {0} /\ Slots(l) = 0 .. Pow(l) - 1
  BY SlotsFacts
<1>2. \A n \in 1 .. Pow(l) : a[n - 1] \in 0 .. MaxRho
  <2> SUFFICES ASSUME NEW n \in 1 .. Pow(l) PROVE a[n - 1] \in 0 .. MaxRho
    OBVIOUS
  <2>1. n - 1 \in Slots(l)
    BY <1>1
  <2> QED BY <2>1, ArrayFacts
<1>3. PICK b : b = [n \in 1 .. Pow(l) |-> a[n - 1]] /\ b \in [1 .. Pow(l) -> 0 .. MaxRho]
  <2>1. [n \in 1 .. Pow(l) |-> a[n - 1]] \in [1 .. Pow(l) -> 0 .. MaxRho]
    BY <1>2
  <2> QED BY <2>1
<1>4. PICK i : i = Serialized(l, compact, a, r)
  OBVIOUS
<1>5. i.lgK = l /\ i.body = b
  BY <1>3, <1>4 DEF Serialized, Pow
<1> QED BY <1>3, <1>4, <1>5 DEF ImageOK, Pow

\* The answer is made of what the buffer of st holds for s.
AnswersFrom(st, s) ==
  /\ SnapshotOn(st, s)
  /\ answer'.must = call[st].must /\ answer'.registers = buf[st] /\ answer'.may = may[s]
  /\ answer'.is_empty = NothingSeen(reduce_hll8(buf[st]), lgk[s])
  /\ ImageOK(answer'.image)
  /\ \E compact \in BOOLEAN :
       answer'.image = Serialized(lgk[s], compact, buf[st], reduce_hll8(buf[st]))

\* The thread of st knows its stream to be drained, and saw what it copied.
Returns(st, seen) ==
  /\ Positions(st) = {} /\ Learn(st, seen)
  /\ \A x \in Sketches :
       seen[x] = Zeros(lgk[x]) \/ (SnapshotOn(st, x) /\ seen[x] = buf[st])
  /\ queue' = queue /\ lgk' = lgk /\ home' = home /\ regs' = regs /\ buf' = buf /\ calls' = calls
  /\ call' \in [Streams -> {None} \cup Waits \cup Snapshots] /\ call'[st] = None
  /\ \A o \in Streams : o # st => call'[o] = call[o]
  /\ \/ live' = live
     \/ Asked(st, "deserialize") /\ live' = live \cup call[st].uses
  /\ answer' = answer \/ \E s \in Sketches : AnswersFrom(st, s)

LEMMA NothingIs ==
  ASSUME Typed
  PROVE  /\ Nothing \in [Sketches -> AllArrays]
         /\ \A x \in Sketches : Nothing[x] = Zeros(lgk[x])
<1>1. \A x \in Sketches : Zeros(lgk[x]) \in AllArrays
  BY ArrayFacts DEF Typed
<1> QED BY <1>1 DEF Nothing

LEMMA ReturnsCases ==
  ASSUME Base, NEW st \in Streams, ReturnSnapshot(st) \/ Return(st) \/ Synchronize(st)
  PROVE  \E seen \in [Sketches -> AllArrays] : Returns(st, seen)
<1>1. Typed /\ Sized /\ Owners /\ Shapes
  BY DEF Base
<1>2. PICK z \in [Sketches -> AllArrays] :
        z = Nothing /\ \A x \in Sketches : z[x] = Zeros(lgk[x])
  BY <1>1, NothingIs
<1>3. Drained(st) => Positions(st) = {}
  BY <1>1, QueueFacts DEF Drained
<1>4. [call EXCEPT ![st] = None] \in [Streams -> {None} \cup Waits \cup Snapshots]
      /\ [call EXCEPT ![st] = None][st] = None
      /\ \A o \in Streams : o # st => [call EXCEPT ![st] = None][o] = call[o]
  BY <1>1 DEF Typed
<1>5. CASE ReturnSnapshot(st)
  <2>1. Asked(st, "snapshot") /\ Drained(st)
    BY <1>5 DEF ReturnSnapshot, Asked
  <2>2. PICK c \in Snapshots : c = call[st]
    BY <1>1, <2>1 DEF Owners, CallOK
  <2>3. PICK s \in Sketches : s = c.sketch
    BY DEF Snapshots
  <2>4. SnapshotOn(st, s) /\ buf[st] \in Arrays(lgk[s]) /\ lgk[s] \in LgKs
    BY <1>1, <2>1, <2>2, <2>3 DEF Owners, CallOK, SnapshotOn, Typed
  <2>5. PICK r : r = reduce_hll8(buf[st])
    OBVIOUS
  <2>6. PICK image : image = Serialized(lgk[s], c.kind = "compact", buf[st], r) /\ ImageOK(image)
    BY <2>4, ImageIs
  <2>7. answer' = [kind |-> c.kind, registers |-> buf[st],
                   is_empty |-> NothingSeen(r, lgk[s]), image |-> image,
                   must |-> c.must, may |-> may[s]]
    BY <1>5, <2>2, <2>3, <2>5, <2>6 DEF ReturnSnapshot, ReductionOf
  <2>8. AnswersFrom(st, s)
    <3>1. answer'.image = image /\ (c.kind = "compact") \in BOOLEAN
      BY <2>7
    <3>2. \E compact \in BOOLEAN :
            answer'.image = Serialized(lgk[s], compact, buf[st], reduce_hll8(buf[st]))
      BY <2>5, <2>6, <3>1
    <3> QED BY <2>2, <2>4, <2>5, <2>6, <2>7, <3>2 DEF AnswersFrom
  <2>9. PICK seen \in [Sketches -> AllArrays] :
          /\ seen = [Nothing EXCEPT ![s] = buf[st]]
          /\ \A x \in Sketches : seen[x] = IF x = s THEN buf[st] ELSE Zeros(lgk[x])
    <3>1. buf[st] \in AllArrays
      BY <1>1 DEF Typed
    <3>2. PICK b \in AllArrays : b = buf[st]
      BY <3>1
    <3>3. PICK f \in [Sketches -> AllArrays] : f = [z EXCEPT ![s] = b]
      OBVIOUS
    <3>4. \A x \in Sketches : f[x] = IF x = s THEN b ELSE z[x]
      BY <3>3
    <3>5. f = [Nothing EXCEPT ![s] = buf[st]]
      BY <1>2, <3>2, <3>3
    <3> QED BY <1>2, <3>2, <3>4, <3>5
  <2>10. Learn(st, seen) /\ call' = [call EXCEPT ![st] = None]
         /\ live' = live /\ lgk' = lgk /\ home' = home /\ regs' = regs /\ queue' = queue
         /\ buf' = buf /\ calls' = calls
    BY <1>5, <2>2, <2>3, <2>9 DEF ReturnSnapshot
  <2>11. \A x \in Sketches :
           seen[x] = Zeros(lgk[x]) \/ (SnapshotOn(st, x) /\ seen[x] = buf[st])
    BY <2>4, <2>9
  <2> QED BY <1>3, <1>4, <2>1, <2>8, <2>10, <2>11 DEF Returns
<1>6. CASE Return(st)
  <2>1. Learn(st, z) /\ call' = [call EXCEPT ![st] = None] /\ Drained(st)
        /\ answer' = answer /\ lgk' = lgk /\ home' = home /\ regs' = regs /\ queue' = queue
        /\ buf' = buf /\ calls' = calls
    BY <1>2, <1>6 DEF Return
  <2>2. \/ live' = live
        \/ Asked(st, "deserialize") /\ live' = live \cup call[st].uses
    BY <1>6 DEF Return, Asked
  <2> QED BY <1>2, <1>3, <1>4, <2>1, <2>2 DEF Returns
<1>7. CASE Synchronize(st)
  <2>1. Learn(st, z) /\ call' = call /\ call[st] = None /\ Drained(st)
        /\ live' = live /\ answer' = answer /\ lgk' = lgk /\ home' = home /\ regs' = regs
        /\ queue' = queue /\ buf' = buf /\ calls' = calls
    BY <1>2, <1>7 DEF Synchronize, device
  <2>2. call' \in [Streams -> {None} \cup Waits \cup Snapshots]
    BY <1>1, <2>1 DEF Typed
  <2> QED BY <1>2, <1>3, <2>1, <2>2 DEF Returns
<1> QED BY <1>5, <1>6, <1>7

LEMMA SeenSized ==
  ASSUME Base, NEW st \in Streams, NEW seen \in [Sketches -> AllArrays], Returns(st, seen)
  PROVE  \A x \in Sketches : seen[x] \in Arrays(lgk[x])
<1> SUFFICES ASSUME NEW x \in Sketches PROVE seen[x] \in Arrays(lgk[x])
  OBVIOUS
<1>1. Zeros(lgk[x]) \in Arrays(lgk[x])
  BY ArrayFacts DEF Base, Typed
<1>2. SnapshotOn(st, x) => buf[st] \in Arrays(lgk[x])
  BY DEF Base, Owners, CallOK, SnapshotOn
<1> QED BY <1>1, <1>2 DEF Returns

LEMMA ReturnsBase ==
  ASSUME Base, NEW st \in Streams, NEW seen \in [Sketches -> AllArrays], Returns(st, seen)
  PROVE  Base'
<1>1. Typed /\ Sized /\ Owners /\ Shapes
  BY DEF Base
<1>2. /\ promised' \in [Sketches -> AllArrays]
      /\ pending' \in [Streams -> [Sketches -> AllArrays]] /\ may' = may /\ Sized'
      /\ \A o \in Streams, x \in Sketches :
           pending'[o][x] = IF o = st THEN Zeros(lgk[x]) ELSE pending[o][x]
  <2>1. Learn(st, seen) /\ lgk' = lgk /\ regs' = regs
    BY DEF Returns
  <2> QED BY <1>1, <2>1, SeenSized, LearnEffect
<1>3. Typed'
  <2>1. live' \in SUBSET Sketches
    <3>1. Asked(st, "deserialize") => call[st].uses \subseteq Sketches
      BY <1>1 DEF Owners, CallOK, LoadingOn
    <3> QED BY <1>1, <3>1 DEF Returns, Typed
  <2> QED BY <1>1, <1>2, <2>1 DEF Typed, Returns
<1>4. Owners'
  <2>1. /\ Positions(st) = {} /\ queue' = queue /\ lgk' = lgk /\ buf' = buf /\ call'[st] = None
        /\ \A o \in Streams : o # st => call'[o] = call[o]
        /\ \/ live' = live
           \/ Asked(st, "deserialize") /\ live' = live \cup call[st].uses
    BY DEF Returns
  <2> QED BY <1>1, <1>2, <2>1, ReturnedOwners
<1>5. Shapes'
  <2>1. \A o \in Streams : \A n \in Positions(o)' : PiecesOK(queue[o][n])'
    BY <1>1 DEF Shapes, Positions, PiecesOK, Returns
  <2>3. answer' # None => ImageOK(answer'.image)
    BY <1>1 DEF Shapes, Returns, AnswersFrom
  <2> QED BY <2>1, <2>3 DEF Shapes
<1> QED BY <1>2, <1>3, <1>4, <1>5 DEF Base

-----------------------------------------------------------------------------
(* Type correctness.                                                       *)

LEMMA InitArrays ==
  ASSUME Init
  PROVE  \E l \in LgKs : \E earlier \in Earlier :
           /\ lgk = [s \in Sketches |-> l] /\ queue = [st \in Streams |-> <<>>]
           /\ call = [st \in Streams |-> None] /\ buf = [st \in Streams |-> Zeros(l)]
           /\ regs \in [Sketches -> Arrays(l)] /\ promised = regs /\ may = regs
           /\ pending = [st \in Streams |-> [s \in Sketches |-> Zeros(l)]]
<1>1. PICK l \in LgKs : l = CHOOSE k \in LgKs : TRUE
  BY SketchAssumption
<1>2. PICK earlier \in Earlier :
        regs = [s \in Sketches |-> ArrayOf(IF s \in live THEN earlier ELSE {}, l)]
  BY <1>1 DEF Init
<1>3. earlier \in SUBSET Keys /\ {} \in SUBSET Keys
  BY SketchAssumption
<1>4. \A s \in Sketches : (IF s \in live THEN earlier ELSE {}) \in SUBSET Keys
  BY <1>3
<1>5. \A s \in Sketches : ArrayOf(IF s \in live THEN earlier ELSE {}, l) \in Arrays(l)
  <2> SUFFICES ASSUME NEW s \in Sketches
               PROVE  ArrayOf(IF s \in live THEN earlier ELSE {}, l) \in Arrays(l)
    OBVIOUS
  <2>1. PICK batch \in SUBSET Keys : batch = IF s \in live THEN earlier ELSE {}
    BY <1>4
  <2> QED BY <2>1, CouponsAgree
<1>6. regs \in [Sketches -> Arrays(l)]
  BY <1>2, <1>5
<1> QED BY <1>1, <1>6 DEF Init

LEMMA InitBase == Init => Base
<1> SUFFICES ASSUME Init PROVE Base
  OBVIOUS
<1>1. PICK l \in LgKs :
        /\ lgk = [s \in Sketches |-> l] /\ queue = [st \in Streams |-> <<>>]
        /\ call = [st \in Streams |-> None] /\ buf = [st \in Streams |-> Zeros(l)]
        /\ regs \in [Sketches -> Arrays(l)] /\ promised = regs /\ may = regs
        /\ pending = [st \in Streams |-> [s \in Sketches |-> Zeros(l)]]
  BY InitArrays
<1>2. PICK z \in AllArrays : z = Zeros(l) /\ z \in Arrays(l)
  BY ArrayFacts
<1>3. \A s \in Sketches : regs[s] \in Arrays(l) /\ regs[s] \in AllArrays /\ lgk[s] = l
  BY <1>1, ArrayFacts
<1>4. buf = [st \in Streams |-> z] /\ pending = [st \in Streams |-> [s \in Sketches |-> z]]
  BY <1>1, <1>2
<1>5. Typed
  <2>1. live \in SUBSET Sketches /\ home \in [Sketches -> Streams] /\ calls \in 0 .. MaxCalls
    BY SketchAssumption DEF Init
  <2>2. queue \in [Streams -> Seq(TaskSet)]
    <3>1. <<>> \in Seq(TaskSet)
      OBVIOUS
    <3> QED BY <1>1, <3>1
  <2>3. regs \in [Sketches -> AllArrays]
    BY <1>1, <1>3
  <2>4. buf \in [Streams -> AllArrays] /\ pending \in [Streams -> [Sketches -> AllArrays]]
    BY <1>4
  <2>5. lgk \in [Sketches -> LgKs] /\ call \in [Streams -> {None} \cup Waits \cup Snapshots]
    BY <1>1
  <2> QED BY <1>1, <2>1, <2>2, <2>3, <2>4, <2>5 DEF Typed
<1>6. Sized
  BY <1>1, <1>2, <1>3, <1>4 DEF Sized
<1>7. \A st \in Streams : Positions(st) = {}
  <2>1. \A st \in Streams : queue[st] = <<>>
    BY <1>1
  <2> QED BY <1>5, <2>1, QueueFacts
<1>8. Owners
  BY <1>1, <1>7 DEF Owners, CallOK, Asked, LoadingOn
<1>9. Shapes
  BY <1>7 DEF Shapes, Init
<1> QED BY <1>5, <1>6, <1>8, <1>9 DEF Base

LEMMA NextCases ==
  ASSUME Base, Next
  PROVE  \/ \E st \in Streams, s \in Sketches, l \in LgKs :
              \E a \in Arrays(l), tasks \in Seq(TaskSet) : Creates(st, s, l, a, tasks)
         \/ \E st \in Streams, s \in Sketches, batch \in Batches, sync \in BOOLEAN :
              Update(st, s, batch, sync)
         \/ \E st \in Streams, s \in Sketches, other \in Sketches, sync \in BOOLEAN :
              Merge(st, s, other, sync)
         \/ \E st \in Streams, s \in Sketches, kind \in Kinds : Snapshot(st, s, kind)
         \/ \E s \in Sketches : Destroy(s)
         \/ \E st \in Streams : Work(st)
         \/ \E st \in Streams : \E seen \in [Sketches -> AllArrays] : Returns(st, seen)
<1>1. ASSUME NEW st \in Streams, NEW s \in Sketches, NEW l \in LgKs, Construct(st, s, l)
      PROVE  \E a \in Arrays(l), tasks \in Seq(TaskSet) : Creates(st, s, l, a, tasks)
  <2>1. Zeros(l) \in Arrays(l)
    BY ArrayFacts
  <2> QED BY <1>1, <2>1, ConstructCreates
<1>2. ASSUME NEW st \in Streams, NEW s \in Sketches, NEW image \in Foreign \cup OwnImages,
             Deserialize(st, s, image)
      PROVE  \E l \in LgKs : \E a \in Arrays(l), tasks \in Seq(TaskSet) : Creates(st, s, l, a, tasks)
  BY <1>2, DeserializeCreates
<1>3. ASSUME NEW st \in Streams, ReturnSnapshot(st) \/ Return(st) \/ Synchronize(st)
      PROVE  \E seen \in [Sketches -> AllArrays] : Returns(st, seen)
  BY <1>3, ReturnsCases
<1>4. ASSUME NEW st \in Streams, Client(st)
      PROVE  \/ \E s \in Sketches, l \in LgKs : Construct(st, s, l)
             \/ \E s \in Sketches, batch \in Batches, sync \in BOOLEAN : Update(st, s, batch, sync)
             \/ \E s \in Sketches, other \in Sketches, sync \in BOOLEAN : Merge(st, s, other, sync)
             \/ \E s \in Sketches, kind \in Kinds : Snapshot(st, s, kind)
             \/ \E s \in Sketches, image \in Foreign \cup OwnImages : Deserialize(st, s, image)
             \/ Synchronize(st)
  BY <1>4 DEF Client
<1>5. CASE \E st \in Streams : Client(st)
  <2>1. PICK st \in Streams : Client(st)
    BY <1>5
  <2>2. CASE \E s \in Sketches, l \in LgKs : Construct(st, s, l)
    BY <1>1, <2>2
  <2>3. CASE \E s \in Sketches, image \in Foreign \cup OwnImages : Deserialize(st, s, image)
    BY <1>2, <2>3
  <2>4. CASE Synchronize(st)
    BY <1>3, <2>4
  <2> QED BY <1>4, <2>1, <2>2, <2>3, <2>4
<1>6. CASE \E st \in Streams : ReturnSnapshot(st) \/ Return(st)
  BY <1>3, <1>6
<1> QED BY <1>5, <1>6 DEF Next

LEMMA NextBase ==
  ASSUME Base, [Next]_vars
  PROVE  Base'
<1>1. CASE UNCHANGED vars
  <2>1. /\ live' = live /\ lgk' = lgk /\ home' = home /\ regs' = regs /\ queue' = queue
        /\ buf' = buf /\ call' = call /\ answer' = answer /\ calls' = calls
        /\ promised' = promised /\ pending' = pending /\ may' = may
    BY <1>1 DEF vars
  <2>2. Typed'
    BY <2>1 DEF Base, Typed
  <2>3. Sized'
    BY <2>1 DEF Base, Sized
  <2>4. Owners'
    <3>1. \A st \in Streams : CallOK(st)'
      BY <2>1 DEF Base, Owners, CallOK, LoadingOn, Asked
    <3>2. \A st \in Streams : \A n \in Positions(st)' : OwnerOK(st, queue[st][n])'
      BY <2>1 DEF Base, Owners, OwnerOK, LoadingOn, SnapshotOn, Asked, Positions
    <3>3. \A st \in Streams : \A n \in Positions(st)' : ClearedFirst(st, n)'
      BY <2>1 DEF Base, Owners, ClearedFirst, Positions
    <3>4. \A st \in Streams, s \in Sketches : LoadingOn(st, s)' => LoadingAlone(st, s)'
      BY <2>1 DEF Base, Owners, LoadingOn, LoadingAlone, Asked, Positions
    <3> QED BY <3>1, <3>2, <3>3, <3>4 DEF Owners
  <2>5. Shapes'
    BY <2>1 DEF Base, Shapes, PiecesOK, ImageOK, Positions
  <2> QED BY <2>2, <2>3, <2>4, <2>5 DEF Base
<1>2. ASSUME NEW st \in Streams, NEW t \in TaskSet, Asks(st, t) PROVE Base'
  BY <1>2, AsksBase
<1>3. ASSUME NEW st \in Streams, NEW s \in Sketches, NEW batch \in Batches, NEW sync \in BOOLEAN,
             Update(st, s, batch, sync)
      PROVE  Base'
  BY <1>2, <1>3, UpdateAsks
<1>4. ASSUME NEW st \in Streams, NEW s \in Sketches, NEW other \in Sketches, NEW sync \in BOOLEAN,
             Merge(st, s, other, sync)
      PROVE  Base'
  BY <1>2, <1>4, MergeAsks
<1>5. ASSUME NEW st \in Streams, NEW s \in Sketches, NEW kind \in Kinds, Snapshot(st, s, kind)
      PROVE  Base'
  BY <1>2, <1>5, SnapshotAsks
<1>6. ASSUME NEW s \in Sketches, Destroy(s) PROVE Base'
  BY <1>2, <1>6, DestroyAsks
<1>7. CASE Next
  BY <1>3, <1>4, <1>5, <1>6, <1>7, NextCases, CreatesBase, WorkBase, ReturnsBase
<1> QED BY <1>1, <1>7

LEMMA AlwaysBase == Spec => []Base
<1>1. Init => Base
  BY InitBase
<1>2. Base /\ [Next]_vars => Base'
  BY NextBase
<1> QED BY <1>1, <1>2, PTL DEF Spec

LEMMA BaseTypeOK == Base => TypeOK
<1> SUFFICES ASSUME Base PROVE TypeOK
  OBVIOUS
<1>1. Typed /\ Sized /\ Shapes
  BY DEF Base
<1>2. ASSUME NEW st \in Streams, NEW t \in Tasks(st), NEW p \in t.left
      PROVE  p[1] \in Slots(lgk[t.to]) /\ p[2] \in Unread .. MaxRho
  <2>1. PICK n \in Positions(st) : t = queue[st][n]
    BY <1>1, TasksAre
  <2>2. t \in TaskSet /\ PiecesOK(t)
    BY <1>1, <2>1, QueueFacts DEF Shapes
  <2>3. p \in Pieces
    BY <2>2 DEF TaskSet
  <2> QED BY <2>2, <2>3 DEF PiecesOK, Pieces
<1>3. \A st \in Streams, s \in Sketches : pending[st][s] \in Arrays(lgk[s])
  BY <1>1 DEF Sized
<1>4. \A s \in Sketches : {regs[s], promised[s], may[s]} \subseteq Arrays(lgk[s])
  BY <1>1 DEF Sized
<1>5. /\ live \subseteq Sketches /\ lgk \in [Sketches -> LgKs] /\ home \in [Sketches -> Streams]
      /\ calls \in 0 .. MaxCalls
  BY <1>1 DEF Typed
<1> QED BY <1>2, <1>3, <1>4, <1>5 DEF TypeOK

(* Type correctness: every array of a sketch has one value for each of its *)
(* registers, also while sketches of other precisions are constructed from *)
(* images, and every task touches registers that its sketch has.           *)
THEOREM TypeCorrect == Spec => []TypeOK
BY AlwaysBase, BaseTypeOK, PTL

-----------------------------------------------------------------------------
(* Registers only rise.                                                    *)

LEMMA LargerOf ==
  ASSUME NEW x \in Int, NEW y \in Int
  PROVE  x <= Larger(x, y) /\ y <= Larger(x, y) /\ Larger(x, y) \in {x, y}
BY DEF Larger

LEMMA StepRises ==
  ASSUME Base, Next, NEW s \in Sketches, Initialized(s), s \in live'
  PROVE  Leq(regs[s], regs'[s])
<1>1. Typed /\ Sized /\ Owners /\ Shapes
  BY DEF Base
<1>2. lgk[s] \in LgKs /\ regs[s] \in Arrays(lgk[s]) /\ s \in live
      /\ \A i \in Slots(lgk[s]) : regs[s][i] \in 0 .. MaxRho
  BY <1>1, ArrayFacts DEF Typed, Sized, Initialized
<1>3. CASE regs'[s] = regs[s]
  BY <1>2, <1>3, LeqFacts, Params
<1>4. ASSUME NEW st \in Streams, NEW t \in TaskSet, Asks(st, t) PROVE regs'[s] = regs[s]
  BY <1>4 DEF Asks
<1>5. CASE \E st \in Streams, x \in Sketches, l \in LgKs :
             \E a \in Arrays(l), tasks \in Seq(TaskSet) : Creates(st, x, l, a, tasks)
  <2>1. PICK st \in Streams, x \in Sketches, l \in LgKs :
          \E a \in Arrays(l), tasks \in Seq(TaskSet) : Creates(st, x, l, a, tasks)
    BY <1>5
  <2>2. PICK a \in Arrays(l) : x \notin live /\ Allocate(st, x, l, a)
    BY <2>1 DEF Creates
  <2>3. regs'[s] = regs[s]
    BY <1>1, <1>2, <2>2, AllocateEffect
  <2> QED BY <1>3, <2>3
<1>6. CASE \E st \in Streams : \E seen \in [Sketches -> AllArrays] : Returns(st, seen)
  <2>1. regs'[s] = regs[s]
    BY <1>6 DEF Returns
  <2> QED BY <1>3, <2>1
<1>7. ASSUME NEW st \in Streams, Work(st) PROVE Leq(regs[s], regs'[s])
  <2>1. CASE regs' = regs
    BY <1>3, <2>1
  <2>2. ASSUME NEW p \in Pieces, NEW x \in Sketches, Piece(st, p, x), RaisesIt(st, p, x)
        PROVE  Leq(regs[s], regs'[s])
    <3>1. CASE x # s
      BY <1>3, <2>2, <3>1 DEF RaisesIt, Sets
    <3>2. CASE x = s
      <4>1. Sets(s, p[1], Larger(regs[s][p[1]], p[2])) /\ p[1] \in Slots(lgk[s]) /\ p[2] \in Int
        BY <2>2, <3>2, Params DEF RaisesIt, Piece
      <4>2. regs[s][p[1]] <= Larger(regs[s][p[1]], p[2])
        BY <1>2, <4>1, Params, LargerOf
      <4>3. regs'[s] \in Arrays(lgk[s]) /\ \A i \in Slots(lgk[s]) : regs[s][i] <= regs'[s][i]
        BY <1>2, <4>1, <4>2, Params DEF Sets
      <4> QED BY <1>2, <4>3, LeqFacts
    <3> QED BY <3>1, <3>2
  <2>3. ASSUME NEW p \in Pieces, NEW x \in Sketches, Piece(st, p, x), StoresIt(st, p, x)
        PROVE  Leq(regs[s], regs'[s])
    <3>1. 1 \in Positions(st) /\ x = queue[st][1].to /\ queue[st][1].op \in {"clear", "load"}
      BY <2>3 DEF StoresIt, Piece
    <3>2. x # s
      <4>1. CASE queue[st][1].op = "clear"
        BY <1>1, <3>1, <4>1, TasksAre DEF Initialized
      <4>2. CASE queue[st][1].op = "load"
        <5>1. LoadingOn(st, x)
          BY <3>1, <4>2, <1>1, OwnersUse DEF OwnerOK
        <5> QED BY <1>1, <1>2, <5>1 DEF Owners, LoadingAlone
      <4> QED BY <3>1, <4>1, <4>2
    <3> QED BY <1>3, <2>3, <3>2 DEF StoresIt, Sets
  <2> QED BY <1>7, <2>1, <2>2, <2>3, WorkCases DEF ReadsIt, CopiesIt
<1>8. CASE \E st \in Streams, x \in Sketches, batch \in Batches, sync \in BOOLEAN :
             Update(st, x, batch, sync)
  BY <1>3, <1>4, <1>8, UpdateAsks
<1>9. CASE \E st \in Streams, x \in Sketches, other \in Sketches, sync \in BOOLEAN :
             Merge(st, x, other, sync)
  BY <1>3, <1>4, <1>9, MergeAsks
<1>10. CASE \E st \in Streams, x \in Sketches, kind \in Kinds : Snapshot(st, x, kind)
  BY <1>3, <1>4, <1>10, SnapshotAsks
<1>11. CASE \E x \in Sketches : Destroy(x)
  BY <1>3, <1>4, <1>11, DestroyAsks
<1> QED BY <1>5, <1>6, <1>7, <1>8, <1>9, <1>10, <1>11, NextCases

(* Registers only rise: once the array of a sketch that the client holds is *)
(* cleared, no update, merge or load on any stream lowers one of its       *)
(* registers (the atomic maximum of cuco's kernels, and the contract that  *)
(* orders a sketch's initialization before its use).                       *)
THEOREM NeverLower == Spec => RegistersOnlyRise
<1> DEFINE Rises == \A s \in Sketches : Initialized(s) /\ s \in live' => Leq(regs[s], regs'[s])
<1>1. Base /\ [Next]_vars => [Rises]_vars
  BY StepRises
<1> HIDE DEF Rises
<1>2. Spec => [][Rises]_vars
  BY <1>1, AlwaysBase, PTL DEF Spec
<1> QED BY <1>2 DEF RegistersOnlyRise, Rises

-----------------------------------------------------------------------------
(* What is still to be cleared.                                            *)

LEMMA ClearedAtHead ==
  ASSUME Base, NEW st \in Streams, 1 \in Positions(st), queue[st][1].op # "clear",
         NEW x, Names(queue[st][1], x), NEW i
  PROVE  ~Uncleared(x, i)
<1> SUFFICES ASSUME Uncleared(x, i) PROVE FALSE
  OBVIOUS
<1>1a. PICK o \in Streams : \E n \in Positions(o) : queue[o][n].op = "clear" /\ queue[o][n].to = x
  BY DEF Uncleared
<1>1. PICK n \in Positions(o) : queue[o][n].op = "clear" /\ queue[o][n].to = x
  BY <1>1a
<1>2. ClearedFirst(o, n)
  BY OwnersUse DEF Base
<1>3. st = o /\ (1 = n \/ n < 1)
  BY <1>1, <1>2 DEF ClearedFirst
<1>4. n \in Nat /\ n >= 1
  BY QueueFacts DEF Base, Positions
<1> QED BY <1>1, <1>3, <1>4

LEMMA ClearedByAppends ==
  ASSUME Typed, NEW st \in Streams, NEW tasks \in Seq(TaskSet), Appends(st, tasks), NEW x, NEW i
  PROVE  /\ Uncleared(x, i) => Uncleared(x, i)'
         /\ Uncleared(x, i)' => \/ Uncleared(x, i)
                                \/ \E k \in 1 .. Len(tasks) : tasks[k].op = "clear" /\ tasks[k].to = x
<1>1. ASSUME Uncleared(x, i) PROVE Uncleared(x, i)'
  <2>1a. PICK o \in Streams : \E n \in Positions(o) :
          queue[o][n].op = "clear" /\ queue[o][n].to = x /\ <<i, 0>> \in queue[o][n].left
    BY <1>1 DEF Uncleared
  <2>1. PICK n \in Positions(o) :
          queue[o][n].op = "clear" /\ queue[o][n].to = x /\ <<i, 0>> \in queue[o][n].left
    BY <2>1a
  <2>2. n \in Positions(o)' /\ queue'[o][n] = queue[o][n]
    <3>1. Len(queue[st]) \in Nat /\ Len(tasks) \in Nat
      BY QueueFacts, LenProperties
    <3> QED BY <3>1 DEF Appends, Positions
  <2> QED BY <2>1, <2>2 DEF Uncleared
<1>2. ASSUME Uncleared(x, i)'
      PROVE  \/ Uncleared(x, i)
             \/ \E k \in 1 .. Len(tasks) : tasks[k].op = "clear" /\ tasks[k].to = x
  <2>1a. PICK o \in Streams : \E n \in Positions(o)' :
          queue'[o][n].op = "clear" /\ queue'[o][n].to = x /\ <<i, 0>> \in queue'[o][n].left
    BY <1>2 DEF Uncleared
  <2>1. PICK n \in Positions(o)' :
          queue'[o][n].op = "clear" /\ queue'[o][n].to = x /\ <<i, 0>> \in queue'[o][n].left
    BY <2>1a
  <2> QED BY <2>1, AppendsWhence DEF Uncleared
<1> QED BY <1>1, <1>2

LEMMA ClearedByRetires ==
  ASSUME Typed, NEW st \in Streams, Retires(st), NEW x, NEW i
  PROVE  Uncleared(x, i)' <=> Uncleared(x, i)
<1>0. Len(queue[st]) \in Nat
  BY QueueFacts
<1>1. ASSUME Uncleared(x, i) PROVE Uncleared(x, i)'
  <2>1a. PICK o \in Streams : \E n \in Positions(o) :
          queue[o][n].op = "clear" /\ queue[o][n].to = x /\ <<i, 0>> \in queue[o][n].left
    BY <1>1 DEF Uncleared
  <2>1. PICK n \in Positions(o) :
          queue[o][n].op = "clear" /\ queue[o][n].to = x /\ <<i, 0>> \in queue[o][n].left
    BY <2>1a
  <2>2. CASE o # st
    BY <2>1, <2>2 DEF Uncleared, Retires, Positions
  <2>3. CASE o = st
    <3>1. n # 1
      BY <2>1, <2>3 DEF Retires
    <3>2. PICK m \in 1 .. Len(queue'[st]) : n = m + 1
      <4>1. n - 1 \in 1 .. Len(queue'[st]) /\ n = (n - 1) + 1
        BY <1>0, <2>3, <3>1 DEF Retires, Positions
      <4> QED BY <4>1
    <3>3. m \in Positions(st)' /\ queue'[st][m] = queue[st][n]
      BY <3>2 DEF Retires, Positions
    <3> QED BY <2>1, <2>3, <3>3 DEF Uncleared
  <2> QED BY <2>2, <2>3
<1>2. ASSUME Uncleared(x, i)' PROVE Uncleared(x, i)
  <2>1a. PICK o \in Streams : \E n \in Positions(o)' :
          queue'[o][n].op = "clear" /\ queue'[o][n].to = x /\ <<i, 0>> \in queue'[o][n].left
    BY <1>2 DEF Uncleared
  <2>1. PICK n \in Positions(o)' :
          queue'[o][n].op = "clear" /\ queue'[o][n].to = x /\ <<i, 0>> \in queue'[o][n].left
    BY <2>1a
  <2>2. PICK k \in Positions(o) : queue'[o][n] = queue[o][k]
    BY SMTT(60), <2>1 DEF Retires, Positions
  <2> QED BY <2>1, <2>2 DEF Uncleared
<1> QED BY <1>1, <1>2

LEMMA ClearedByLeaves ==
  ASSUME Typed, NEW st \in Streams, NEW X, Leaves(st, X), NEW x, NEW i
  PROVE  /\ (queue[st][1].op = "clear" => X \subseteq queue[st][1].left)
              => (Uncleared(x, i)' => Uncleared(x, i))
         /\ (queue[st][1].op = "clear" /\ queue[st][1].to = x
               /\ <<i, 0>> \in queue[st][1].left => <<i, 0>> \in X)
              => (Uncleared(x, i) => Uncleared(x, i)')
<1>1. ASSUME queue[st][1].op = "clear" => X \subseteq queue[st][1].left, Uncleared(x, i)'
      PROVE  Uncleared(x, i)
  <2>1a. PICK o \in Streams : \E n \in Positions(o)' :
          queue'[o][n].op = "clear" /\ queue'[o][n].to = x /\ <<i, 0>> \in queue'[o][n].left
    BY <1>1 DEF Uncleared
  <2>1. PICK n \in Positions(o)' :
          queue'[o][n].op = "clear" /\ queue'[o][n].to = x /\ <<i, 0>> \in queue'[o][n].left
    BY <2>1a
  <2>2. n \in Positions(o) /\ queue[o][n].op = "clear" /\ queue[o][n].to = x
        /\ queue'[o][n].left = IF o = st /\ n = 1 THEN X ELSE queue[o][n].left
    BY <2>1 DEF Leaves, Positions
  <2>3. <<i, 0>> \in queue[o][n].left
    BY <1>1, <2>1, <2>2
  <2> QED BY <2>2, <2>3 DEF Uncleared
<1>2. ASSUME queue[st][1].op = "clear" /\ queue[st][1].to = x
               /\ <<i, 0>> \in queue[st][1].left => <<i, 0>> \in X,
             Uncleared(x, i)
      PROVE  Uncleared(x, i)'
  <2>1a. PICK o \in Streams : \E n \in Positions(o) :
          queue[o][n].op = "clear" /\ queue[o][n].to = x /\ <<i, 0>> \in queue[o][n].left
    BY <1>2 DEF Uncleared
  <2>1. PICK n \in Positions(o) :
          queue[o][n].op = "clear" /\ queue[o][n].to = x /\ <<i, 0>> \in queue[o][n].left
    BY <2>1a
  <2>2. n \in Positions(o)' /\ queue'[o][n].op = "clear" /\ queue'[o][n].to = x
        /\ queue'[o][n].left = IF o = st /\ n = 1 THEN X ELSE queue[o][n].left
    BY <2>1 DEF Leaves, Positions
  <2>3. <<i, 0>> \in queue'[o][n].left
    BY <1>2, <2>1, <2>2
  <2> QED BY <2>2, <2>3 DEF Uncleared
<1> QED BY <1>1, <1>2

\* Nothing new is to be cleared.
LEMMA WorkClears ==
  ASSUME Base, NEW st \in Streams, Work(st), NEW x, NEW i
  PROVE  Uncleared(x, i)' => Uncleared(x, i)
<1>1. Typed
  BY DEF Base
<1>2. CASE Retires(st)
  BY <1>1, <1>2, ClearedByRetires
<1>3. ASSUME NEW X, Leaves(st, X), queue[st][1].op = "clear" => X \subseteq queue[st][1].left
      PROVE  Uncleared(x, i)' => Uncleared(x, i)
  BY <1>1, <1>3, ClearedByLeaves
<1>4. ASSUME NEW p \in Pieces, NEW s \in Sketches,
             RaisesIt(st, p, s) \/ StoresIt(st, p, s) \/ CopiesIt(st, p, s)
      PROVE  Uncleared(x, i)' => Uncleared(x, i)
  <2>1. Leaves(st, queue[st][1].left \ {p})
    BY <1>4 DEF RaisesIt, StoresIt, CopiesIt
  <2> QED BY <1>3, <2>1
<1>5. ASSUME NEW p \in Pieces, NEW s \in Sketches, ReadsIt(st, p, s)
      PROVE  Uncleared(x, i)' => Uncleared(x, i)
  <2>1. PICK X : Leaves(st, X) /\ queue[st][1].op # "clear"
    BY <1>5 DEF ReadsIt
  <2> QED BY <1>3, <2>1
<1> QED BY <1>2, <1>4, <1>5, WorkCases

-----------------------------------------------------------------------------
(* A sketch holds no more than what it was given.                          *)

LEMMA PromiseRaises ==
  ASSUME Base, NoMore, NEW st \in Streams, NEW s \in Sketches,
         NEW least \in Arrays(lgk[s]), NEW most \in Arrays(lgk[s]), Promise(st, s, least, most),
         lgk' = lgk, regs' = regs
  PROVE  /\ \A x \in Sketches : \A i \in Slots(lgk[x]) : may[x][i] <= may'[x][i]
         /\ \A o \in Streams : \A n \in Positions(o) :
              queue[o][n].op = "merge" => Leq(may'[queue[o][n].from], may'[queue[o][n].to])
         /\ \A i \in Slots(lgk[s]) : most[i] <= may'[s][i]
         /\ \A x \in Sketches : most = may[x] /\ lgk[x] = lgk[s] => Leq(may'[x], may'[s])
<1>1. Typed /\ Sized /\ Owners
  BY DEF Base
<1>2. \A x \in Sketches : may'[x] = IF x \in Fed(s) THEN Join(may[x], most) ELSE may[x]
  BY SMTT(60), <1>1, PromiseEffect
<1>3. ASSUME NEW x \in Sketches
      PROVE  /\ lgk[x] \in LgKs /\ may[x] \in Arrays(lgk[x]) /\ may'[x] \in Arrays(lgk[x])
             /\ x \in Fed(s) => most \in Arrays(lgk[x])
             /\ \A i \in Slots(lgk[x]) :
                  /\ may[x][i] \in 0 .. MaxRho /\ may'[x][i] \in 0 .. MaxRho
                  /\ may[x][i] <= may'[x][i]
                  /\ x \in Fed(s) => most[i] \in 0 .. MaxRho /\ most[i] <= may'[x][i]
                                     /\ (may'[x][i] = may[x][i] \/ may'[x][i] = most[i])
  <2>1. lgk[x] \in LgKs /\ may[x] \in Arrays(lgk[x])
    BY <1>1 DEF Typed, Sized
  <2>2. CASE x \in Fed(s)
    <3>1. most \in Arrays(lgk[x])
      BY <1>1, <2>2, FedFacts
    <3>2. PICK j \in Arrays(lgk[x]) :
            /\ j = Join(may[x], most)
            /\ \A i \in Slots(lgk[x]) : /\ may[x][i] <= j[i] /\ most[i] <= j[i]
                                        /\ j[i] = may[x][i] \/ j[i] = most[i]
      BY <2>1, <3>1, JoinFacts
    <3>3. \A i \in Slots(lgk[x]) : may[x][i] \in 0 .. MaxRho /\ j[i] \in 0 .. MaxRho
                                   /\ most[i] \in 0 .. MaxRho
      BY <2>1, <3>1, ArrayFacts
    <3>4. may'[x] = j
      BY <1>2, <2>2, <3>2
    <3> QED BY <2>1, <3>1, <3>2, <3>3, <3>4
  <2>3. CASE x \notin Fed(s)
    <3>1. may'[x] = may[x]
      BY <1>2, <2>3
    <3>2. \A i \in Slots(lgk[x]) : may[x][i] \in 0 .. MaxRho
      BY <2>1, ArrayFacts
    <3> QED BY <2>1, <2>3, <3>1, <3>2, Params
  <2> QED BY <2>2, <2>3
<1>4. ASSUME NEW o \in Streams, NEW n \in Positions(o), queue[o][n].op = "merge"
      PROVE  Leq(may'[queue[o][n].from], may'[queue[o][n].to])
  <2>1. PICK f \in Sketches, t \in Sketches : f = queue[o][n].from /\ t = queue[o][n].to
    BY <1>1, QueueFacts DEF TaskSet
  <2>2. lgk[f] = lgk[t]
    BY <1>1, <1>4, <2>1, OwnersUse DEF OwnerOK
  <2>3. \A i \in Slots(lgk[t]) : may[f][i] <= may[t][i]
    <3>1. Leq(may[f], may[t])
      BY <1>4, <2>1 DEF NoMore
    <3> QED BY <1>3, <2>2, <3>1, LeqFacts
  <2>4. f \in Fed(s) => t \in Fed(s)
    BY <1>1, <1>4, <2>1, FedFacts
  <2>5. \A i \in Slots(lgk[t]) : may'[f][i] <= may'[t][i]
    <3> SUFFICES ASSUME NEW i \in Slots(lgk[t]) PROVE may'[f][i] <= may'[t][i]
      OBVIOUS
    <3>1. CASE f \in Fed(s)
      BY <1>3, <2>2, <2>3, <2>4, <3>1, Params
    <3>2. CASE f \notin Fed(s)
      <4>1. may'[f] = may[f]
        BY <1>2, <3>2
      <4> QED BY <1>3, <2>2, <2>3, <4>1, Params
    <3> QED BY <3>1, <3>2
  <2> QED BY <1>3, <2>1, <2>2, <2>5, LeqFacts
<1>5. \A i \in Slots(lgk[s]) : most[i] <= may'[s][i]
  BY <1>1, <1>3, FedFacts
<1>6. ASSUME NEW x \in Sketches, most = may[x], lgk[x] = lgk[s] PROVE Leq(may'[x], may'[s])
  <2>1. \A i \in Slots(lgk[x]) : may'[x][i] = may[x][i]
    <3>1. CASE x \in Fed(s)
      BY <1>3, <1>6, <3>1
    <3>2. CASE x \notin Fed(s)
      BY <1>2, <3>2
    <3> QED BY <3>1, <3>2
  <2>2. \A i \in Slots(lgk[s]) : may'[x][i] <= may'[s][i]
    BY <1>5, <1>6, <2>1
  <2> QED BY <1>3, <1>6, <2>2, LeqFacts
<1> QED BY <1>3, <1>4, <1>5, <1>6

\* The parts of NoMore.
RegsMore == \A s \in Sketches : \A i \in Slots(lgk[s]) : Uncleared(s, i) \/ regs[s][i] <= may[s][i]

PiecesMore(o, n) == \A p \in queue[o][n].left : p[2] <= may[queue[o][n].to][p[1]]

MergeMore(o, n) ==
  queue[o][n].op = "merge" => Leq(may[queue[o][n].from], may[queue[o][n].to])

BufMore(o, s) == SnapshotOn(o, s) => \A i \in Slots(lgk[s]) : buf[o][i] <= may[s][i]

LEMMA AsksNoMore ==
  ASSUME Base, NoMore, NEW st \in Streams, NEW t \in TaskSet, Asks(st, t),
         \A x \in Sketches : \A i \in Slots(lgk[x]) : may[x][i] <= may'[x][i],
         \A p \in t.left : p[2] <= may'[t.to][p[1]],
         \A o \in Streams : \A n \in Positions(o) :
           queue[o][n].op = "merge" => Leq(may'[queue[o][n].from], may'[queue[o][n].to]),
         t.op = "merge" => Leq(may'[t.from], may'[t.to]),
         \A x \in Sketches : SnapshotOn(st, x)' =>
           (SnapshotOn(st, x) /\ buf'[st] = buf[st]) \/ buf'[st] = Zeros(lgk[x])
  PROVE  NoMore'
<1>1. Typed /\ Sized /\ Owners /\ Shapes /\ lgk' = lgk /\ regs' = regs /\ Sized'
  BY DEF Base, Asks
<1>2. PICK tasks \in Seq(TaskSet) : tasks = <<t>> /\ Len(tasks) = 1 /\ tasks[1] = t
  BY ShortQueues
<1>3. Appends(st, tasks)
  BY <1>2 DEF Asks
<1>4. \A x \in Sketches : \A i \in Slots(lgk[x]) :
        /\ regs[x][i] \in 0 .. MaxRho /\ may[x][i] \in 0 .. MaxRho /\ may'[x][i] \in 0 .. MaxRho
  <2> SUFFICES ASSUME NEW x \in Sketches
               PROVE  \A i \in Slots(lgk[x]) :
                        /\ regs[x][i] \in 0 .. MaxRho /\ may[x][i] \in 0 .. MaxRho
                        /\ may'[x][i] \in 0 .. MaxRho
    OBVIOUS
  <2>1. lgk[x] \in LgKs /\ regs[x] \in Arrays(lgk[x]) /\ may[x] \in Arrays(lgk[x])
        /\ may'[x] \in Arrays(lgk[x])
    BY <1>1 DEF Typed, Sized
  <2> QED BY <2>1, ArrayFacts
<1>5. RegsMore'
  <2> SUFFICES ASSUME NEW s \in Sketches, NEW i \in Slots(lgk[s])
               PROVE  Uncleared(s, i)' \/ regs[s][i] <= may'[s][i]
    BY <1>1 DEF RegsMore
  <2>1. Uncleared(s, i) \/ regs[s][i] <= may[s][i]
    BY DEF NoMore
  <2>2. Uncleared(s, i) => Uncleared(s, i)'
    BY <1>1, <1>3, ClearedByAppends
  <2> QED BY <1>4, <2>1, <2>2, Params
<1>6. ASSUME NEW o \in Streams, NEW n \in Positions(o)'
      PROVE  PiecesMore(o, n)' /\ MergeMore(o, n)'
  <2>1. CASE n \in Positions(o) /\ queue'[o][n] = queue[o][n]
    <3>1. PICK u \in TaskSet : u = queue[o][n]
      BY <1>1, <2>1, QueueFacts
    <3>2. \A p \in u.left : p[2] <= may[u.to][p[1]]
      BY <2>1, <3>1 DEF NoMore
    <3>3. u.to \in Sketches /\ \A p \in u.left : p[1] \in Slots(lgk[u.to]) /\ p \in Pieces
      BY <1>1, <2>1, <3>1 DEF TaskSet, Shapes, PiecesOK
    <3>4. \A p \in u.left : p[2] <= may'[u.to][p[1]]
      BY SMTT(60), <1>4, <3>2, <3>3, Params DEF Pieces, Unread
    <3> QED BY <2>1, <3>1, <3>4 DEF PiecesMore, MergeMore
  <2>2. ASSUME NEW k \in 1 .. Len(tasks), queue'[o][n] = tasks[k]
        PROVE  PiecesMore(o, n)' /\ MergeMore(o, n)'
    <3>1. queue'[o][n] = t
      BY <1>2, <2>2
    <3> QED BY <3>1 DEF PiecesMore, MergeMore
  <2> QED BY <1>1, <1>3, <2>1, <2>2, AppendsWhence
<1>7. ASSUME NEW o \in Streams, NEW s \in Sketches PROVE BufMore(o, s)'
  <2> SUFFICES ASSUME SnapshotOn(o, s)', NEW i \in Slots(lgk[s])
               PROVE  buf'[o][i] <= may'[s][i]
    BY <1>1 DEF BufMore
  <2>1. (SnapshotOn(o, s) /\ buf'[o] = buf[o]) \/ buf'[o] = Zeros(lgk[s])
    <3>1. CASE o = st
      BY <3>1
    <3>2. CASE o # st
      BY <3>2 DEF Asks, SnapshotOn, Asked
    <3> QED BY <3>1, <3>2
  <2>2. CASE SnapshotOn(o, s) /\ buf'[o] = buf[o]
    <3>1. buf[o][i] <= may[s][i]
      BY <2>2 DEF NoMore
    <3>2. buf[o] \in Arrays(lgk[s]) /\ lgk[s] \in LgKs
      BY <1>1, <2>2 DEF Owners, CallOK, SnapshotOn, Typed
    <3>3. buf[o][i] \in 0 .. MaxRho
      BY <3>2, ArrayFacts
    <3> QED BY <1>4, <2>2, <3>1, <3>3, Params
  <2>3. CASE buf'[o] = Zeros(lgk[s])
    <3>1. buf'[o][i] = 0
      BY <1>1, <2>3, ArrayFacts DEF Typed
    <3>2. may'[s][i] \in Nat
      BY <1>4, Params
    <3> QED BY <3>1, <3>2
  <2> QED BY <2>1, <2>2, <2>3
<1> QED BY <1>5, <1>6, <1>7 DEF NoMore, RegsMore, PiecesMore, MergeMore, BufMore

LEMMA CreatesNoMore ==
  ASSUME Base, NoMore, NEW st \in Streams, NEW s \in Sketches, NEW l \in LgKs, NEW a \in Arrays(l),
         NEW tasks \in Seq(TaskSet), Creates(st, s, l, a, tasks)
  PROVE  NoMore'
<1>1. Typed /\ Sized /\ Owners /\ Shapes /\ Idle(s) /\ Allocate(st, s, l, a) /\ Appends(st, tasks)
  BY DEF Base, Creates
<1>2. /\ lgk'[s] = l /\ may'[s] = a
      /\ \A x \in Sketches : x # s =>
           lgk'[x] = lgk[x] /\ regs'[x] = regs[x] /\ may'[x] = may[x]
  BY <1>1, AllocateEffect
<1>3. RegsMore'
  <2>1. ASSUME NEW x \in Sketches, NEW i \in Slots(lgk'[x])
        PROVE  Uncleared(x, i)' \/ regs'[x][i] <= may'[x][i]
    <3>1. CASE x # s
      <4>1. Uncleared(x, i) \/ regs[x][i] <= may[x][i]
        BY <1>2, <2>1, <3>1 DEF NoMore
      <4>2. Uncleared(x, i) => Uncleared(x, i)'
        BY <1>1, ClearedByAppends
      <4> QED BY <1>2, <3>1, <4>1, <4>2
    <3>2. CASE x = s
      <4>1. 1 \in 1 .. Len(tasks) /\ tasks[1].op = "clear" /\ tasks[1].to = s
            /\ tasks[1].left = {<<j, 0>> : j \in Slots(l)}
        BY DEF Creates
      <4>2. PICK n \in Positions(st)' : queue'[st][n] = tasks[1]
        <5>1. Len(queue[st]) \in Nat /\ Len(tasks) \in Nat
          BY <1>1, QueueFacts, LenProperties
        <5>2. Len(queue[st]) + 1 \in Positions(st)'
          BY <1>1, <4>1, <5>1 DEF Appends, Positions
        <5>3. queue'[st][Len(queue[st]) + 1] = tasks[1]
          BY <1>1, <4>1 DEF Appends
        <5> QED BY <5>2, <5>3
      <4>3. <<i, 0>> \in tasks[1].left
        BY <1>2, <2>1, <3>2, <4>1
      <4> QED BY <3>2, <4>1, <4>2, <4>3 DEF Uncleared
    <3> QED BY <3>1, <3>2
  <2> QED BY <2>1 DEF RegsMore
<1>4. ASSUME NEW o \in Streams, NEW n \in Positions(o)'
      PROVE  PiecesMore(o, n)' /\ MergeMore(o, n)'
  <2>1. CASE n \in Positions(o) /\ queue'[o][n] = queue[o][n]
    <3>1. PICK u \in TaskSet : u = queue[o][n]
      BY <1>1, <2>1, QueueFacts
    <3>2. u.to \in Sketches /\ u.from \in Sketches /\ u.to # s /\ u.from # s
      BY <1>1, <2>1, <3>1 DEF TaskSet, Idle, Names
    <3>3. /\ \A p \in u.left : p[2] <= may[u.to][p[1]]
          /\ u.op = "merge" => Leq(may[u.from], may[u.to])
      BY <2>1, <3>1 DEF NoMore
    <3>4. may'[u.to] = may[u.to] /\ may'[u.from] = may[u.from]
      BY <1>2, <3>2
    <3> QED BY <2>1, <3>1, <3>3, <3>4 DEF PiecesMore, MergeMore
  <2>2. ASSUME NEW k \in 1 .. Len(tasks), queue'[o][n] = tasks[k]
        PROVE  PiecesMore(o, n)' /\ MergeMore(o, n)'
    <3>1. tasks[k].to = s /\ tasks[k].op # "merge"
      BY DEF Creates
    <3>2. \A i \in Slots(l) : a[i] \in 0 .. MaxRho
      BY ArrayFacts
    <3>3. CASE tasks[k].op = "clear"
      <4>1. tasks[k].left = {<<i, 0>> : i \in Slots(l)}
        BY <3>3 DEF Creates
      <4>2. \A p \in tasks[k].left : p[2] <= a[p[1]]
        BY <3>2, <4>1, Params
      <4> QED BY <1>2, <2>2, <3>1, <4>2 DEF PiecesMore, MergeMore
    <3>4. CASE tasks[k].op = "load"
      <4>1. tasks[k].left = {<<i, a[i]>> : i \in Slots(l)}
        BY <3>4 DEF Creates
      <4>2. \A p \in tasks[k].left : p[2] <= a[p[1]]
        BY <3>2, <4>1, Params
      <4> QED BY <1>2, <2>2, <3>1, <4>2 DEF PiecesMore, MergeMore
    <3>5. CASE tasks[k].op = "free"
      <4>1. tasks[k].left = {}
        BY <3>5 DEF Creates
      <4> QED BY <2>2, <3>1, <4>1 DEF PiecesMore, MergeMore
    <3> QED BY <3>3, <3>4, <3>5 DEF Creates
  <2> QED BY <1>1, <2>1, <2>2, AppendsWhence
<1>5. ASSUME NEW o \in Streams, NEW x \in Sketches PROVE BufMore(o, x)'
  <2> SUFFICES ASSUME SnapshotOn(o, x)', NEW i \in Slots(lgk'[x])
               PROVE  buf'[o][i] <= may'[x][i]
    BY DEF BufMore
  <2>1. o # st
    BY DEF Creates, SnapshotOn, LoadingOn, Asked
  <2>2. SnapshotOn(o, x)
    BY <2>1 DEF Creates, SnapshotOn, Asked
  <2>3. x # s
    <3>1. call[o] # None /\ x \in call[o].uses
      BY <1>1, <2>2 DEF Owners, CallOK, SnapshotOn, Asked
    <3> QED BY <1>1, <3>1 DEF Idle
  <2>4. buf[o][i] <= may[x][i]
    BY <1>2, <2>2, <2>3 DEF NoMore
  <2> QED BY <1>2, <2>3, <2>4 DEF Creates
<1> QED BY <1>3, <1>4, <1>5 DEF NoMore, RegsMore, PiecesMore, MergeMore, BufMore

LEMMA WorkNoMore ==
  ASSUME Base, NoMore, NEW st \in Streams, Work(st)
  PROVE  NoMore'
<1>1. Typed /\ Sized /\ Owners /\ Shapes /\ Inside
  BY WorkCases DEF Base
<1>2. lgk' = lgk /\ may' = may /\ call' = call
  BY <1>1 DEF Inside
<1>3. CASE Retires(st) /\ regs' = regs /\ buf' = buf
  <2>1. RegsMore'
    <3>1. \A x, i : Uncleared(x, i)' <=> Uncleared(x, i)
      BY <1>1, <1>3, ClearedByRetires
    <3> QED BY <1>2, <1>3, <3>1 DEF RegsMore, NoMore
  <2>2. ASSUME NEW o \in Streams, NEW n \in Positions(o)'
        PROVE  PiecesMore(o, n)' /\ MergeMore(o, n)'
    <3>1. PICK k \in Positions(o) : queue'[o][n] = queue[o][k]
      BY <1>3 DEF Retires, Positions
    <3> QED BY <1>2, <3>1 DEF NoMore, PiecesMore, MergeMore
  <2>3. \A o \in Streams, x \in Sketches : BufMore(o, x)'
    BY <1>2, <1>3 DEF NoMore, BufMore, SnapshotOn, Asked
  <2> QED BY <2>1, <2>2, <2>3 DEF NoMore, RegsMore, PiecesMore, MergeMore, BufMore
<1>4. ASSUME NEW p \in Pieces, NEW s \in Sketches, Piece(st, p, s)
      PROVE  \A X : /\ Leaves(st, X)
                    /\ \A q \in X : q \in queue[st][1].left \/ q[2] <= may[s][q[1]]
                    => \A o \in Streams : \A n \in Positions(o)' :
                         PiecesMore(o, n)' /\ MergeMore(o, n)'
  <2> SUFFICES ASSUME NEW X, Leaves(st, X),
                      \A q \in X : q \in queue[st][1].left \/ q[2] <= may[s][q[1]],
                      NEW o \in Streams, NEW n \in Positions(o)'
               PROVE  PiecesMore(o, n)' /\ MergeMore(o, n)'
    OBVIOUS
  <2>1. /\ n \in Positions(o) /\ queue'[o][n].op = queue[o][n].op
        /\ queue'[o][n].to = queue[o][n].to /\ queue'[o][n].from = queue[o][n].from
        /\ queue'[o][n].left = IF o = st /\ n = 1 THEN X ELSE queue[o][n].left
    BY DEF Leaves, Positions
  <2>2. \A q \in queue'[o][n].left : q[2] <= may[queue[o][n].to][q[1]]
    BY <1>4, <2>1 DEF NoMore, Piece
  <2> QED BY <1>2, <2>1, <2>2 DEF NoMore, PiecesMore, MergeMore
<1>5. ASSUME NEW p \in Pieces, NEW s \in Sketches, Piece(st, p, s), RaisesIt(st, p, s)
      PROVE  NoMore'
  <2>1. Leaves(st, queue[st][1].left \ {p}) /\ buf' = buf /\ queue[st][1].op # "clear"
        /\ p[2] \in 0 .. MaxRho /\ Sets(s, p[1], Larger(regs[s][p[1]], p[2]))
    BY <1>5 DEF RaisesIt
  <2>2. RegsMore'
    <3> SUFFICES ASSUME NEW x \in Sketches, NEW i \in Slots(lgk[x])
                 PROVE  Uncleared(x, i)' \/ regs'[x][i] <= may[x][i]
      BY <1>2 DEF RegsMore
    <3>1. Uncleared(x, i) \/ regs[x][i] <= may[x][i]
      BY DEF NoMore
    <3>2. Uncleared(x, i) => Uncleared(x, i)'
      BY <1>1, <2>1, ClearedByLeaves
    <3>3. CASE x = s /\ i = p[1]
      <4>1. ~Uncleared(s, i)
        BY <1>5, <2>1, ClearedAtHead DEF Piece, Names
      <4>2. regs'[s][i] = Larger(regs[s][i], p[2]) /\ p[2] <= may[s][i]
        BY <1>5, <2>1, <3>3 DEF Sets, Piece, NoMore
      <4>3. regs[s][i] \in Int /\ p[2] \in Int
        <5>1. regs[s] \in Arrays(lgk[s]) /\ lgk[s] \in LgKs
          BY <1>1 DEF Sized, Typed
        <5> QED BY <2>1, <3>3, <5>1, ArrayFacts, Params
      <4> QED BY <3>1, <3>3, <4>1, <4>2, <4>3, LargerOf
    <3>4. CASE ~(x = s /\ i = p[1])
      <4>1. regs'[x][i] = regs[x][i]
        BY <2>1, <3>4 DEF Sets
      <4> QED BY <3>1, <3>2, <4>1
    <3> QED BY <3>3, <3>4
  <2>3. \A o \in Streams : \A n \in Positions(o)' : PiecesMore(o, n)' /\ MergeMore(o, n)'
    BY <1>4, <1>5, <2>1
  <2>4. \A o \in Streams, x \in Sketches : BufMore(o, x)'
    BY <1>2, <2>1 DEF NoMore, BufMore, SnapshotOn, Asked
  <2> QED BY <2>2, <2>3, <2>4 DEF NoMore, RegsMore, PiecesMore, MergeMore, BufMore
<1>6. ASSUME NEW p \in Pieces, NEW s \in Sketches, Piece(st, p, s), ReadsIt(st, p, s)
      PROVE  NoMore'
  <2>1. PICK f \in Sketches : f = queue[st][1].from
    BY <1>6 DEF Piece, TaskSet
  <2>2. PICK X : X = (queue[st][1].left \ {p}) \cup {<<p[1], regs[f][p[1]]>>}
    OBVIOUS
  <2>3. Leaves(st, X) /\ buf' = buf /\ regs' = regs /\ queue[st][1].op = "merge" /\ lgk[f] = lgk[s]
    BY <1>6, <2>1, <2>2 DEF ReadsIt
  <2>4. regs[f][p[1]] <= may[s][p[1]]
    <3>1. ~Uncleared(f, p[1])
      BY <1>6, <2>1, <2>3, ClearedAtHead DEF Piece, Names
    <3>2. p[1] \in Slots(lgk[f])
      BY <1>6, <2>3 DEF Piece
    <3>3. regs[f][p[1]] <= may[f][p[1]]
      BY <3>1, <3>2 DEF NoMore
    <3>4. Leq(may[f], may[s])
      BY <1>6, <2>1, <2>3 DEF NoMore, Piece
    <3>5. lgk[s] \in LgKs /\ may[f] \in Arrays(lgk[s]) /\ may[s] \in Arrays(lgk[s])
          /\ regs[f] \in Arrays(lgk[s])
      BY <1>1, <2>3 DEF Typed, Sized
    <3>6. may[f][p[1]] <= may[s][p[1]]
      BY <2>3, <3>2, <3>4, <3>5, LeqFacts
    <3>7. regs[f][p[1]] \in Int /\ may[f][p[1]] \in Int /\ may[s][p[1]] \in Int
      BY <2>3, <3>2, <3>5, ArrayFacts, Params
    <3> QED BY <3>3, <3>6, <3>7
  <2>5. RegsMore'
    <3>1. \A x, i : Uncleared(x, i) => Uncleared(x, i)'
      BY <1>1, <2>3, ClearedByLeaves
    <3> QED BY <1>2, <2>3, <3>1 DEF RegsMore, NoMore
  <2>6. \A q \in X : q \in queue[st][1].left \/ q[2] <= may[s][q[1]]
    BY <2>2, <2>4
  <2>7. \A o \in Streams : \A n \in Positions(o)' : PiecesMore(o, n)' /\ MergeMore(o, n)'
    BY <1>4, <1>6, <2>3, <2>6
  <2>8. \A o \in Streams, x \in Sketches : BufMore(o, x)'
    BY <1>2, <2>3 DEF NoMore, BufMore, SnapshotOn, Asked
  <2> QED BY <2>5, <2>7, <2>8 DEF NoMore, RegsMore, PiecesMore, MergeMore, BufMore
<1>7. ASSUME NEW p \in Pieces, NEW s \in Sketches, Piece(st, p, s), StoresIt(st, p, s)
      PROVE  NoMore'
  <2>1. Leaves(st, queue[st][1].left \ {p}) /\ buf' = buf /\ Sets(s, p[1], p[2])
    BY <1>7 DEF StoresIt
  <2>2. RegsMore'
    <3> SUFFICES ASSUME NEW x \in Sketches, NEW i \in Slots(lgk[x])
                 PROVE  Uncleared(x, i)' \/ regs'[x][i] <= may[x][i]
      BY <1>2 DEF RegsMore
    <3>1. CASE x = s /\ i = p[1]
      BY <1>7, <2>1, <3>1 DEF Sets, Piece, NoMore
    <3>2. CASE ~(x = s /\ i = p[1])
      <4>1. Uncleared(x, i) \/ regs[x][i] <= may[x][i]
        BY DEF NoMore
      <4>2. regs'[x][i] = regs[x][i]
        BY <2>1, <3>2 DEF Sets
      <4>3. queue[st][1].to = x => <<i, 0>> # p
        BY <1>7, <3>2 DEF Piece
      <4>4. queue[st][1].op = "clear" /\ queue[st][1].to = x /\ <<i, 0>> \in queue[st][1].left
              => <<i, 0>> \in queue[st][1].left \ {p}
        BY <4>3
      <4>5. Uncleared(x, i) => Uncleared(x, i)'
        BY <1>1, <2>1, <4>4, ClearedByLeaves
      <4> QED BY <4>1, <4>2, <4>5
    <3> QED BY <3>1, <3>2
  <2>3. \A o \in Streams : \A n \in Positions(o)' : PiecesMore(o, n)' /\ MergeMore(o, n)'
    BY <1>4, <1>7, <2>1
  <2>4. \A o \in Streams, x \in Sketches : BufMore(o, x)'
    BY <1>2, <2>1 DEF NoMore, BufMore, SnapshotOn, Asked
  <2> QED BY <2>2, <2>3, <2>4 DEF NoMore, RegsMore, PiecesMore, MergeMore, BufMore
<1>8. ASSUME NEW p \in Pieces, NEW s \in Sketches, Piece(st, p, s), CopiesIt(st, p, s)
      PROVE  NoMore'
  <2>1. /\ Leaves(st, queue[st][1].left \ {p}) /\ regs' = regs /\ queue[st][1].op = "copy"
        /\ SnapshotOn(st, s)
        /\ \A o \in Streams : o # st => buf'[o] = buf[o]
        /\ \A j \in Slots(lgk[s]) : buf'[st][j] = IF j = p[1] THEN regs[s][j] ELSE buf[st][j]
    BY <1>8 DEF CopiesIt
  <2>2. RegsMore'
    <3>1. \A x, i : Uncleared(x, i) => Uncleared(x, i)'
      BY ZenonT(60), <1>1, <2>1, ClearedByLeaves
    <3> QED BY <1>2, <2>1, <3>1 DEF RegsMore, NoMore
  <2>3. \A o \in Streams : \A n \in Positions(o)' : PiecesMore(o, n)' /\ MergeMore(o, n)'
    BY <1>4, <1>8, <2>1
  <2>4. ASSUME NEW o \in Streams, NEW x \in Sketches PROVE BufMore(o, x)'
    <3> SUFFICES ASSUME SnapshotOn(o, x), NEW j \in Slots(lgk[x]) PROVE buf'[o][j] <= may[x][j]
      BY <1>2 DEF BufMore, SnapshotOn, Asked
    <3>1. buf[o][j] <= may[x][j]
      BY DEF NoMore
    <3>2. CASE o # st
      BY <2>1, <3>1, <3>2
    <3>3. CASE o = st
      <4>1. x = s
        BY <2>1, <3>3 DEF SnapshotOn
      <4>2. j \in Slots(lgk[s]) /\ buf'[o][j] = IF j = p[1] THEN regs[s][j] ELSE buf[st][j]
        BY <2>1, <3>3, <4>1
      <4>3. ~Uncleared(s, j)
        <5>1. queue[st][1].op # "clear" /\ Names(queue[st][1], s) /\ 1 \in Positions(st)
          BY <1>8, <2>1 DEF Piece, Names
        <5> QED BY <5>1, ClearedAtHead
      <4>4. regs[s][j] <= may[s][j]
        BY <4>2, <4>3 DEF NoMore
      <4> QED BY <3>1, <3>3, <4>1, <4>2, <4>4
    <3> QED BY <3>2, <3>3
  <2> QED BY <2>2, <2>3, <2>4 DEF NoMore, RegsMore, PiecesMore, MergeMore, BufMore
<1> QED BY <1>3, <1>5, <1>6, <1>7, <1>8, WorkCases

LEMMA UpdateNoMore ==
  ASSUME Base, NoMore, NEW st \in Streams, NEW s \in Sketches, NEW batch \in Batches,
         NEW sync \in BOOLEAN, Update(st, s, batch, sync)
  PROVE  NoMore'
<1>1. PICK t \in TaskSet, a \in Arrays(lgk[s]) :
        /\ Asks(st, t) /\ t.op = "add" /\ t.to = s /\ t.from = s
        /\ \A p \in t.left : p[2] <= a[p[1]]
        /\ Promise(st, s, a, a) /\ ~Asked(st, "snapshot")'
  BY UpdateAsks
<1>2. Typed /\ Sized /\ lgk' = lgk /\ regs' = regs /\ Sized' /\ PiecesOK(t)
  BY <1>1 DEF Base, Asks
<1>3. /\ \A x \in Sketches : \A i \in Slots(lgk[x]) : may[x][i] <= may'[x][i]
      /\ \A o \in Streams : \A n \in Positions(o) :
           queue[o][n].op = "merge" => Leq(may'[queue[o][n].from], may'[queue[o][n].to])
      /\ \A i \in Slots(lgk[s]) : a[i] <= may'[s][i]
  BY <1>1, <1>2, PromiseRaises
<1>4. ASSUME NEW p \in t.left PROVE p[2] <= may'[s][p[1]]
  <2>1. p \in Pieces /\ p[1] \in Slots(lgk[s])
    BY <1>1, <1>2 DEF TaskSet, PiecesOK
  <2>2. lgk[s] \in LgKs /\ may'[s] \in Arrays(lgk[s])
    BY <1>2 DEF Typed, Sized
  <2>3. a[p[1]] \in Int /\ may'[s][p[1]] \in Int /\ p[2] \in Int
    BY <2>1, <2>2, ArrayFacts, Params DEF Pieces, Unread
  <2>4. p[2] <= a[p[1]] /\ a[p[1]] <= may'[s][p[1]]
    BY <1>1, <1>3, <2>1
  <2> QED BY <2>3, <2>4
<1>5. \A x \in Sketches : ~SnapshotOn(st, x)'
  BY <1>1 DEF SnapshotOn
<1> QED BY <1>1, <1>3, <1>4, <1>5, AsksNoMore

LEMMA MergeNoMore ==
  ASSUME Base, NoMore, NEW st \in Streams, NEW s \in Sketches, NEW other \in Sketches,
         NEW sync \in BOOLEAN, Merge(st, s, other, sync)
  PROVE  NoMore'
<1>1. PICK t \in TaskSet, a \in Arrays(lgk[s]) :
        /\ Asks(st, t) /\ t.op = "merge" /\ t.to = s /\ t.from = other
        /\ t.left = {<<i, Unread>> : i \in Slots(lgk[s])}
        /\ may[other] \in Arrays(lgk[s]) /\ lgk[other] = lgk[s]
        /\ Promise(st, s, a, may[other]) /\ ~Asked(st, "snapshot")'
  BY MergeAsks
<1>2. Typed /\ Sized /\ lgk' = lgk /\ regs' = regs /\ Sized' /\ PiecesOK(t)
  BY <1>1 DEF Base, Asks
<1>3. PICK most \in Arrays(lgk[s]) : most = may[other] /\ Promise(st, s, a, most)
  BY <1>1
<1>4. /\ \A x \in Sketches : \A i \in Slots(lgk[x]) : may[x][i] <= may'[x][i]
      /\ \A o \in Streams : \A n \in Positions(o) :
           queue[o][n].op = "merge" => Leq(may'[queue[o][n].from], may'[queue[o][n].to])
      /\ Leq(may'[other], may'[s])
  BY <1>1, <1>2, <1>3, PromiseRaises
<1>5. ASSUME NEW p \in t.left PROVE p[2] <= may'[s][p[1]]
  <2>1. p[1] \in Slots(lgk[s]) /\ p[2] = Unread
    BY <1>1
  <2>2. lgk[s] \in LgKs /\ may'[s] \in Arrays(lgk[s])
    BY <1>2 DEF Typed, Sized
  <2>3. may'[s][p[1]] \in Nat
    BY <2>1, <2>2, ArrayFacts, Params
  <2> QED BY <2>1, <2>3 DEF Unread
<1>6. \A x \in Sketches : ~SnapshotOn(st, x)'
  BY <1>1 DEF SnapshotOn
<1> QED BY <1>1, <1>4, <1>5, <1>6, AsksNoMore

\* What can be held does not change.
LEMMA SameNoMore ==
  ASSUME Base, NoMore, NEW st \in Streams, NEW t \in TaskSet, Asks(st, t), may' = may,
         t.op # "merge", \A p \in t.left : p[2] = Unread,
         \A x \in Sketches : SnapshotOn(st, x)' =>
           (SnapshotOn(st, x) /\ buf'[st] = buf[st]) \/ buf'[st] = Zeros(lgk[x])
  PROVE  NoMore'
<1>1. Typed /\ Sized /\ PiecesOK(t) /\ t.to \in Sketches
  BY DEF Base, Asks, TaskSet
<1>2. ASSUME NEW x \in Sketches, NEW i \in Slots(lgk[x])
      PROVE  may[x][i] \in Nat
  <2>1. lgk[x] \in LgKs /\ may[x] \in Arrays(lgk[x])
    BY <1>1 DEF Typed, Sized
  <2> QED BY <2>1, ArrayFacts, Params
<1>3. \A x \in Sketches : \A i \in Slots(lgk[x]) : may[x][i] <= may'[x][i]
  BY <1>2
<1>4. ASSUME NEW p \in t.left PROVE p[2] <= may'[t.to][p[1]]
  <2>1. p[1] \in Slots(lgk[t.to])
    BY <1>1 DEF PiecesOK
  <2>2. may[t.to][p[1]] \in Nat
    BY <1>1, <1>2, <2>1
  <2> QED BY <2>2 DEF Unread
<1>5. \A o \in Streams : \A n \in Positions(o) :
        queue[o][n].op = "merge" => Leq(may'[queue[o][n].from], may'[queue[o][n].to])
  BY DEF NoMore
<1> QED BY <1>3, <1>4, <1>5, AsksNoMore

LEMMA ReturnsNoMore ==
  ASSUME Base, NoMore, NEW st \in Streams, NEW seen, Returns(st, seen)
  PROVE  NoMore'
<1>1. /\ queue' = queue /\ lgk' = lgk /\ regs' = regs /\ buf' = buf /\ may' = may
      /\ call'[st] = None /\ \A o \in Streams : o # st => call'[o] = call[o]
  BY DEF Returns, Learn
<1>2. RegsMore'
  BY <1>1 DEF RegsMore, NoMore, Uncleared, Positions
<1>3. \A o \in Streams : \A n \in Positions(o)' : PiecesMore(o, n)' /\ MergeMore(o, n)'
  BY <1>1 DEF PiecesMore, MergeMore, NoMore, Positions
<1>4. \A o \in Streams, x \in Sketches : BufMore(o, x)'
  <2> SUFFICES ASSUME NEW o \in Streams, NEW x \in Sketches, SnapshotOn(o, x)',
                      NEW i \in Slots(lgk[x])
               PROVE  buf[o][i] <= may[x][i]
    BY <1>1 DEF BufMore
  <2>1. SnapshotOn(o, x)
    BY <1>1 DEF SnapshotOn, Asked
  <2> QED BY <2>1 DEF NoMore
<1> QED BY <1>2, <1>3, <1>4 DEF NoMore, RegsMore, PiecesMore, MergeMore, BufMore

LEMMA NextNoMore ==
  ASSUME Base, NoMore, [Next]_vars
  PROVE  NoMore'
<1>1. CASE UNCHANGED vars
  <2>1. /\ queue' = queue /\ lgk' = lgk /\ regs' = regs /\ buf' = buf /\ may' = may /\ call' = call
    BY <1>1 DEF vars
  <2>2. RegsMore'
    BY <2>1 DEF RegsMore, NoMore, Uncleared, Positions
  <2>3. \A o \in Streams : \A n \in Positions(o)' : PiecesMore(o, n)' /\ MergeMore(o, n)'
    BY <2>1 DEF PiecesMore, MergeMore, NoMore, Positions
  <2>4. \A o \in Streams, x \in Sketches : BufMore(o, x)'
    BY <2>1 DEF BufMore, NoMore, SnapshotOn, Asked
  <2> QED BY <2>2, <2>3, <2>4 DEF NoMore, RegsMore, PiecesMore, MergeMore, BufMore
<1>2. ASSUME NEW st \in Streams, NEW s \in Sketches, NEW kind \in Kinds, Snapshot(st, s, kind)
      PROVE  NoMore'
  <2>1. PICK t \in TaskSet :
          /\ Asks(st, t) /\ t.op = "copy" /\ t.left = {<<i, Unread>> : i \in Slots(lgk[s])}
          /\ SnapshotOn(st, s)' /\ buf'[st] = Zeros(lgk[s]) /\ may' = may
    BY <1>2, SnapshotAsks
  <2>2. \A p \in t.left : p[2] = Unread
    BY <2>1
  <2>3. \A x \in Sketches : SnapshotOn(st, x)' => x = s
    BY <2>1 DEF SnapshotOn
  <2> QED BY <2>1, <2>2, <2>3, SameNoMore
<1>3. ASSUME NEW s \in Sketches, Destroy(s) PROVE NoMore'
  <2>1. PICK st \in Streams : st = home[s]
    BY <1>3, DestroyAsks
  <2>2. PICK t \in TaskSet :
          /\ Asks(st, t) /\ t.op = "free" /\ t.left = {} /\ may' = may /\ buf' = buf /\ call' = call
    BY <1>3, <2>1, DestroyAsks
  <2>3. \A x \in Sketches : SnapshotOn(st, x)' => SnapshotOn(st, x)
    BY <2>2 DEF SnapshotOn, Asked
  <2> QED BY <2>2, <2>3, SameNoMore
<1>4. CASE Next
  BY <1>2, <1>3, <1>4, NextCases, CreatesNoMore, UpdateNoMore, MergeNoMore, WorkNoMore,
     ReturnsNoMore
<1> QED BY <1>1, <1>4

LEMMA InitNoMore == Init => NoMore
<1> SUFFICES ASSUME Init PROVE NoMore
  OBVIOUS
<1>1. PICK l \in LgKs :
        /\ lgk = [s \in Sketches |-> l] /\ queue = [st \in Streams |-> <<>>]
        /\ call = [st \in Streams |-> None]
        /\ regs \in [Sketches -> Arrays(l)] /\ may = regs
  BY InitArrays
<1>2. \A st \in Streams : Positions(st) = {}
  <2>1. Typed
    BY InitBase DEF Base
  <2> QED BY <1>1, <2>1, QueueFacts
<1>3. RegsMore
  <2> SUFFICES ASSUME NEW s \in Sketches, NEW i \in Slots(lgk[s]) PROVE regs[s][i] <= may[s][i]
    BY DEF RegsMore
  <2>1. regs[s] \in Arrays(l) /\ i \in Slots(l)
    BY <1>1
  <2> QED BY <1>1, <2>1, ArrayFacts, Params
<1>4. \A o \in Streams, s \in Sketches : ~SnapshotOn(o, s)
  BY <1>1 DEF SnapshotOn, Asked
<1> QED BY <1>2, <1>3, <1>4 DEF NoMore, RegsMore

LEMMA AlwaysNoMore == Spec => []NoMore
<1>1. Init => NoMore
  BY InitNoMore
<1>2. Base /\ NoMore /\ [Next]_vars => NoMore'
  BY NextNoMore
<1> QED BY <1>1, <1>2, AlwaysBase, PTL DEF Spec

-----------------------------------------------------------------------------
(* A sketch holds no less than what is known to be in it.                  *)

LEMMA Ranges ==
  ASSUME Typed, Sized, Owners, NEW s \in Sketches, NEW i \in Slots(lgk[s])
  PROVE  /\ regs[s][i] \in 0 .. MaxRho /\ promised[s][i] \in 0 .. MaxRho
         /\ \A o \in Streams : pending[o][s][i] \in 0 .. MaxRho
         /\ \A o \in Streams : SnapshotOn(o, s) => /\ buf[o][i] \in 0 .. MaxRho
                                                   /\ call[o].must[i] \in 0 .. MaxRho
<1>1. PICK l \in LgKs : l = lgk[s]
  BY DEF Typed
<1>2. \A a \in Arrays(l) : a[i] \in 0 .. MaxRho
  BY <1>1, ArrayFacts
<1>3. regs[s] \in Arrays(l) /\ promised[s] \in Arrays(l) /\ \A o \in Streams : pending[o][s] \in Arrays(l)
  BY <1>1 DEF Sized
<1>4. \A o \in Streams : SnapshotOn(o, s) => buf[o] \in Arrays(l) /\ call[o].must \in Arrays(l)
  BY <1>1 DEF Owners, CallOK, SnapshotOn
<1> QED BY <1>2, <1>3, <1>4

\* What the thread of st knows of a sketch that is in use is there when all its
\* tasks are done.
LEMMA KnownSupplied ==
  ASSUME Base, NEW F \in Floors, Enough(F), NEW st \in Streams, NEW s \in Sketches, s \in live,
         NEW i \in Slots(lgk[s])
  PROVE  /\ Supplied(F, st, Len(queue[st]) + 1, s, i, promised[s][i])
         /\ Supplied(F, st, Len(queue[st]) + 1, s, i, pending[st][s][i])
<1>1. ASSUME NEW o \in Streams, NEW n \in Positions(o), LoadsOn(o, n, s, i) PROVE FALSE
  <2>1. LoadingOn(o, s)
    BY <1>1, OwnersUse DEF Base, LoadsOn, OwnerOK
  <2> QED BY <2>1 DEF Base, Owners, LoadingAlone
<1>2. Held(s, i, promised[s][i])
  BY <1>1 DEF Enough, KnownAt
<1> QED BY <1>2 DEF Enough, PendingAt, Supplied

\* One more task takes nothing away.
LEMMA AsksKeeps ==
  ASSUME Typed, NEW st \in Streams, NEW t \in TaskSet, Asks(st, t), NEW F, NEW G,
         \A o \in Streams : \A m \in Positions(o) : G[o][m] = F[o][m],
         NEW x, NEW i, NEW v
  PROVE  /\ Held(x, i, v) => Held(x, i, v)'
         /\ \A o \in Streams : \A n \in Nat, k \in Nat :
              n <= k /\ Supplied(F, o, n, x, i, v) => Supplied(G, o, k, x, i, v)'
<1>1. PICK tasks \in Seq(TaskSet) : tasks = <<t>> /\ Len(tasks) = 1 /\ tasks[1] = t
  BY ShortQueues
<1>2. Appends(st, tasks) /\ regs' = regs /\ t.op # "clear"
  BY <1>1 DEF Asks
<1>3. Uncleared(x, i)' => Uncleared(x, i)
  <2>1. \A k \in 1 .. Len(tasks) : tasks[k].op # "clear"
    <3>1. \A k \in 1 .. 1 : tasks[k] = t
      BY <1>1
    <3> QED BY <1>1, <1>2, <3>1
  <2> QED BY <1>2, <2>1, ClearedByAppends
<1>4. Held(x, i, v) => Held(x, i, v)'
  BY <1>2, <1>3 DEF Held
<1>5. ASSUME NEW o \in Streams, NEW n \in Nat, NEW k \in Nat, n <= k, Supplied(F, o, n, x, i, v)
      PROVE  Supplied(G, o, k, x, i, v)'
  <2>1. CASE Held(x, i, v)
    BY <1>4, <2>1 DEF Supplied
  <2>2. CASE ~Held(x, i, v)
    <3>1. PICK m \in Positions(o) : m < n /\ Brings(F, o, m, x, i, v)
      BY <1>5, <2>2 DEF Supplied
    <3>2. m \in Nat /\ m \in Positions(o)' /\ queue'[o][m] = queue[o][m]
      <4>1. Len(queue[o]) \in Nat /\ Len(queue[st]) \in Nat
        BY QueueFacts
      <4>2. m \in Nat /\ m \in Positions(o)'
        <5>1. CASE o = st
          BY <1>1, <1>2, <4>1, <5>1 DEF Appends, Positions
        <5>2. CASE o # st
          BY <1>2, <4>1, <5>2 DEF Appends, Positions
        <5> QED BY <5>1, <5>2
      <4>3. queue'[o][m] = queue[o][m]
        BY <1>2 DEF Appends
      <4> QED BY <4>2, <4>3
    <3>3. Brings(G, o, m, x, i, v)'
      BY <3>1, <3>2 DEF Brings
    <3> QED BY <1>5, <3>1, <3>2, <3>3 DEF Supplied
  <2> QED BY <2>1, <2>2
<1> QED BY <1>4, <1>5

LEMMA AsksEnough ==
  ASSUME Base, NEW F \in Floors, NEW G \in Floors, Enough(F),
         NEW st \in Streams, NEW t \in TaskSet, Asks(st, t),
         NEW e \in Nat, e = Len(queue[st]) + 1,
         \A o \in Streams : \A m \in Positions(o) : G[o][m] = F[o][m],
         \A o \in Streams, x \in Sketches : \A i \in Slots(lgk[x]) :
           \/ pending'[o][x][i] = pending[o][x][i]
           \/ o = st /\ BringsBy(t, G[st][e], x, i, pending'[o][x][i])
           \/ pending'[o][x][i] = 0,
         t.op = "merge" =>
           \A p \in t.left : p[2] = Unread => Supplied(F, st, e, t.from, p[1], G[st][e][p[1]]),
         \A x \in Sketches : SnapshotOn(st, x)' =>
           \/ SnapshotOn(st, x) /\ buf'[st] = buf[st] /\ call'[st] = call[st]
           \/ \A i \in Slots(lgk[x]) :
                /\ buf'[st][i] = 0 /\ t.op = "copy" /\ <<i, Unread>> \in t.left
                /\ \E v : v = call'[st].must[i] /\ Supplied(F, st, e, x, i, v)
  PROVE  Enough(G)'
<1>1. Typed /\ Sized /\ Owners /\ lgk' = lgk /\ regs' = regs /\ promised' = promised /\ t.op # "load"
  BY DEF Base, Asks
<1>2. PICK tasks \in Seq(TaskSet) : tasks = <<t>> /\ Len(tasks) = 1 /\ tasks[1] = t
  BY ShortQueues
<1>3. Appends(st, tasks)
  BY <1>2 DEF Asks
<1>4. ASSUME NEW x, NEW i, NEW v
      PROVE  /\ Held(x, i, v) => Held(x, i, v)'
             /\ \A o \in Streams : \A n \in Nat, k \in Nat :
                  n <= k /\ Supplied(F, o, n, x, i, v) => Supplied(G, o, k, x, i, v)'
  BY <1>1, AsksKeeps
<1>5. ASSUME NEW o \in Streams
      PROVE  /\ Len(queue[o]) \in Nat /\ Len(queue'[o]) \in Nat
             /\ Len(queue'[o]) = IF o = st THEN e ELSE Len(queue[o])
             /\ \A n \in Positions(o) : n \in Positions(o)' /\ queue'[o][n] = queue[o][n]
  <2>1. Len(queue[o]) \in Nat /\ Len(queue[st]) \in Nat
    BY <1>1, QueueFacts
  <2>2. Len(queue'[o]) = IF o = st THEN e ELSE Len(queue[o])
    BY <1>2, <1>3 DEF Appends
  <2> QED BY <1>3, <2>1, <2>2 DEF Appends, Positions
<1>6. e \in Positions(st)' /\ queue'[st][e] = t
  <2>1. 1 \in 1 .. Len(tasks)
    BY <1>2
  <2>2. queue'[st][Len(queue[st]) + 1] = t
    BY <1>2, <1>3, <2>1 DEF Appends
  <2> QED BY <1>5, <2>2 DEF Positions
<1>7. ASSUME NEW x \in Sketches, NEW i \in Slots(lgk[x]) PROVE KnownAt(x, i)'
  <2>1. CASE Held(x, i, promised[x][i])
    <3>1. PICK v : v = promised[x][i]
      OBVIOUS
    <3>2. Held(x, i, v)'
      BY <1>4, <2>1, <3>1
    <3> QED BY <1>1, <3>1, <3>2 DEF KnownAt, Held
  <2>2. CASE \E o \in Streams : \E n \in Positions(o) : LoadsOn(o, n, x, i)
    <3>1. PICK o \in Streams : \E n \in Positions(o) : LoadsOn(o, n, x, i)
      BY <2>2
    <3>2. PICK n \in Positions(o) : LoadsOn(o, n, x, i)
      BY <3>1
    <3>3. n \in Positions(o)' /\ LoadsOn(o, n, x, i)'
      BY <1>5, <3>2 DEF LoadsOn
    <3> QED BY <3>3 DEF KnownAt
  <2> QED BY <2>1, <2>2 DEF Enough, KnownAt
<1>8. ASSUME NEW o \in Streams, NEW x \in Sketches, NEW i \in Slots(lgk[x]) PROVE PendingAt(G, o, x, i)'
  <2>1. PICK v : v = pending'[o][x][i]
    OBVIOUS
  <2>2. PICK n \in Nat, k \in Nat : n = Len(queue[o]) + 1 /\ k = Len(queue'[o]) + 1 /\ n <= k
    BY <1>5
  <2>3. CASE v = pending[o][x][i]
    <3>1. Supplied(F, o, n, x, i, v)
      BY <2>2, <2>3 DEF Enough, PendingAt
    <3>2. Supplied(G, o, k, x, i, v)'
      BY <1>4, <2>2, <3>1
    <3> QED BY <2>1, <2>2, <3>2 DEF PendingAt, Supplied, Held, Brings
  <2>4. CASE o = st /\ BringsBy(t, G[st][e], x, i, v)
    <3>1. e < k
      BY <1>5, <2>2, <2>4
    <3> QED BY <1>6, <2>1, <2>2, <2>4, <3>1 DEF PendingAt, Supplied, Brings
  <2>5. CASE v = 0
    BY <2>1, <2>5 DEF PendingAt, Supplied, Held
  <2> QED BY <2>1, <2>3, <2>4, <2>5
<1>9. ASSUME NEW o \in Streams, NEW n \in Positions(o)' PROVE LoadAt(o, n)' /\ MergeAt(G, o, n)'
  <2>1. CASE n \in Positions(o) /\ queue'[o][n] = queue[o][n]
    <3>1. LoadAt(o, n)'
      BY <1>1, <2>1 DEF Enough, LoadAt
    <3>2. ASSUME queue[o][n].op = "merge", NEW p \in queue[o][n].left, p[2] = Unread
          PROVE  Supplied(G, o, n, queue[o][n].from, p[1], G[o][n][p[1]])'
      <4>1. PICK x : x = queue[o][n].from
        OBVIOUS
      <4>2. PICK v : v = F[o][n][p[1]] /\ v = G[o][n][p[1]]
        BY <2>1
      <4>3. Supplied(F, o, n, x, p[1], v)
        BY <2>1, <3>2, <4>1, <4>2 DEF Enough, MergeAt
      <4>4. n \in Nat /\ n <= n
        BY <1>5, <2>1 DEF Positions
      <4>5. Supplied(G, o, n, x, p[1], v)'
        BY <1>4, <4>3, <4>4
      <4> QED BY <2>1, <4>1, <4>2, <4>5 DEF Supplied, Held, Brings
    <3>3. MergeAt(G, o, n)'
      BY <2>1, <3>2 DEF MergeAt
    <3> QED BY <3>1, <3>3
  <2>2. CASE o = st /\ n = e
    <3>1. LoadAt(o, n)'
      BY <1>1, <1>6, <2>2 DEF LoadAt
    <3>2. ASSUME t.op = "merge", NEW p \in t.left, p[2] = Unread
          PROVE  Supplied(G, st, e, t.from, p[1], G[st][e][p[1]])'
      <4>1. PICK v : v = G[st][e][p[1]]
        OBVIOUS
      <4>2. Supplied(F, st, e, t.from, p[1], v)
        BY <3>2, <4>1
      <4>3. e <= e
        OBVIOUS
      <4>4. Supplied(G, st, e, t.from, p[1], v)'
        BY <1>4, <4>2, <4>3
      <4> QED BY <4>1, <4>4
    <3>3. MergeAt(G, o, n)'
      BY <1>6, <2>2, <3>2 DEF MergeAt
    <3> QED BY <3>1, <3>3
  <2>3. ASSUME NEW k \in 1 .. Len(tasks), n = Len(queue[st]) + k PROVE n = e
    BY <1>2, <1>5, <2>3
  <2> QED BY <1>1, <1>3, <2>1, <2>2, <2>3, AppendsWhence
<1>10. ASSUME NEW o \in Streams, NEW x \in Sketches, NEW i \in Slots(lgk[x]), SnapshotOn(o, x)'
       PROVE  SnapshotAt(G, o, x, i)'
  <2>1. CASE SnapshotOn(o, x) /\ buf'[o] = buf[o] /\ call'[o] = call[o]
    <3>1. PICK v, b : v = call[o].must[i] /\ b = buf[o][i]
      OBVIOUS
    <3>2. SnapshotAt(F, o, x, i)
      BY <2>1 DEF Enough
    <3>3. Held(x, i, b)'
      BY <1>4, <3>1, <3>2 DEF SnapshotAt
    <3>4. CASE v <= b
      BY <2>1, <3>1, <3>3, <3>4 DEF SnapshotAt, Held
    <3>5. CASE ~(v <= b)
      <4>1. PICK n \in Positions(o) :
              /\ queue[o][n].op = "copy" /\ <<i, Unread>> \in queue[o][n].left
              /\ Supplied(F, o, n, x, i, v)
        BY <3>1, <3>2, <3>5 DEF SnapshotAt
      <4>2. n \in Nat /\ n <= n
        BY <1>5 DEF Positions
      <4>3. Supplied(G, o, n, x, i, v)'
        BY <1>4, <4>1, <4>2
      <4>4. n \in Positions(o)' /\ queue'[o][n] = queue[o][n]
        BY <1>5
      <4> QED BY <2>1, <3>1, <3>3, <4>1, <4>3, <4>4 DEF SnapshotAt, Supplied, Held, Brings
    <3> QED BY <3>4, <3>5
  <2>2. CASE o = st /\ ~(SnapshotOn(o, x) /\ buf'[o] = buf[o] /\ call'[o] = call[o])
    <3>1. buf'[st][i] = 0 /\ t.op = "copy" /\ <<i, Unread>> \in t.left
          /\ \E v : v = call'[st].must[i] /\ Supplied(F, st, e, x, i, v)
      BY <1>10, <2>2
    <3>2. PICK v : v = call'[st].must[i] /\ Supplied(F, st, e, x, i, v)
      BY <3>1
    <3>3. Supplied(G, st, e, x, i, v)'
      <4>1. e <= e
        OBVIOUS
      <4> QED BY <1>4, <3>2, <4>1
    <3> QED BY <1>6, <2>2, <3>1, <3>2, <3>3 DEF SnapshotAt, Supplied, Held, Brings
  <2>3. CASE o # st
    <3>1. SnapshotOn(o, x) /\ buf'[o] = buf[o] /\ call'[o] = call[o]
      BY <1>10, <2>3 DEF Asks, SnapshotOn, Asked
    <3> QED BY <2>1, <3>1
  <2> QED BY <2>1, <2>2, <2>3
<1> QED BY <1>1, <1>7, <1>8, <1>9, <1>10 DEF Enough

LEMMA PromisePending ==
  ASSUME Base, NEW st \in Streams, NEW s \in Sketches,
         NEW least \in Arrays(lgk[s]), NEW most \in Arrays(lgk[s]), Promise(st, s, least, most),
         lgk' = lgk, regs' = regs
  PROVE  \A o \in Streams, x \in Sketches : \A i \in Slots(lgk[x]) :
           \/ pending'[o][x][i] = pending[o][x][i]
           \/ o = st /\ x = s /\ pending'[o][x][i] = least[i]
<1>1. Typed /\ Sized /\ Owners
  BY DEF Base
<1>2. \A o \in Streams, x \in Sketches :
        pending'[o][x] = IF o = st /\ x = s THEN Join(pending[st][s], least) ELSE pending[o][x]
  BY <1>1, PromiseEffect, SMTT(60)
<1>3. pending[st][s] \in Arrays(lgk[s]) /\ lgk[s] \in LgKs
  BY <1>1 DEF Typed, Sized
<1>4. PICK j : /\ j = Join(pending[st][s], least)
               /\ \A i \in Slots(lgk[s]) : j[i] = pending[st][s][i] \/ j[i] = least[i]
  BY <1>3, JoinFacts
<1> QED BY <1>2, <1>4

LEMMA UpdateNoLess ==
  ASSUME Base, NoLess, NEW st \in Streams, NEW s \in Sketches, NEW batch \in Batches,
         NEW sync \in BOOLEAN, Update(st, s, batch, sync)
  PROVE  NoLess'
<1>1. PICK t \in TaskSet, a \in Arrays(lgk[s]) :
        /\ Asks(st, t) /\ t.op = "add" /\ t.to = s
        /\ \A i \in Slots(lgk[s]) : a[i] # 0 => <<i, a[i]>> \in t.left
        /\ Promise(st, s, a, a) /\ ~Asked(st, "snapshot")'
  BY UpdateAsks
<1>2. lgk' = lgk /\ regs' = regs /\ Typed
  BY <1>1 DEF Asks, Base
<1>3. PICK F \in Floors : Enough(F)
  BY DEF NoLess
<1>4. PICK e \in Nat : e = Len(queue[st]) + 1
  BY <1>2, QueueFacts
<1>5. \A o \in Streams, x \in Sketches : \A i \in Slots(lgk[x]) :
        \/ pending'[o][x][i] = pending[o][x][i]
        \/ o = st /\ x = s /\ pending'[o][x][i] = a[i]
  BY <1>1, <1>2, PromisePending
<1>6. ASSUME NEW i \in Slots(lgk[s]), a[i] # 0 PROVE BringsBy(t, F[st][e], s, i, a[i])
  <2>1. PICK p \in t.left : p = <<i, a[i]>> /\ p[1] = i /\ p[2] = a[i]
    BY <1>1, <1>6
  <2>2. a[i] <= a[i]
    BY <1>2, ArrayFacts, Params DEF Typed
  <2> QED BY <1>1, <2>1, <2>2 DEF BringsBy
<1>7. \A o \in Streams, x \in Sketches : \A i \in Slots(lgk[x]) :
        \/ pending'[o][x][i] = pending[o][x][i]
        \/ o = st /\ BringsBy(t, F[st][e], x, i, pending'[o][x][i])
        \/ pending'[o][x][i] = 0
  BY <1>5, <1>6
<1>8. \A x \in Sketches : ~SnapshotOn(st, x)'
  BY <1>1 DEF SnapshotOn
<1>9. Enough(F)'
  BY <1>1, <1>3, <1>4, <1>7, <1>8, AsksEnough
<1> QED BY <1>9 DEF NoLess

\* A floor for one more task.
LEMMA FloorPut ==
  ASSUME NEW F \in Floors, NEW st \in Streams, NEW e \in Nat, NEW l \in LgKs, NEW a \in Arrays(l)
  PROVE  \E G \in Floors :
           /\ \A i \in Slots(l) : G[st][e][i] = a[i]
           /\ \A o \in Streams : \A m \in Nat : o # st \/ m # e => G[o][m] = F[o][m]
<1>1. PICK f : f = [i \in Nat |-> IF i \in Slots(l) THEN a[i] ELSE 0]
  OBVIOUS
<1>2. f \in [Nat -> 0 .. MaxRho]
  <2>1. 0 \in 0 .. MaxRho /\ \A i \in Slots(l) : a[i] \in 0 .. MaxRho
    BY ArrayFacts, Params
  <2> QED BY <1>1, <2>1
<1>3. \A i \in Slots(l) : i \in Nat /\ f[i] = a[i]
  BY <1>1, SlotsFacts
<1>4. PICK h : h = [F[st] EXCEPT ![e] = f]
  OBVIOUS
<1>5. h \in [Nat -> [Nat -> 0 .. MaxRho]] /\ h[e] = f /\ \A m \in Nat : m # e => h[m] = F[st][m]
  BY <1>2, <1>4 DEF Floors
<1>6. PICK G : G = [F EXCEPT ![st] = h]
  OBVIOUS
<1>7. G \in Floors /\ G[st] = h /\ \A o \in Streams : o # st => G[o] = F[o]
  BY <1>5, <1>6 DEF Floors
<1> QED BY ZenonT(60), <1>3, <1>5, <1>7

LEMMA MergeNoLess ==
  ASSUME Base, NoLess, NEW st \in Streams, NEW s \in Sketches, NEW other \in Sketches,
         NEW sync \in BOOLEAN, Merge(st, s, other, sync)
  PROVE  NoLess'
<1>1. PICK t \in TaskSet, a \in Arrays(lgk[s]) :
        /\ Asks(st, t) /\ t.op = "merge" /\ t.to = s /\ t.from = other
        /\ t.left = {<<i, Unread>> : i \in Slots(lgk[s])}
        /\ a = Join(promised[other], pending[st][other])
        /\ may[other] \in Arrays(lgk[s]) /\ lgk[other] = lgk[s] /\ other \in live
        /\ Promise(st, s, a, may[other]) /\ ~Asked(st, "snapshot")'
  BY MergeAsks
<1>2. lgk' = lgk /\ regs' = regs /\ Typed /\ Sized
  BY <1>1 DEF Asks, Base
<1>3. PICK F \in Floors : Enough(F)
  BY DEF NoLess
<1>4. PICK e \in Nat : e = Len(queue[st]) + 1
  BY <1>2, QueueFacts
<1>5. PICK most \in Arrays(lgk[s]) : Promise(st, s, a, most)
  BY <1>1
<1>6. \A o \in Streams, x \in Sketches : \A i \in Slots(lgk[x]) :
        \/ pending'[o][x][i] = pending[o][x][i]
        \/ o = st /\ x = s /\ pending'[o][x][i] = a[i]
  BY <1>2, <1>5, PromisePending
<1>7. PICK l \in LgKs : l = lgk[s] /\ a \in Arrays(l)
  BY <1>2 DEF Typed
<1>8. PICK G \in Floors :
        /\ \A i \in Slots(l) : G[st][e][i] = a[i]
        /\ \A o \in Streams : \A m \in Nat : o # st \/ m # e => G[o][m] = F[o][m]
  BY SMTT(30), <1>4, <1>7, FloorPut
<1>9. \A o \in Streams : \A m \in Positions(o) : G[o][m] = F[o][m]
  <2> SUFFICES ASSUME NEW o \in Streams, NEW m \in Positions(o) PROVE m \in Nat /\ (o # st \/ m # e)
    BY <1>8
  <2>1. Len(queue[o]) \in Nat
    BY <1>2, QueueFacts
  <2> QED BY <1>4, <2>1 DEF Positions
<1>10. ASSUME NEW i \in Slots(lgk[s]) PROVE BringsBy(t, G[st][e], s, i, a[i])
  <2>1. <<i, Unread>> \in t.left
    BY <1>1
  <2>1a. PICK p \in t.left : p = <<i, Unread>> /\ p[1] = i /\ p[2] = Unread
    BY <2>1
  <2>2. a[i] <= G[st][e][i]
    BY <1>1, <1>7, <1>8, ArrayFacts, Params
  <2> QED BY <1>1, <2>1a, <2>2 DEF BringsBy
<1>11. \A o \in Streams, x \in Sketches : \A i \in Slots(lgk[x]) :
         \/ pending'[o][x][i] = pending[o][x][i]
         \/ o = st /\ BringsBy(t, G[st][e], x, i, pending'[o][x][i])
         \/ pending'[o][x][i] = 0
  BY <1>6, <1>10
<1>12. ASSUME NEW p \in t.left, p[2] = Unread PROVE Supplied(F, st, e, t.from, p[1], G[st][e][p[1]])
  <2>1. p[1] \in Slots(lgk[s])
    BY <1>1
  <2>2. PICK i : i = p[1] /\ i \in Slots(lgk[other])
    BY <1>1, <2>1
  <2>3. a[i] = promised[other][i] \/ a[i] = pending[st][other][i]
    <3>1. promised[other] \in Arrays(l) /\ pending[st][other] \in Arrays(l)
      BY <1>1, <1>2, <1>7 DEF Sized
    <3> QED BY <1>1, <1>7, <2>2, <3>1, JoinFacts
  <2>4. Supplied(F, st, e, other, i, promised[other][i]) /\ Supplied(F, st, e, other, i, pending[st][other][i])
    BY <1>1, <1>3, <1>4, <2>2, KnownSupplied
  <2>5. G[st][e][i] = a[i]
    BY <1>7, <1>8, <2>1, <2>2
  <2> QED BY <1>1, <2>2, <2>3, <2>4, <2>5
<1>13. \A x \in Sketches : ~SnapshotOn(st, x)'
  BY <1>1 DEF SnapshotOn
<1>14. Enough(G)'
  BY <1>1, <1>3, <1>4, <1>9, <1>11, <1>12, <1>13, AsksEnough
<1> QED BY <1>14 DEF NoLess

LEMMA SnapshotNoLess ==
  ASSUME Base, NoLess, NEW st \in Streams, NEW s \in Sketches, NEW kind \in Kinds,
         Snapshot(st, s, kind)
  PROVE  NoLess'
<1>1. PICK t \in TaskSet, a \in Arrays(lgk[s]) :
        /\ Asks(st, t) /\ t.op = "copy" /\ t.left = {<<i, Unread>> : i \in Slots(lgk[s])}
        /\ a = Join(promised[s], pending[st][s])
        /\ SnapshotOn(st, s)' /\ call'[st].must = a /\ buf'[st] = Zeros(lgk[s])
        /\ pending' = pending /\ s \in live
  BY SnapshotAsks
<1>2. Typed /\ Sized
  BY DEF Base
<1>3. PICK F \in Floors : Enough(F)
  BY DEF NoLess
<1>4. PICK e \in Nat : e = Len(queue[st]) + 1
  BY <1>2, QueueFacts
<1>5. PICK l \in LgKs : l = lgk[s]
  BY <1>2 DEF Typed
<1>6. ASSUME NEW x \in Sketches, SnapshotOn(st, x)', NEW i \in Slots(lgk[x])
      PROVE  /\ buf'[st][i] = 0 /\ t.op = "copy" /\ <<i, Unread>> \in t.left
             /\ \E v : v = call'[st].must[i] /\ Supplied(F, st, e, x, i, v)
  <2>1. x = s
    BY <1>1, <1>6 DEF SnapshotOn
  <2>2. promised[s] \in Arrays(l) /\ pending[st][s] \in Arrays(l) /\ i \in Slots(l)
    BY <1>2, <1>5, <2>1 DEF Sized
  <2>3. a[i] = promised[s][i] \/ a[i] = pending[st][s][i]
    BY <1>1, <2>2, JoinFacts
  <2>4. Supplied(F, st, e, s, i, promised[s][i]) /\ Supplied(F, st, e, s, i, pending[st][s][i])
    BY <1>1, <1>3, <1>4, <1>5, <2>2, KnownSupplied
  <2>5. Supplied(F, st, e, s, i, a[i])
    BY <2>3, <2>4
  <2>6. buf'[st][i] = 0
    BY <1>1, <1>5, <2>2, ArrayFacts
  <2>7. <<i, Unread>> \in t.left
    BY <1>1, <1>5, <2>2
  <2> QED BY <1>1, <2>1, <2>5, <2>6, <2>7
<1>7. Enough(F)'
  BY <1>1, <1>3, <1>4, <1>6, AsksEnough
<1> QED BY <1>7 DEF NoLess

LEMMA DestroyNoLess ==
  ASSUME Base, NoLess, NEW s \in Sketches, Destroy(s)
  PROVE  NoLess'
<1>1. PICK st \in Streams : st = home[s]
  BY DestroyAsks
<1>2. PICK t \in TaskSet :
        /\ Asks(st, t) /\ t.op = "free" /\ pending' = pending /\ buf' = buf /\ call' = call
  BY <1>1, DestroyAsks
<1>3. PICK F \in Floors : Enough(F)
  BY DEF NoLess
<1>4. PICK e \in Nat : e = Len(queue[st]) + 1
  BY QueueFacts DEF Base
<1>5. \A x \in Sketches : SnapshotOn(st, x)' => SnapshotOn(st, x)
  BY <1>2 DEF SnapshotOn, Asked
<1>6. Enough(F)'
  BY <1>2, <1>3, <1>4, <1>5, AsksEnough
<1> QED BY <1>6 DEF NoLess

\* A sketch that is created takes nothing away from the others.
LEMMA CreatesKeeps ==
  ASSUME Base, NEW st \in Streams, NEW s \in Sketches, NEW l \in LgKs, NEW a \in Arrays(l),
         NEW tasks \in Seq(TaskSet), Creates(st, s, l, a, tasks), NEW F,
         NEW x \in Sketches, x # s, NEW i, NEW v
  PROVE  /\ Held(x, i, v) => Held(x, i, v)'
         /\ \A o \in Streams : \A n \in Nat, k \in Nat :
              n <= k /\ Supplied(F, o, n, x, i, v) => Supplied(F, o, k, x, i, v)'
<1>1. Typed /\ Sized /\ Appends(st, tasks) /\ \A k \in 1 .. Len(tasks) : tasks[k].to = s
  BY DEF Base, Creates
<1>2. regs'[x] = regs[x]
  BY <1>1, AllocateEffect DEF Creates
<1>3. Uncleared(x, i)' => Uncleared(x, i)
  BY <1>1, ClearedByAppends
<1>4. Held(x, i, v) => Held(x, i, v)'
  BY <1>2, <1>3 DEF Held
<1>5. ASSUME NEW o \in Streams, NEW n \in Nat, NEW k \in Nat, n <= k, Supplied(F, o, n, x, i, v)
      PROVE  Supplied(F, o, k, x, i, v)'
  <2>1. CASE Held(x, i, v)
    BY <1>4, <2>1 DEF Supplied
  <2>2. CASE ~Held(x, i, v)
    <3>1. PICK m \in Positions(o) : m < n /\ Brings(F, o, m, x, i, v)
      BY <1>5, <2>2 DEF Supplied
    <3>2. m \in Nat /\ m \in Positions(o)' /\ queue'[o][m] = queue[o][m]
      <4>1. Len(queue[o]) \in Nat /\ Len(tasks) \in Nat
        BY <1>1, QueueFacts, LenProperties
      <4>2. m \in Nat /\ m \in Positions(o)'
        <5>1. CASE o = st
          BY <1>1, <4>1, <5>1 DEF Appends, Positions
        <5>2. CASE o # st
          BY <1>1, <4>1, <5>2 DEF Appends, Positions
        <5> QED BY <5>1, <5>2
      <4>3. queue'[o][m] = queue[o][m]
        BY <1>1 DEF Appends
      <4> QED BY <4>2, <4>3
    <3>3. Brings(F, o, m, x, i, v)'
      BY <3>1, <3>2 DEF Brings
    <3> QED BY <1>5, <3>1, <3>2, <3>3 DEF Supplied
  <2> QED BY <2>1, <2>2
<1> QED BY <1>4, <1>5

LEMMA CreatesNoLess ==
  ASSUME Base, NoLess, NEW st \in Streams, NEW s \in Sketches, NEW l \in LgKs, NEW a \in Arrays(l),
         NEW tasks \in Seq(TaskSet), Creates(st, s, l, a, tasks)
  PROVE  NoLess'
<1>1. Typed /\ Sized /\ Owners /\ Idle(s) /\ s \notin live /\ Allocate(st, s, l, a) /\ Appends(st, tasks)
      /\ buf' = buf
  BY DEF Base, Creates
<1>2. /\ lgk'[s] = l /\ promised'[s] = a /\ \A o \in Streams : pending'[o][s] = Zeros(l)
      /\ \A x \in Sketches : x # s =>
           /\ lgk'[x] = lgk[x] /\ promised'[x] = promised[x]
           /\ \A o \in Streams : pending'[o][x] = pending[o][x]
  BY <1>1, AllocateEffect
<1>3. PICK F \in Floors : Enough(F)
  BY DEF NoLess
<1>4. ASSUME NEW x \in Sketches, x # s, NEW i, NEW v
      PROVE  /\ Held(x, i, v) => Held(x, i, v)'
             /\ \A o \in Streams : \A n \in Nat, k \in Nat :
                  n <= k /\ Supplied(F, o, n, x, i, v) => Supplied(F, o, k, x, i, v)'
  BY <1>4, CreatesKeeps
<1>5. ASSUME NEW o \in Streams
      PROVE  /\ Len(queue[o]) \in Nat /\ Len(queue'[o]) \in Nat /\ Len(queue[o]) <= Len(queue'[o])
             /\ \A n \in Positions(o) : n \in Positions(o)' /\ queue'[o][n] = queue[o][n]
  <2>1. Len(queue[o]) \in Nat /\ Len(tasks) \in Nat
    BY <1>1, QueueFacts, LenProperties
  <2>2. Len(queue'[o]) = IF o = st THEN Len(queue[o]) + Len(tasks) ELSE Len(queue[o])
    BY <1>1 DEF Appends
  <2> QED BY <1>1, <2>1, <2>2 DEF Appends, Positions
<1>6. ASSUME NEW k \in 1 .. Len(tasks)
      PROVE  \E n \in Positions(st)' : queue'[st][n] = tasks[k]
  <2>1. Len(queue[st]) \in Nat /\ Len(tasks) \in Nat
    BY <1>1, QueueFacts, LenProperties
  <2>2. Len(queue[st]) + k \in Positions(st)'
    BY <1>1, <2>1 DEF Appends, Positions
  <2>3. queue'[st][Len(queue[st]) + k] = tasks[k]
    BY <1>1 DEF Appends
  <2> QED BY <2>2, <2>3
<1>7. ASSUME NEW x \in Sketches, NEW i \in Slots(lgk'[x]) PROVE KnownAt(x, i)'
  <2>1. CASE x = s
    <3>1. CASE a = Zeros(l)
      <4>1. promised'[s][i] = 0
        BY <1>2, <1>7, <2>1, <3>1, ArrayFacts
      <4> QED BY <2>1, <4>1 DEF KnownAt, Held
    <3>2. CASE a # Zeros(l)
      <4>1. PICK k \in 1 .. Len(tasks) : tasks[k].op = "load"
        BY <3>2 DEF Creates
      <4>2. tasks[k].to = s /\ tasks[k].left = {<<j, a[j]>> : j \in Slots(l)}
        BY <4>1 DEF Creates
      <4>3. <<i, a[i]>> \in tasks[k].left
        BY <1>2, <1>7, <2>1, <4>2
      <4>4. PICK n \in Positions(st)' : queue'[st][n] = tasks[k]
        BY <1>6
      <4>5. LoadsOn(st, n, s, i)'
        <5>1. PICK p \in tasks[k].left : p = <<i, a[i]>> /\ p[1] = i
          BY <4>3
        <5> QED BY <4>1, <4>2, <4>4, <5>1 DEF LoadsOn
      <4> QED BY <2>1, <4>4, <4>5 DEF KnownAt
    <3> QED BY <3>1, <3>2
  <2>2. CASE x # s
    <3>0. KnownAt(x, i)
      BY <1>2, <1>3, <1>7, <2>2 DEF Enough
    <3>1. CASE Held(x, i, promised[x][i])
      <4>1. PICK v : v = promised[x][i]
        OBVIOUS
      <4>2. Held(x, i, v)'
        BY <1>4, <2>2, <3>1, <4>1
      <4> QED BY <1>2, <2>2, <4>1, <4>2 DEF KnownAt, Held
    <3>2. CASE \E o \in Streams : \E n \in Positions(o) : LoadsOn(o, n, x, i)
      <4>1. PICK o \in Streams : \E n \in Positions(o) : LoadsOn(o, n, x, i)
        BY <3>2
      <4>2. PICK n \in Positions(o) : LoadsOn(o, n, x, i)
        BY <4>1
      <4>3. n \in Positions(o)' /\ LoadsOn(o, n, x, i)'
        BY <1>5, <4>2 DEF LoadsOn
      <4> QED BY <4>3 DEF KnownAt
    <3> QED BY <3>0, <3>1, <3>2 DEF KnownAt
  <2> QED BY <2>1, <2>2
<1>8. ASSUME NEW o \in Streams, NEW x \in Sketches, NEW i \in Slots(lgk'[x])
      PROVE  PendingAt(F, o, x, i)'
  <2>1. CASE x = s
    <3>1. pending'[o][s][i] = 0
      BY <1>2, <1>8, <2>1, ArrayFacts
    <3> QED BY <2>1, <3>1 DEF PendingAt, Supplied, Held
  <2>2. CASE x # s
    <3>1. PICK v : v = pending'[o][x][i]
      OBVIOUS
    <3>2. PICK n \in Nat, k \in Nat : n = Len(queue[o]) + 1 /\ k = Len(queue'[o]) + 1 /\ n <= k
      BY <1>5
    <3>3. Supplied(F, o, n, x, i, v)
      BY <1>2, <1>3, <1>8, <2>2, <3>1, <3>2 DEF Enough, PendingAt
    <3>4. Supplied(F, o, k, x, i, v)'
      BY <1>4, <2>2, <3>2, <3>3
    <3> QED BY <3>1, <3>2, <3>4 DEF PendingAt, Supplied, Held, Brings
  <2> QED BY <2>1, <2>2
<1>9. ASSUME NEW o \in Streams, NEW n \in Positions(o)' PROVE LoadAt(o, n)' /\ MergeAt(F, o, n)'
  <2>1. CASE n \in Positions(o) /\ queue'[o][n] = queue[o][n]
    <3>0. PICK u \in TaskSet : u = queue[o][n] /\ u.to \in Sketches /\ u.from \in Sketches
                               /\ u.to # s /\ u.from # s
      <4>1. PICK u \in TaskSet : u = queue[o][n]
        BY <1>1, <2>1, QueueFacts
      <4> QED BY <1>1, <2>1, <4>1 DEF TaskSet, Idle, Names
    <3>1. LoadAt(o, n)'
      BY <1>2, <1>3, <2>1, <3>0 DEF Enough, LoadAt
    <3>2. ASSUME u.op = "merge", NEW p \in u.left, p[2] = Unread
          PROVE  Supplied(F, o, n, u.from, p[1], F[o][n][p[1]])'
      <4>1. PICK v : v = F[o][n][p[1]]
        OBVIOUS
      <4>2. Supplied(F, o, n, u.from, p[1], v)
        BY <1>3, <2>1, <3>0, <3>2, <4>1 DEF Enough, MergeAt
      <4>3. n \in Nat /\ n <= n
        BY <1>5, <2>1 DEF Positions
      <4>4. Supplied(F, o, n, u.from, p[1], v)'
        BY <1>4, <3>0, <4>2, <4>3
      <4> QED BY <4>1, <4>4
    <3>3. MergeAt(F, o, n)'
      BY <2>1, <3>0, <3>2 DEF MergeAt
    <3> QED BY <3>1, <3>3
  <2>2. ASSUME NEW k \in 1 .. Len(tasks), queue'[o][n] = tasks[k]
        PROVE  LoadAt(o, n)' /\ MergeAt(F, o, n)'
    <3>1. tasks[k].to = s /\ tasks[k].op # "merge"
          /\ (tasks[k].op = "load" => tasks[k].left = {<<j, a[j]>> : j \in Slots(l)})
      BY DEF Creates
    <3>2. ASSUME tasks[k].op = "load", NEW p \in tasks[k].left PROVE promised'[s][p[1]] <= p[2]
      <4>1. p[1] \in Slots(l) /\ p[2] = a[p[1]]
        BY <3>1, <3>2
      <4>2. a[p[1]] \in Int
        BY <4>1, ArrayFacts, Params
      <4> QED BY <1>2, <4>1, <4>2
    <3> QED BY <2>2, <3>1, <3>2 DEF LoadAt, MergeAt
  <2> QED BY <1>1, <2>1, <2>2, AppendsWhence
<1>10. ASSUME NEW o \in Streams, NEW x \in Sketches, NEW i \in Slots(lgk'[x]), SnapshotOn(o, x)'
       PROVE  SnapshotAt(F, o, x, i)'
  <2>1. o # st
    BY <1>10 DEF Creates, SnapshotOn, LoadingOn, Asked
  <2>2. SnapshotOn(o, x) /\ call'[o] = call[o]
    BY <1>10, <2>1 DEF Creates, SnapshotOn, Asked
  <2>3. x # s
    <3>1. call[o] # None /\ x \in call[o].uses
      BY <1>1, <2>2 DEF Owners, CallOK, SnapshotOn, Asked
    <3> QED BY <1>1, <3>1 DEF Idle
  <2>4. PICK v, b : v = call[o].must[i] /\ b = buf[o][i]
    OBVIOUS
  <2>5. SnapshotAt(F, o, x, i)
    BY <1>2, <1>3, <1>10, <2>2, <2>3 DEF Enough
  <2>6. Held(x, i, b)'
    BY <1>4, <2>3, <2>4, <2>5 DEF SnapshotAt
  <2>7. CASE v <= b
    BY <1>1, <2>2, <2>4, <2>6, <2>7 DEF SnapshotAt, Held
  <2>8. CASE ~(v <= b)
    <3>1. PICK n \in Positions(o) :
            /\ queue[o][n].op = "copy" /\ <<i, Unread>> \in queue[o][n].left
            /\ Supplied(F, o, n, x, i, v)
      BY <2>4, <2>5, <2>8 DEF SnapshotAt
    <3>2. n \in Nat /\ n <= n
      BY <1>5 DEF Positions
    <3>3. Supplied(F, o, n, x, i, v)'
      BY <1>4, <2>3, <3>1, <3>2
    <3>4. n \in Positions(o)' /\ queue'[o][n] = queue[o][n]
      BY <1>5
    <3> QED BY <1>1, <2>2, <2>4, <2>6, <3>1, <3>3, <3>4 DEF SnapshotAt, Supplied, Held, Brings
  <2> QED BY <2>7, <2>8
<1>11. Enough(F)'
  BY <1>7, <1>8, <1>9, <1>10 DEF Enough
<1> QED BY <1>11 DEF NoLess

LEMMA ReturnsNoLess ==
  ASSUME Base, NoLess, NEW st \in Streams, NEW seen \in [Sketches -> AllArrays], Returns(st, seen)
  PROVE  NoLess'
<1>1. Typed /\ Sized /\ Owners /\ Shapes
  BY DEF Base
<1>2. /\ queue' = queue /\ lgk' = lgk /\ regs' = regs /\ buf' = buf /\ Positions(st) = {}
      /\ call'[st] = None /\ \A o \in Streams : o # st => call'[o] = call[o]
      /\ Learn(st, seen)
      /\ \A x \in Sketches : seen[x] = Zeros(lgk[x]) \/ (SnapshotOn(st, x) /\ seen[x] = buf[st])
  BY DEF Returns
<1>3. /\ \A x \in Sketches : \A i \in Slots(lgk[x]) :
           \/ promised'[x][i] = promised[x][i]
           \/ promised'[x][i] = pending[st][x][i]
           \/ promised'[x][i] = seen[x][i]
      /\ \A o \in Streams, x \in Sketches :
           pending'[o][x] = IF o = st THEN Zeros(lgk[x]) ELSE pending[o][x]
  BY <1>1, <1>2, SeenSized, LearnEffect
<1>4. PICK F \in Floors : Enough(F)
  BY DEF NoLess
<1>5. \A x, i, v : Held(x, i, v)' <=> Held(x, i, v)
  BY <1>2 DEF Held, Uncleared, Positions
<1>6. ASSUME NEW o, NEW n, NEW x, NEW i, NEW v
      PROVE  Supplied(F, o, n, x, i, v)' <=> Supplied(F, o, n, x, i, v)
  BY <1>2, <1>5 DEF Supplied, Brings, Positions
<1>7. \A x \in Sketches : \A i \in Slots(lgk[x]) :
        seen[x][i] = 0 \/ (SnapshotOn(st, x) /\ seen[x][i] = buf[st][i])
  <2> SUFFICES ASSUME NEW x \in Sketches, NEW i \in Slots(lgk[x])
               PROVE  seen[x][i] = 0 \/ (SnapshotOn(st, x) /\ seen[x][i] = buf[st][i])
    OBVIOUS
  <2>1. Zeros(lgk[x])[i] = 0
    BY <1>1, ArrayFacts DEF Typed
  <2> QED BY <1>2, <2>1
<1>8. ASSUME NEW x \in Sketches, NEW i \in Slots(lgk[x]) PROVE KnownAt(x, i)'
  <2>0. PICK v : v = promised'[x][i]
    OBVIOUS
  <2>1. CASE v = promised[x][i]
    <3>1. KnownAt(x, i)
      BY <1>4 DEF Enough
    <3>2. CASE Held(x, i, promised[x][i])
      BY <1>5, <2>0, <2>1, <3>2 DEF KnownAt, Held
    <3>3. CASE \E o \in Streams : \E n \in Positions(o) : LoadsOn(o, n, x, i)
      BY <1>2, <3>3 DEF KnownAt, LoadsOn, Positions
    <3> QED BY <3>1, <3>2, <3>3 DEF KnownAt
  <2>2. CASE v = pending[st][x][i]
    <3>1. Supplied(F, st, Len(queue[st]) + 1, x, i, v)
      BY <1>4, <2>2 DEF Enough, PendingAt
    <3>2. Held(x, i, v)'
      BY <1>2, <1>5, <3>1 DEF Supplied
    <3> QED BY <2>0, <3>2 DEF KnownAt, Held
  <2>3. CASE v = seen[x][i]
    <3>1. CASE seen[x][i] = 0
      BY <2>0, <2>3, <3>1 DEF KnownAt, Held
    <3>2. CASE SnapshotOn(st, x) /\ seen[x][i] = buf[st][i]
      <4>1. Held(x, i, v)
        BY <1>4, <2>3, <3>2 DEF Enough, SnapshotAt
      <4>2. Held(x, i, v)'
        BY <1>5, <4>1
      <4> QED BY <2>0, <4>2 DEF KnownAt, Held
    <3> QED BY <1>7, <3>1, <3>2
  <2> QED BY <1>3, <2>0, <2>1, <2>2, <2>3
<1>9. ASSUME NEW o \in Streams, NEW x \in Sketches, NEW i \in Slots(lgk[x]) PROVE PendingAt(F, o, x, i)'
  <2>1. CASE o = st
    <3>1. pending'[o][x][i] = 0
      BY <1>1, <1>3, <2>1, ArrayFacts DEF Typed
    <3> QED BY <3>1 DEF PendingAt, Supplied, Held
  <2>2. CASE o # st
    <3>1. PICK v, n : v = pending[o][x][i] /\ n = Len(queue[o]) + 1
      OBVIOUS
    <3>2. Supplied(F, o, n, x, i, v)'
      BY <1>4, <1>6, <3>1 DEF Enough, PendingAt
    <3>3. v = pending'[o][x][i] /\ n = Len(queue'[o]) + 1
      BY <1>2, <1>3, <2>2, <3>1
    <3> QED BY <3>2, <3>3 DEF PendingAt, Supplied, Held, Brings
  <2> QED BY <2>1, <2>2
<1>10. ASSUME NEW o \in Streams, NEW n \in Positions(o) PROVE LoadAt(o, n)' /\ MergeAt(F, o, n)'
  <2>1. ASSUME queue[o][n].op = "load", NEW p \in queue[o][n].left
        PROVE  promised'[queue[o][n].to][p[1]] <= p[2]
    <3>1. PICK x \in Sketches : x = queue[o][n].to
      BY <1>1, QueueFacts DEF TaskSet
    <3>2. p[1] \in Slots(lgk[x]) /\ p[2] \in Nat
      <4>1. PiecesOK(queue[o][n]) /\ queue[o][n] \in TaskSet
        BY <1>1, QueueFacts DEF Shapes
      <4>2. p \in Pieces
        BY <4>1 DEF TaskSet
      <4>3. p[1] \in Slots(lgk[x]) /\ p[2] # Unread
        BY <2>1, <3>1, <4>1 DEF PiecesOK
      <4> QED BY <4>2, <4>3, Params DEF Pieces, Unread
    <3>3. LoadingAlone(o, x)
      BY <1>1, <2>1, <3>1, OwnersUse DEF OwnerOK, Owners
    <3>4. promised[x][p[1]] <= p[2]
      BY <1>4, <2>1, <3>1 DEF Enough, LoadAt
    <3>5. pending[st][x][p[1]] = 0
      BY <1>1, <3>2, <3>3, ArrayFacts DEF LoadingAlone, Typed
    <3>6. seen[x][p[1]] = 0
      <4>1. ~SnapshotOn(st, x)
        BY <1>1, <3>3 DEF LoadingAlone, Owners, CallOK, SnapshotOn
      <4> QED BY <1>7, <3>2, <4>1
    <3> QED BY <1>3, <3>1, <3>2, <3>4, <3>5, <3>6
  <2>2. LoadAt(o, n)'
    BY <1>2, <2>1 DEF LoadAt
  <2>3. MergeAt(F, o, n)'
    <3> SUFFICES ASSUME queue[o][n].op = "merge", NEW p \in queue[o][n].left, p[2] = Unread
                 PROVE  Supplied(F, o, n, queue[o][n].from, p[1], F[o][n][p[1]])'
      BY <1>2 DEF MergeAt
    <3>1. PICK x, i, v : x = queue[o][n].from /\ i = p[1] /\ v = F[o][n][p[1]]
      OBVIOUS
    <3>2. Supplied(F, o, n, x, i, v)
      BY <1>4, <3>1 DEF Enough, MergeAt
    <3>3. Supplied(F, o, n, x, i, v)'
      BY <1>6, <3>2
    <3> QED BY <1>2, <3>1, <3>3 DEF Supplied, Held, Brings
  <2> QED BY <2>2, <2>3
<1>11. ASSUME NEW o \in Streams, NEW x \in Sketches, NEW i \in Slots(lgk[x]), SnapshotOn(o, x)'
       PROVE  SnapshotAt(F, o, x, i)'
  <2>1. o # st
    BY <1>2, <1>11 DEF SnapshotOn, Asked
  <2>2. SnapshotOn(o, x) /\ call'[o] = call[o]
    BY <1>2, <1>11, <2>1 DEF SnapshotOn, Asked
  <2>3. PICK v, b : v = call[o].must[i] /\ b = buf[o][i]
    OBVIOUS
  <2>4. SnapshotAt(F, o, x, i)
    BY <1>4, <2>2 DEF Enough
  <2>5. Held(x, i, b)'
    BY <1>5, <2>3, <2>4 DEF SnapshotAt
  <2>6. CASE v <= b
    BY <1>2, <2>2, <2>3, <2>5, <2>6 DEF SnapshotAt, Held
  <2>7. CASE ~(v <= b)
    <3>1. PICK n \in Positions(o) :
            /\ queue[o][n].op = "copy" /\ <<i, Unread>> \in queue[o][n].left
            /\ Supplied(F, o, n, x, i, v)
      BY <2>3, <2>4, <2>7 DEF SnapshotAt
    <3>2. Supplied(F, o, n, x, i, v)' /\ n \in Positions(o)'
      BY <1>2, <1>6, <3>1 DEF Positions
    <3> QED BY <1>2, <2>2, <2>3, <2>5, <3>1, <3>2 DEF SnapshotAt, Supplied, Held, Brings
  <2> QED BY <2>6, <2>7
<1>12. \A o \in Streams : Positions(o)' = Positions(o)
  BY <1>2 DEF Positions
<1>13. Enough(F)'
  BY <1>2, <1>8, <1>9, <1>10, <1>11, <1>12 DEF Enough
<1> QED BY <1>13 DEF NoLess

LEMMA SameNoLess ==
  ASSUME Base, NoLess, UNCHANGED vars
  PROVE  NoLess'
<1>1. /\ queue' = queue /\ lgk' = lgk /\ regs' = regs /\ buf' = buf /\ call' = call
      /\ promised' = promised /\ pending' = pending
  BY DEF vars
<1>2. PICK F \in Floors : Enough(F)
  BY DEF NoLess
<1>3. \A s \in Sketches : \A i \in Slots(lgk[s]) : KnownAt(s, i)'
  BY <1>1, <1>2 DEF Enough, KnownAt, LoadsOn, Held, Uncleared, Positions
<1>4. \A s \in Sketches : \A i \in Slots(lgk[s]) : \A st \in Streams : PendingAt(F, st, s, i)'
  BY <1>1, <1>2 DEF Enough, PendingAt, Supplied, Held, Brings, Uncleared, Positions
<1>5. \A s \in Sketches : \A i \in Slots(lgk[s]) : \A st \in Streams :
        SnapshotOn(st, s)' => SnapshotAt(F, st, s, i)'
  <2>1. \A st \in Streams, s \in Sketches : SnapshotOn(st, s)' => SnapshotOn(st, s)
    BY <1>1 DEF SnapshotOn, Asked
  <2>2. \A st \in Streams, s \in Sketches : \A i \in Slots(lgk[s]) :
          SnapshotAt(F, st, s, i) => SnapshotAt(F, st, s, i)'
    BY SMTT(60), <1>1 DEF SnapshotAt, Supplied, Held, Brings, Uncleared, Positions
  <2> QED BY <1>2, <2>1, <2>2 DEF Enough
<1>6. \A st \in Streams : \A n \in Positions(st) : LoadAt(st, n)'
  BY <1>1, <1>2 DEF Enough, LoadAt
<1>7. \A st \in Streams : \A n \in Positions(st) : MergeAt(F, st, n)'
  BY SMTT(30), <1>1, <1>2 DEF Enough, MergeAt, Supplied, Held, Brings, Uncleared, Positions
<1>8. \A st \in Streams : Positions(st)' = Positions(st)
  BY <1>1 DEF Positions
<1>9. Enough(F)'
  BY <1>1, <1>3, <1>4, <1>5, <1>6, <1>7, <1>8 DEF Enough
<1> QED BY <1>9 DEF NoLess

\* The floors of the tasks that are left when the first of st is done.
LEMMA FloorsShift ==
  ASSUME NEW F \in Floors, NEW st \in Streams
  PROVE  \E G \in Floors : /\ \A n \in Nat : G[st][n] = F[st][n + 1]
                           /\ \A o \in Streams : o # st => G[o] = F[o]
<1>1. PICK h : h = [n \in Nat |-> F[st][n + 1]]
  OBVIOUS
<1>2. h \in [Nat -> [Nat -> 0 .. MaxRho]] /\ \A n \in Nat : h[n] = F[st][n + 1]
  <2> DEFINE R == [Nat -> 0 .. MaxRho]
  <2>1. \A n \in Nat : F[st][n] \in R
    BY DEF Floors
  <2> HIDE DEF R
  <2>2. \A n \in Nat : F[st][n + 1] \in R
    <3> SUFFICES ASSUME NEW n \in Nat PROVE F[st][n + 1] \in R
      OBVIOUS
    <3>1. n + 1 \in Nat
      OBVIOUS
    <3> QED BY <2>1, <3>1
  <2>3. h \in [Nat -> R]
    BY <1>1, <2>2
  <2> QED BY <1>1, <2>3 DEF R
<1>3. PICK G : G = [F EXCEPT ![st] = h]
  OBVIOUS
<1>4. G \in Floors /\ G[st] = h /\ \A o \in Streams : o # st => G[o] = F[o]
  BY <1>2, <1>3 DEF Floors
<1> QED BY <1>2, <1>4

\* Where the task at n on o was before the first task of st retired.
Was(st, o, n) == IF o = st THEN n + 1 ELSE n

LEMMA RetiresWas ==
  ASSUME Typed, NEW st \in Streams, Retires(st), NEW o \in Streams
  PROVE  /\ Len(queue[o]) \in Nat /\ Len(queue'[o]) \in Nat
         /\ Len(queue[o]) + 1 = Was(st, o, Len(queue'[o]) + 1)
         /\ \A n \in Positions(o)' :
              n \in Nat /\ Was(st, o, n) \in Positions(o) /\ queue'[o][n] = queue[o][Was(st, o, n)]
         /\ \A m \in Positions(o) : (m = 1 /\ o = st) \/ \E n \in Positions(o)' : m = Was(st, o, n)
<1>1. Len(queue[o]) \in Nat
  BY QueueFacts
<1>2. CASE o # st
  <2>1. queue'[o] = queue[o]
    BY <1>2 DEF Retires
  <2> QED BY <1>1, <1>2, <2>1 DEF Was, Positions
<1>3. CASE o = st
  <2>1. Len(queue'[o]) = Len(queue[o]) - 1 /\ Len(queue[o]) >= 1
    BY <1>1, <1>3 DEF Retires, Positions
  <2>2. \A n \in Positions(o)' : n + 1 \in Positions(o) /\ queue'[o][n] = queue[o][n + 1]
    BY <1>3 DEF Retires, Positions
  <2>3. \A m \in Positions(o) : m = 1 \/ (m - 1 \in Positions(o)' /\ m = (m - 1) + 1)
    BY <1>1, <2>1 DEF Positions
  <2>4. ASSUME NEW m \in Positions(o), m # 1 PROVE \E n \in Positions(o)' : m = n + 1
    BY <2>3, <2>4
  <2> QED BY <1>1, <1>3, <2>1, <2>2, <2>4 DEF Was, Positions
<1> QED BY <1>2, <1>3

LEMMA RetiresKeeps ==
  ASSUME Typed, NEW st \in Streams, Retires(st), regs' = regs, NEW F, NEW G,
         \A n \in Nat : G[st][n] = F[st][n + 1], \A o \in Streams : o # st => G[o] = F[o],
         NEW x, NEW i, NEW v
  PROVE  /\ Held(x, i, v) => Held(x, i, v)'
         /\ \A o \in Streams : \A n \in Nat :
              Supplied(F, o, Was(st, o, n), x, i, v) => Supplied(G, o, n, x, i, v)'
<1>1. Uncleared(x, i)' <=> Uncleared(x, i)
  BY ClearedByRetires
<1>2. Held(x, i, v) => Held(x, i, v)'
  BY <1>1 DEF Held
<1>3. ASSUME NEW o \in Streams, NEW n \in Nat, Supplied(F, o, Was(st, o, n), x, i, v)
      PROVE  Supplied(G, o, n, x, i, v)'
  <2>1. CASE Held(x, i, v)
    BY <1>2, <2>1 DEF Supplied
  <2>2. CASE ~Held(x, i, v)
    <3>1. PICK m \in Positions(o) : m < Was(st, o, n) /\ Brings(F, o, m, x, i, v)
      BY <1>3, <2>2 DEF Supplied
    <3>2. ~(m = 1 /\ o = st)
      BY <3>1 DEF Retires, Brings, BringsBy
    <3>3. PICK k \in Positions(o)' : m = Was(st, o, k)
      BY <3>2, RetiresWas
    <3>4. k \in Nat /\ queue'[o][k] = queue[o][m]
      BY <3>3, RetiresWas
    <3>5. k < n
      BY <3>1, <3>3, <3>4 DEF Was
    <3>6. G[o][k] = F[o][m]
      BY <3>3, <3>4 DEF Was
    <3>7. Brings(G, o, k, x, i, v)'
      BY <3>1, <3>4, <3>6 DEF Brings
    <3> QED BY <3>3, <3>5, <3>7 DEF Supplied
  <2> QED BY <2>1, <2>2
<1> QED BY <1>2, <1>3

LEMMA RetiresNoLess ==
  ASSUME Base, NoLess, NEW st \in Streams, Retires(st), Inside, regs' = regs, buf' = buf
  PROVE  NoLess'
<1>1. /\ Typed /\ lgk' = lgk /\ promised' = promised /\ pending' = pending /\ call' = call
  BY DEF Base, Inside
<1>2. PICK F \in Floors : Enough(F)
  BY DEF NoLess
<1>3. PICK G \in Floors : /\ \A n \in Nat : G[st][n] = F[st][n + 1]
                          /\ \A o \in Streams : o # st => G[o] = F[o]
  BY FloorsShift
<1>4. ASSUME NEW x, NEW i, NEW v
      PROVE  /\ Held(x, i, v) => Held(x, i, v)'
             /\ \A o \in Streams : \A n \in Nat :
                  Supplied(F, o, Was(st, o, n), x, i, v) => Supplied(G, o, n, x, i, v)'
  BY <1>1, <1>3, RetiresKeeps
<1>5. ASSUME NEW o \in Streams
      PROVE  /\ Len(queue[o]) \in Nat /\ Len(queue'[o]) \in Nat
             /\ Len(queue[o]) + 1 = Was(st, o, Len(queue'[o]) + 1)
             /\ \A n \in Positions(o)' :
                  n \in Nat /\ Was(st, o, n) \in Positions(o) /\ queue'[o][n] = queue[o][Was(st, o, n)]
             /\ \A m \in Positions(o) : (m = 1 /\ o = st) \/ \E n \in Positions(o)' : m = Was(st, o, n)
  BY <1>1, RetiresWas
<1>6. ASSUME NEW o \in Streams, NEW m \in Positions(o), queue[o][m].left # {}
      PROVE  \E n \in Positions(o)' : m = Was(st, o, n) /\ queue'[o][n] = queue[o][m]
  <2>1. ~(m = 1 /\ o = st)
    BY <1>6 DEF Retires
  <2>2. PICK n \in Positions(o)' : m = Was(st, o, n)
    BY <1>5, <2>1
  <2> QED BY <1>5, <2>2
<1>7. ASSUME NEW x \in Sketches, NEW i \in Slots(lgk[x]) PROVE KnownAt(x, i)'
  <2>0. KnownAt(x, i)
    BY <1>2 DEF Enough
  <2>1. CASE Held(x, i, promised[x][i])
    <3>1. PICK v : v = promised[x][i]
      OBVIOUS
    <3>2. Held(x, i, v)'
      BY <1>4, <2>1, <3>1
    <3> QED BY <1>1, <3>1, <3>2 DEF KnownAt, Held
  <2>2. CASE \E o \in Streams : \E n \in Positions(o) : LoadsOn(o, n, x, i)
    <3>1. PICK o \in Streams : \E n \in Positions(o) : LoadsOn(o, n, x, i)
      BY <2>2
    <3>2. PICK m \in Positions(o) : LoadsOn(o, m, x, i)
      BY <3>1
    <3>3. PICK n \in Positions(o)' : queue'[o][n] = queue[o][m]
      BY <1>6, <3>2 DEF LoadsOn
    <3>4. LoadsOn(o, n, x, i)'
      BY <3>2, <3>3 DEF LoadsOn
    <3> QED BY <3>4 DEF KnownAt
  <2> QED BY <2>0, <2>1, <2>2 DEF KnownAt
<1>8. ASSUME NEW o \in Streams, NEW x \in Sketches, NEW i \in Slots(lgk[x]) PROVE PendingAt(G, o, x, i)'
  <2>1. PICK v : v = pending[o][x][i]
    OBVIOUS
  <2>2. PICK k \in Nat : k = Len(queue'[o]) + 1 /\ Was(st, o, k) = Len(queue[o]) + 1
    BY <1>5
  <2>3. Supplied(F, o, Was(st, o, k), x, i, v)
    BY <1>2, <2>1, <2>2 DEF Enough, PendingAt
  <2>4. Supplied(G, o, k, x, i, v)'
    BY <1>4, <2>3
  <2> QED BY <1>1, <2>1, <2>2, <2>4 DEF PendingAt, Supplied, Held, Brings
<1>9. ASSUME NEW o \in Streams, NEW n \in Positions(o)' PROVE LoadAt(o, n)' /\ MergeAt(G, o, n)'
  <2>1. PICK m \in Positions(o) : m = Was(st, o, n) /\ queue'[o][n] = queue[o][m] /\ n \in Nat
    BY <1>5
  <2>2. LoadAt(o, n)'
    BY <1>1, <1>2, <2>1 DEF Enough, LoadAt
  <2>3. G[o][n] = F[o][m]
    BY <1>3, <2>1 DEF Was
  <2>4. ASSUME queue[o][m].op = "merge", NEW p \in queue[o][m].left, p[2] = Unread,
               NEW x, x = queue[o][m].from, NEW v, v = F[o][m][p[1]]
        PROVE  Supplied(G, o, n, x, p[1], v)'
    <3>1. Supplied(F, o, Was(st, o, n), x, p[1], v)
      BY <1>2, <2>1, <2>4 DEF Enough, MergeAt
    <3> QED BY <1>4, <2>1, <3>1
  <2>5. MergeAt(G, o, n)'
    <3> SUFFICES ASSUME queue'[o][n].op = "merge", NEW p \in queue'[o][n].left, p[2] = Unread
                 PROVE  Supplied(G, o, n, queue[o][n].from, p[1], G[o][n][p[1]])'
      BY DEF MergeAt
    <3>1. PICK x, v : x = queue[o][m].from /\ v = F[o][m][p[1]]
      OBVIOUS
    <3>2. Supplied(G, o, n, x, p[1], v)'
      BY <2>1, <2>4, <3>1
    <3> QED BY <2>1, <2>3, <3>1, <3>2 DEF Supplied, Held, Brings
  <2> QED BY <2>2, <2>5
<1>10. ASSUME NEW o \in Streams, NEW x \in Sketches, NEW i \in Slots(lgk[x]), SnapshotOn(o, x)'
       PROVE  SnapshotAt(G, o, x, i)'
  <2>2. SnapshotOn(o, x)
    BY <1>1, <1>10 DEF SnapshotOn, Asked
  <2>3. PICK v, b : v = call[o].must[i] /\ b = buf[o][i]
    OBVIOUS
  <2>4. SnapshotAt(F, o, x, i)
    BY <1>2, <2>2 DEF Enough
  <2>5. Held(x, i, b)'
    BY <1>4, <2>3, <2>4 DEF SnapshotAt
  <2>6. CASE v <= b
    BY <1>1, <2>3, <2>5, <2>6 DEF SnapshotAt, Held
  <2>7. CASE ~(v <= b)
    <3>1. PICK m \in Positions(o) :
            /\ queue[o][m].op = "copy" /\ <<i, Unread>> \in queue[o][m].left
            /\ Supplied(F, o, m, x, i, v)
      BY <2>3, <2>4, <2>7 DEF SnapshotAt
    <3>2. PICK n \in Positions(o)' : m = Was(st, o, n) /\ queue'[o][n] = queue[o][m]
      BY <1>6, <3>1
    <3>3. n \in Nat
      BY <1>5
    <3>4. Supplied(G, o, n, x, i, v)'
      BY <1>4, <3>1, <3>2, <3>3
    <3> QED BY <1>1, <2>3, <2>5, <3>1, <3>2, <3>4 DEF SnapshotAt, Supplied, Held, Brings
  <2> QED BY <2>6, <2>7
<1>11. Enough(G)'
  BY <1>1, <1>7, <1>8, <1>9, <1>10 DEF Enough
<1> QED BY <1>11 DEF NoLess

\* What is there or comes stays so, if it does at the head of st.
LEMMA LeavesKeeps ==
  ASSUME Typed, NEW st \in Streams, NEW X, Leaves(st, X), NEW F, NEW x, NEW i, NEW v,
         Held(x, i, v) => Held(x, i, v)',
         BringsBy(queue[st][1], F[st][1], x, i, v) =>
           Held(x, i, v)' \/ BringsBy(queue'[st][1], F[st][1], x, i, v)
  PROVE  \A o \in Streams : \A n : Supplied(F, o, n, x, i, v) => Supplied(F, o, n, x, i, v)'
<1> SUFFICES ASSUME NEW o \in Streams, NEW n, Supplied(F, o, n, x, i, v)
             PROVE  Supplied(F, o, n, x, i, v)'
  OBVIOUS
<1>1. CASE Held(x, i, v)
  BY <1>1 DEF Supplied
<1>2. CASE ~Held(x, i, v)
  <2>1. PICK m \in Positions(o) : m < n /\ Brings(F, o, m, x, i, v)
    BY <1>2 DEF Supplied
  <2>2. m \in Positions(o)'
    BY <2>1 DEF Leaves, Positions
  <2>3. CASE o = st /\ m = 1
    <3>1. CASE Held(x, i, v)'
      BY <3>1 DEF Supplied
    <3>2. CASE BringsBy(queue'[st][1], F[st][1], x, i, v)
      BY <2>1, <2>2, <2>3, <3>2 DEF Supplied, Brings
    <3> QED BY <2>1, <2>3, <3>1, <3>2 DEF Brings
  <2>4. CASE ~(o = st /\ m = 1)
    <3>1. /\ queue'[o][m].op = queue[o][m].op /\ queue'[o][m].to = queue[o][m].to
          /\ queue'[o][m].left = queue[o][m].left
      BY <2>1, <2>4 DEF Leaves
    <3>2. Brings(F, o, m, x, i, v)'
      BY <2>1, <3>1 DEF Brings, BringsBy
    <3> QED BY <2>1, <2>2, <3>2 DEF Supplied
  <2> QED BY <2>3, <2>4
<1> QED BY <1>1, <1>2

\* Sketch x is not being loaded by the head of st.
NotLoaded(st, x) == queue[st][1].op = "load" => x # queue[st][1].to

\* Whatever is there, or comes, at register i of x, is or does so after the step.
Keeps(F, x, i) ==
  \A v \in 0 .. MaxRho :
    /\ Held(x, i, v) => Held(x, i, v)'
    /\ \A o \in Streams : \A n : Supplied(F, o, n, x, i, v) => Supplied(F, o, n, x, i, v)'

LEMMA LeavesEnough ==
  ASSUME Base, NEW F \in Floors, Enough(F), NEW st \in Streams, NEW X, Leaves(st, X), Inside,
         \A x \in Sketches : \A i \in Slots(lgk[x]) :
           IF NotLoaded(st, x) THEN Keeps(F, x, i) ELSE KnownAt(x, i)',
         \A q \in X : q \in queue[st][1].left \/ (q[2] # Unread /\ queue[st][1].op # "load"),
         \A o \in Streams, x \in Sketches : \A i \in Slots(lgk[x]) :
           SnapshotOn(o, x) => SnapshotAt(F, o, x, i)'
  PROVE  Enough(F)'
<1>1. Typed /\ Sized /\ Owners /\ Shapes /\ lgk' = lgk /\ promised' = promised
      /\ pending' = pending /\ call' = call
  BY DEF Base, Inside
<1>2. ASSUME NEW o \in Streams, NEW n \in Positions(o)
      PROVE  /\ queue'[o][n].op = queue[o][n].op /\ queue'[o][n].to = queue[o][n].to
             /\ queue'[o][n].from = queue[o][n].from
             /\ queue'[o][n].left = IF o = st /\ n = 1 THEN X ELSE queue[o][n].left
  BY DEF Leaves
<1>3. \A o \in Streams : Positions(o)' = Positions(o) /\ Len(queue'[o]) = Len(queue[o])
  BY DEF Leaves, Positions
<1>4. ASSUME NEW x \in Sketches, ~NotLoaded(st, x) PROVE LoadingAlone(st, x)
  <2>1. 1 \in Positions(st) /\ queue[st][1].op = "load" /\ queue[st][1].to = x
    BY <1>4 DEF Leaves, NotLoaded
  <2> QED BY <1>1, <2>1, OwnersUse DEF OwnerOK, Owners
<1>5. ASSUME NEW x \in Sketches, NEW i \in Slots(lgk[x]) PROVE KnownAt(x, i)'
  <2>1. CASE ~NotLoaded(st, x)
    BY <2>1
  <2>2. CASE NotLoaded(st, x)
    <3>0. KnownAt(x, i)
      BY DEF Enough
    <3>1. CASE Held(x, i, promised[x][i])
      <4>1. PICK v \in 0 .. MaxRho : v = promised[x][i]
        BY <1>1, Ranges
      <4>2. Held(x, i, v)'
        BY <2>2, <3>1, <4>1 DEF Keeps
      <4> QED BY <1>1, <4>1, <4>2 DEF KnownAt, Held
    <3>2. CASE \E o \in Streams : \E n \in Positions(o) : LoadsOn(o, n, x, i)
      <4>1. PICK o \in Streams : \E n \in Positions(o) : LoadsOn(o, n, x, i)
        BY <3>2
      <4>2. PICK n \in Positions(o) : LoadsOn(o, n, x, i)
        BY <4>1
      <4>3. ~(o = st /\ n = 1)
        BY <2>2, <4>2 DEF LoadsOn, NotLoaded
      <4>4. LoadsOn(o, n, x, i)' /\ n \in Positions(o)'
        BY <1>2, <1>3, <4>2, <4>3 DEF LoadsOn
      <4> QED BY <4>4 DEF KnownAt
    <3> QED BY <3>0, <3>1, <3>2 DEF KnownAt
  <2> QED BY <2>1, <2>2
<1>6. ASSUME NEW o \in Streams, NEW x \in Sketches, NEW i \in Slots(lgk[x]) PROVE PendingAt(F, o, x, i)'
  <2>1. CASE ~NotLoaded(st, x)
    <3>1. pending[o][x][i] = 0
      BY <1>1, <1>4, <2>1, ArrayFacts DEF LoadingAlone, Typed
    <3> QED BY <1>1, <3>1 DEF PendingAt, Supplied, Held
  <2>2. CASE NotLoaded(st, x)
    <3>1. PICK v \in 0 .. MaxRho : v = pending[o][x][i]
      BY <1>1, Ranges
    <3>2. PICK n : n = Len(queue[o]) + 1
      OBVIOUS
    <3>3. Supplied(F, o, n, x, i, v)
      BY <3>1, <3>2 DEF Enough, PendingAt
    <3>4. Supplied(F, o, n, x, i, v)'
      BY <2>2, <3>3 DEF Keeps
    <3> QED BY <1>1, <1>3, <3>1, <3>2, <3>4 DEF PendingAt, Supplied, Held, Brings
  <2> QED BY <2>1, <2>2
<1>7. ASSUME NEW o \in Streams, NEW n \in Positions(o) PROVE LoadAt(o, n)' /\ MergeAt(F, o, n)'
  <2>1. \A q \in queue'[o][n].left :
          q \in queue[o][n].left \/ (q[2] # Unread /\ queue[o][n].op # "load")
    BY <1>2
  <2>2. LoadAt(o, n)'
    BY <1>1, <1>2, <2>1 DEF Enough, LoadAt
  <2>3. ASSUME queue[o][n].op = "merge", NEW p \in queue'[o][n].left, p[2] = Unread
        PROVE  Supplied(F, o, n, queue[o][n].from, p[1], F[o][n][p[1]])'
    <3>1. p \in queue[o][n].left
      BY <2>1, <2>3
    <3>2. PICK x \in Sketches : x = queue[o][n].from
      BY <1>1, QueueFacts DEF TaskSet
    <3>3. PICK i : i = p[1] /\ i \in Slots(lgk[x]) /\ i \in Nat
      <4>1. PiecesOK(queue[o][n]) /\ queue[o][n] \in TaskSet /\ OwnerOK(o, queue[o][n])
        BY <1>1, QueueFacts, OwnersUse DEF Shapes
      <4>2. p[1] \in Slots(lgk[queue[o][n].to])
        BY <3>1, <4>1 DEF PiecesOK
      <4>3. p \in Pieces
        BY <3>1, <4>1 DEF TaskSet
      <4> QED BY <2>3, <3>2, <4>1, <4>2, <4>3 DEF OwnerOK, Pieces
    <3>4. NotLoaded(st, x)
      <4>1. Names(queue[o][n], x)
        BY <3>2 DEF Names
      <4> QED BY <1>4, <2>3, <4>1 DEF LoadingAlone
    <3>5. PICK v \in 0 .. MaxRho : v = F[o][n][i]
      <4>1. n \in Nat
        BY <1>1, QueueFacts DEF Positions
      <4> QED BY <3>3, <4>1 DEF Floors
    <3>6. Supplied(F, o, n, x, i, v)
      BY <2>3, <3>1, <3>2, <3>3, <3>5 DEF Enough, MergeAt
    <3>7. Supplied(F, o, n, x, i, v)'
      BY <3>3, <3>4, <3>6 DEF Keeps
    <3> QED BY <1>2, <3>2, <3>3, <3>5, <3>7 DEF Supplied, Held, Brings
  <2>4. MergeAt(F, o, n)'
    BY <1>2, <2>3 DEF MergeAt
  <2> QED BY <2>2, <2>4
<1>8. \A o \in Streams, x \in Sketches : SnapshotOn(o, x)' => SnapshotOn(o, x)
  BY <1>1 DEF SnapshotOn, Asked
<1> QED BY <1>1, <1>3, <1>5, <1>6, <1>7, <1>8 DEF Enough

\* A register that is copied, or not, still is.
LEMMA LeavesSnapshot ==
  ASSUME Base, NEW F \in Floors, Enough(F), NEW st \in Streams, NEW X, Leaves(st, X), Inside,
         NEW o \in Streams, NEW x \in Sketches, NEW i \in Slots(lgk[x]), SnapshotOn(o, x),
         Keeps(F, x, i), buf'[o][i] = buf[o][i],
         o = st /\ queue[st][1].op = "copy" /\ <<i, Unread>> \in queue[st][1].left
           => <<i, Unread>> \in X
  PROVE  SnapshotAt(F, o, x, i)'
<1>1. Typed /\ Sized /\ Owners /\ call' = call
  BY DEF Base, Inside
<1>2. PICK v \in 0 .. MaxRho, b \in 0 .. MaxRho : v = call[o].must[i] /\ b = buf[o][i]
  BY <1>1, Ranges
<1>3. SnapshotAt(F, o, x, i)
  BY DEF Enough
<1>4. Held(x, i, b)'
  BY <1>2, <1>3 DEF SnapshotAt, Keeps
<1>5. CASE v <= b
  BY <1>1, <1>2, <1>4, <1>5 DEF SnapshotAt, Held
<1>6. CASE ~(v <= b)
  <2>1. PICK n \in Positions(o) :
          /\ queue[o][n].op = "copy" /\ <<i, Unread>> \in queue[o][n].left
          /\ Supplied(F, o, n, x, i, v)
    BY <1>2, <1>3, <1>6 DEF SnapshotAt
  <2>2. Supplied(F, o, n, x, i, v)'
    BY <2>1 DEF Keeps
  <2>3. n \in Positions(o)' /\ queue'[o][n].op = "copy" /\ <<i, Unread>> \in queue'[o][n].left
    <3>1. queue'[o][n].left = IF o = st /\ n = 1 THEN X ELSE queue[o][n].left
      BY DEF Leaves
    <3>2. <<i, Unread>> \in queue'[o][n].left
      BY <2>1, <3>1
    <3> QED BY <2>1, <3>2 DEF Leaves, Positions
  <2> QED BY <1>1, <1>2, <1>4, <2>2, <2>3 DEF SnapshotAt, Supplied, Held, Brings
<1> QED BY <1>5, <1>6

\* When the first task of st starts, what it needs is there.
LEMMA SuppliedFirst ==
  ASSUME Typed, NEW st \in Streams, NEW F, NEW x, NEW i, NEW v, Supplied(F, st, 1, x, i, v)
  PROVE  Held(x, i, v)
<1>1. \A m \in Positions(st) : ~(m < 1)
  BY QueueFacts DEF Positions
<1> QED BY <1>1 DEF Supplied

LEMMA LoadedAlone ==
  ASSUME Base, NEW st \in Streams, 1 \in Positions(st), NEW x \in Sketches, ~NotLoaded(st, x)
  PROVE  x \notin live
<1>1. OwnerOK(st, queue[st][1])
  BY OwnersUse DEF Base
<1> QED BY <1>1 DEF Base, Owners, OwnerOK, NotLoaded, LoadingAlone

LEMMA RaiseEnough ==
  ASSUME Base, NEW F \in Floors, Enough(F), NEW st \in Streams, Inside,
         NEW p \in Pieces, NEW s \in Sketches, Piece(st, p, s), RaisesIt(st, p, s)
  PROVE  Enough(F)'
<1>1. Typed /\ Sized /\ Owners /\ Shapes
  BY DEF Base
<1>2. PICK X : X = queue[st][1].left \ {p}
  OBVIOUS
<1>3. /\ Leaves(st, X) /\ buf' = buf /\ queue[st][1].op \in {"add", "merge"} /\ p[2] \in 0 .. MaxRho
      /\ Sets(s, p[1], Larger(regs[s][p[1]], p[2])) /\ 1 \in Positions(st)
  BY <1>2 DEF RaisesIt, Piece
<1>4. regs[s][p[1]] \in Int /\ p[2] \in Int /\ p[1] \in Slots(lgk[s])
  BY <1>1, <1>3, Ranges, Params DEF Piece
<1>5. \A x, i : Uncleared(x, i)' => Uncleared(x, i)
  BY <1>1, <1>3, ClearedByLeaves
<1>6. ~Uncleared(s, p[1])
  <2>1. queue[st][1].op # "clear" /\ Names(queue[st][1], s)
    BY <1>3 DEF Piece, Names
  <2> QED BY <1>3, <2>1, ClearedAtHead
<1>7. ASSUME NEW x \in Sketches, NEW i \in Slots(lgk[x]) PROVE Keeps(F, x, i)
  <2> SUFFICES ASSUME NEW v \in 0 .. MaxRho
               PROVE  /\ Held(x, i, v) => Held(x, i, v)'
                      /\ \A o \in Streams : \A n :
                           Supplied(F, o, n, x, i, v) => Supplied(F, o, n, x, i, v)'
    BY DEF Keeps
  <2>1. regs[x][i] <= regs'[x][i]
    <3>0. regs[x][i] \in Int
      BY <1>1, Ranges, Params
    <3>1. CASE x = s /\ i = p[1]
      BY <1>3, <1>4, <3>1, LargerOf DEF Sets
    <3>2. CASE ~(x = s /\ i = p[1])
      <4>1. regs'[x][i] = regs[x][i]
        BY <1>3, <3>2 DEF Sets
      <4> QED BY <3>0, <4>1
    <3> QED BY <3>1, <3>2
  <2>2. Held(x, i, v) => Held(x, i, v)'
    <3>1. regs[x][i] \in Int /\ regs'[x][i] \in Int /\ v \in Int
      <4>1. regs[x][i] \in Int /\ v \in Int
        BY <1>1, Ranges, Params
      <4>2. CASE x = s /\ i = p[1]
        BY <1>3, <1>4, <4>2, LargerOf DEF Sets
      <4>3. CASE ~(x = s /\ i = p[1])
        BY <1>3, <4>1, <4>3 DEF Sets
      <4> QED BY <4>1, <4>2, <4>3
    <3> QED BY <1>5, <2>1, <3>1 DEF Held
  <2>3. ASSUME BringsBy(queue[st][1], F[st][1], x, i, v)
        PROVE  Held(x, i, v)' \/ BringsBy(queue'[st][1], F[st][1], x, i, v)
    <3>1. PICK q \in queue[st][1].left :
            q[1] = i /\ (v <= q[2] \/ (q[2] = Unread /\ v <= F[st][1][i]))
      BY <2>3 DEF BringsBy
    <3>2. x = s
      BY <2>3 DEF BringsBy, Piece
    <3>3. CASE q = p
      <4>1. v <= p[2]
        BY <1>3, <3>1, <3>3, Params DEF Unread
      <4>2. regs'[s][i] = Larger(regs[s][i], p[2]) /\ i = p[1]
        BY <1>3, <1>4, <3>1, <3>3 DEF Sets
      <4>3. p[2] <= regs'[s][i] /\ regs'[s][i] \in Int
        BY <1>4, <4>2, LargerOf
      <4>4. v <= regs'[s][i]
        BY <1>4, <4>1, <4>3, Params
      <4>5. ~Uncleared(s, i)'
        BY <1>5, <1>6, <4>2
      <4> QED BY <3>2, <4>4, <4>5 DEF Held
    <3>4. CASE q # p
      <4>1. q \in queue'[st][1].left /\ queue'[st][1].op = queue[st][1].op
            /\ queue'[st][1].to = queue[st][1].to
        BY <1>2, <1>3, <3>1, <3>4 DEF Leaves
      <4> QED BY <2>3, <3>1, <4>1 DEF BringsBy
    <3> QED BY <3>3, <3>4
  <2> QED BY <1>1, <1>3, <2>2, <2>3, LeavesKeeps
<1>8. \A o \in Streams, x \in Sketches : \A i \in Slots(lgk[x]) :
        SnapshotOn(o, x) => SnapshotAt(F, o, x, i)'
  <2>1. queue[st][1].op # "copy"
    BY <1>3
  <2> QED BY <1>3, <1>7, <2>1, LeavesSnapshot
<1>9. \A x \in Sketches : NotLoaded(st, x)
  BY <1>3 DEF NotLoaded
<1>10. \A q \in X : q \in queue[st][1].left
  BY <1>2
<1> QED BY <1>3, <1>7, <1>8, <1>9, <1>10, LeavesEnough

LEMMA ReadEnough ==
  ASSUME Base, NEW F \in Floors, Enough(F), NEW st \in Streams, Inside,
         NEW p \in Pieces, NEW s \in Sketches, Piece(st, p, s), ReadsIt(st, p, s)
  PROVE  Enough(F)'
<1>1. Typed /\ Sized /\ Owners /\ Shapes
  BY DEF Base
<1>2. PICK f \in Sketches : f = queue[st][1].from
  BY DEF Piece, TaskSet
<1>3. PICK w \in 0 .. MaxRho : w = regs[f][p[1]]
  BY <1>2 DEF ReadsIt
<1>4. PICK new \in Pieces : new = <<p[1], w>> /\ new[1] = p[1] /\ new[2] = w
  <2>1. p[1] \in Nat /\ w \in Unread .. MaxRho
    BY Params DEF Pieces, Unread
  <2>2. <<p[1], w>> \in Pieces
    BY <2>1 DEF Pieces
  <2> QED BY <2>2
<1>5. PICK X : X = (queue[st][1].left \ {p}) \cup {new}
  OBVIOUS
<1>6. /\ Leaves(st, X) /\ buf' = buf /\ regs' = regs /\ queue[st][1].op = "merge" /\ p[2] = Unread
      /\ lgk[f] = lgk[s] /\ 1 \in Positions(st) /\ p \in queue[st][1].left
  BY <1>2, <1>3, <1>4, <1>5 DEF ReadsIt, Piece
<1>7. \A x, i : Uncleared(x, i)' => Uncleared(x, i)
  BY <1>1, <1>6, ClearedByLeaves
<1>8. PICK h \in 0 .. MaxRho : h = F[st][1][p[1]]
  BY ZenonT(60) DEF Floors, Pieces
<1>9. h <= w
  <2>1. Supplied(F, st, 1, f, p[1], h)
    BY <1>2, <1>6, <1>8 DEF Enough, MergeAt
  <2>2. Held(f, p[1], h)
    BY <1>1, <2>1, SuppliedFirst
  <2>3. CASE h = 0
    BY <2>3, Params
  <2> QED BY <1>3, <2>2, <2>3 DEF Held
<1>10. ASSUME NEW x \in Sketches, NEW i \in Slots(lgk[x]) PROVE Keeps(F, x, i)
  <2> SUFFICES ASSUME NEW v \in 0 .. MaxRho
               PROVE  /\ Held(x, i, v) => Held(x, i, v)'
                      /\ \A o \in Streams : \A n :
                           Supplied(F, o, n, x, i, v) => Supplied(F, o, n, x, i, v)'
    BY DEF Keeps
  <2>1. Held(x, i, v) => Held(x, i, v)'
    BY <1>6, <1>7 DEF Held
  <2>2. ASSUME BringsBy(queue[st][1], F[st][1], x, i, v)
        PROVE  BringsBy(queue'[st][1], F[st][1], x, i, v)
    <3>0. queue'[st][1].op = queue[st][1].op /\ queue'[st][1].to = queue[st][1].to
          /\ queue'[st][1].left = X
      BY <1>6 DEF Leaves
    <3>1. PICK q \in queue[st][1].left :
            q[1] = i /\ (v <= q[2] \/ (q[2] = Unread /\ v <= F[st][1][i]))
      BY <2>2 DEF BringsBy
    <3>2. CASE q = p
      <4>1. v <= h
        BY <1>6, <1>8, <3>1, <3>2, Params DEF Unread
      <4>2. v <= w
        BY <1>9, <4>1, Params
      <4>3. new \in X /\ new[1] = i /\ v <= new[2]
        BY <1>4, <1>5, <3>1, <3>2, <4>2
      <4> QED BY <2>2, <3>0, <4>3 DEF BringsBy
    <3>3. CASE q # p
      <4>1. q \in X
        BY <1>5, <3>3
      <4> QED BY <2>2, <3>0, <3>1, <4>1 DEF BringsBy
    <3> QED BY <3>2, <3>3
  <2> QED BY <1>1, <1>6, <2>1, <2>2, LeavesKeeps
<1>11. \A o \in Streams, x \in Sketches : \A i \in Slots(lgk[x]) :
         SnapshotOn(o, x) => SnapshotAt(F, o, x, i)'
  <2>1. queue[st][1].op # "copy"
    BY <1>6
  <2> QED BY <1>6, <1>10, <2>1, LeavesSnapshot
<1>12. \A x \in Sketches : NotLoaded(st, x)
  BY <1>6 DEF NotLoaded
<1>13. \A q \in X : q \in queue[st][1].left \/ (q[2] # Unread /\ queue[st][1].op # "load")
  BY <1>4, <1>5, <1>6, Params DEF Unread
<1> QED BY <1>6, <1>10, <1>11, <1>12, <1>13, LeavesEnough

LEMMA StoreEnough ==
  ASSUME Base, NEW F \in Floors, Enough(F), NEW st \in Streams, Inside,
         NEW p \in Pieces, NEW s \in Sketches, Piece(st, p, s), StoresIt(st, p, s)
  PROVE  Enough(F)'
<1>1. Typed /\ Sized /\ Owners /\ Shapes /\ promised' = promised
  BY DEF Base, Inside
<1>2. PICK X : X = queue[st][1].left \ {p}
  OBVIOUS
<1>3. /\ Leaves(st, X) /\ buf' = buf /\ queue[st][1].op \in {"clear", "load"}
      /\ Sets(s, p[1], p[2]) /\ 1 \in Positions(st) /\ p \in queue[st][1].left
      /\ p = <<p[1], p[2]>> /\ p[1] \in Slots(lgk[s]) /\ s = queue[st][1].to /\ p[2] \in 0 .. MaxRho
  <2>1. Leaves(st, X)
    BY <1>2 DEF StoresIt
  <2>2. /\ buf' = buf /\ queue[st][1].op \in {"clear", "load"}
        /\ Sets(s, p[1], p[2]) /\ p[2] \in 0 .. MaxRho
    BY DEF StoresIt
  <2>3. /\ 1 \in Positions(st) /\ p \in queue[st][1].left
        /\ p = <<p[1], p[2]>> /\ p[1] \in Slots(lgk[s]) /\ s = queue[st][1].to
    BY DEF Piece
  <2> QED BY <2>1, <2>2, <2>3
<1>4. \A x, i : Uncleared(x, i)' => Uncleared(x, i)
  <2>1. Typed /\ Leaves(st, X) /\ X \subseteq queue[st][1].left
    BY <1>1, <1>2, <1>3
  <2> QED BY <2>1, ClearedByLeaves
<1>5. ASSUME NEW x \in Sketches, NEW i \in Slots(lgk[x]), ~(x = s /\ i = p[1])
      PROVE  regs'[x][i] = regs[x][i]
  BY <1>3, <1>5 DEF Sets
<1>6. queue[st][1].op = "clear" => Uncleared(s, p[1])
  <2> SUFFICES ASSUME queue[st][1].op = "clear" PROVE Uncleared(s, p[1])
    OBVIOUS
  <2>1. p[2] = 0
    BY <1>1, <1>3 DEF Shapes, PiecesOK
  <2>2. <<p[1], 0>> \in queue[st][1].left
    BY <1>3, <2>1
  <2> QED BY <1>3, <2>2 DEF Uncleared
<1>7. ASSUME NEW x \in Sketches, NEW i \in Slots(lgk[x]), NotLoaded(st, x) PROVE Keeps(F, x, i)
  <2> SUFFICES ASSUME NEW v \in 0 .. MaxRho
               PROVE  /\ Held(x, i, v) => Held(x, i, v)'
                      /\ \A o \in Streams : \A n :
                           Supplied(F, o, n, x, i, v) => Supplied(F, o, n, x, i, v)'
    BY DEF Keeps
  <2>1. Held(x, i, v) => Held(x, i, v)'
    <3>1. CASE x = s /\ i = p[1]
      <4>1. queue[st][1].op = "clear"
        BY <1>3, <1>7, <3>1 DEF NotLoaded
      <4> QED BY <1>6, <3>1, <4>1 DEF Held
    <3>2. CASE ~(x = s /\ i = p[1])
      BY <1>4, <1>5, <3>2 DEF Held
    <3> QED BY <3>1, <3>2
  <2>2. ~BringsBy(queue[st][1], F[st][1], x, i, v)
    BY <1>3 DEF BringsBy
  <2> QED BY <1>1, <1>3, <2>1, <2>2, LeavesKeeps
<1>8. ASSUME NEW x \in Sketches, NEW i \in Slots(lgk[x]), ~NotLoaded(st, x) PROVE KnownAt(x, i)'
  <2>1. x = s /\ queue[st][1].op = "load"
    BY <1>3, <1>8 DEF NotLoaded
  <2>2. CASE i = p[1]
    <3>1. promised[s][i] <= p[2]
      BY <1>3, <2>1, <2>2 DEF Enough, LoadAt
    <3>2. regs'[s][i] = p[2]
      BY <1>3, <2>2 DEF Sets
    <3>3. ~Uncleared(s, i)
      <4>1. queue[st][1].op # "clear" /\ Names(queue[st][1], s)
        BY <1>3, <2>1 DEF Names
      <4> QED BY <1>3, <4>1, ClearedAtHead
    <3>4. ~Uncleared(s, i)'
      BY <1>4, <3>3
    <3> QED BY <1>1, <2>1, <3>1, <3>2, <3>4 DEF KnownAt, Held
  <2>3. CASE i # p[1]
    <3>0. KnownAt(x, i)
      BY DEF Enough
    <3>1. CASE Held(x, i, promised[x][i])
      <4>1. PICK v : v = promised[x][i]
        OBVIOUS
      <4>2. Held(x, i, v)'
        BY <1>4, <1>5, <2>3, <3>1, <4>1 DEF Held
      <4> QED BY <1>1, <4>1, <4>2 DEF KnownAt, Held
    <3>2. CASE \E o \in Streams : \E n \in Positions(o) : LoadsOn(o, n, x, i)
      <4>1. PICK o \in Streams : \E n \in Positions(o) : LoadsOn(o, n, x, i)
        BY <3>2
      <4>2. PICK n \in Positions(o) : LoadsOn(o, n, x, i)
        BY <4>1
      <4>3. PICK q \in queue[o][n].left : q[1] = i
        BY <4>2 DEF LoadsOn
      <4>4. queue'[o][n].left = IF o = st /\ n = 1 THEN X ELSE queue[o][n].left
        BY <1>3 DEF Leaves
      <4>5. q \in queue'[o][n].left
        BY <1>2, <2>3, <4>3, <4>4
      <4>6. n \in Positions(o)' /\ LoadsOn(o, n, x, i)'
        BY <1>3, <4>2, <4>3, <4>5 DEF Leaves, Positions, LoadsOn
      <4> QED BY <4>6 DEF KnownAt
    <3> QED BY <3>0, <3>1, <3>2 DEF KnownAt
  <2> QED BY <2>2, <2>3
<1>9. ASSUME NEW o \in Streams, NEW x \in Sketches, NEW i \in Slots(lgk[x]), SnapshotOn(o, x)
      PROVE  SnapshotAt(F, o, x, i)'
  <2>1. NotLoaded(st, x)
    <3>1. x \in live
      BY <1>1, <1>9 DEF Owners, CallOK, SnapshotOn
    <3> QED BY <1>3, <3>1, LoadedAlone
  <2>2. queue[st][1].op # "copy" /\ Keeps(F, x, i) /\ buf'[o][i] = buf[o][i]
    BY <1>3, <1>7, <2>1
  <2> QED BY <1>3, <1>9, <2>2, LeavesSnapshot
<1>10. \A q \in X : q \in queue[st][1].left
  BY <1>2
<1> QED BY <1>3, <1>7, <1>8, <1>9, <1>10, LeavesEnough

LEMMA CopyEnough ==
  ASSUME Base, NEW F \in Floors, Enough(F), NEW st \in Streams, Inside,
         NEW p \in Pieces, NEW s \in Sketches, Piece(st, p, s), CopiesIt(st, p, s)
  PROVE  Enough(F)'
<1>1. Typed /\ Sized /\ Owners /\ Shapes /\ call' = call
  BY DEF Base, Inside
<1>2. PICK X : X = queue[st][1].left \ {p}
  OBVIOUS
<1>3. /\ Leaves(st, X) /\ regs' = regs /\ queue[st][1].op = "copy" /\ p[2] = Unread
      /\ SnapshotOn(st, s) /\ 1 \in Positions(st) /\ p \in queue[st][1].left
      /\ p = <<p[1], p[2]>> /\ p[1] \in Slots(lgk[s]) /\ s = queue[st][1].to
      /\ \A o \in Streams : o # st => buf'[o] = buf[o]
      /\ \A j \in Slots(lgk[s]) : buf'[st][j] = IF j = p[1] THEN regs[s][j] ELSE buf[st][j]
  BY <1>2 DEF CopiesIt, Piece
<1>4. \A x, i : Uncleared(x, i)' => Uncleared(x, i)
  BY <1>1, <1>3, ClearedByLeaves
<1>5. ASSUME NEW x \in Sketches, NEW i \in Slots(lgk[x]) PROVE Keeps(F, x, i)
  <2> SUFFICES ASSUME NEW v \in 0 .. MaxRho
               PROVE  /\ Held(x, i, v) => Held(x, i, v)'
                      /\ \A o \in Streams : \A n :
                           Supplied(F, o, n, x, i, v) => Supplied(F, o, n, x, i, v)'
    BY DEF Keeps
  <2>1. Held(x, i, v) => Held(x, i, v)'
    BY <1>3, <1>4 DEF Held
  <2>2. ~BringsBy(queue[st][1], F[st][1], x, i, v)
    BY <1>3 DEF BringsBy
  <2> QED BY <1>1, <1>3, <2>1, <2>2, LeavesKeeps
<1>6. ASSUME NEW o \in Streams, NEW x \in Sketches, NEW i \in Slots(lgk[x]), SnapshotOn(o, x)
      PROVE  SnapshotAt(F, o, x, i)'
  <2>1. o = st => x = s
    BY <1>3, <1>6 DEF SnapshotOn
  <2>2. CASE ~(o = st /\ i = p[1])
    <3>1. buf'[o][i] = buf[o][i]
      <4>1. CASE o # st
        BY <1>3, <4>1
      <4>2. CASE o = st
        BY <1>3, <2>1, <2>2, <4>2
      <4> QED BY <4>1, <4>2
    <3>2. o = st /\ <<i, Unread>> \in queue[st][1].left => <<i, Unread>> \in X
      <4>1. o = st => <<i, Unread>> # p
        BY <1>3, <2>2
      <4> QED BY <1>2, <4>1
    <3> QED BY <1>3, <1>5, <1>6, <3>1, <3>2, LeavesSnapshot
  <2>3. CASE o = st /\ i = p[1]
    <3>0. x = s /\ SnapshotOn(st, s) /\ i \in Slots(lgk[s])
      BY <1>3, <2>1, <2>3
    <3>1. PICK v \in 0 .. MaxRho, b \in 0 .. MaxRho, r \in 0 .. MaxRho :
            v = call[st].must[i] /\ b = buf[st][i] /\ r = regs[s][i]
      BY <1>1, <3>0, Ranges
    <3>2. buf'[st][i] = r
      BY <1>3, <2>3, <3>0, <3>1
    <3>3. SnapshotAt(F, st, s, i)
      BY <3>0 DEF Enough
    <3>4. ~Uncleared(s, i)'
      <4>1. queue[st][1].op # "clear" /\ Names(queue[st][1], s)
        BY <1>3 DEF Names
      <4>2. ~Uncleared(s, i)
        BY <1>3, <4>1, ClearedAtHead
      <4> QED BY <1>4, <4>2
    <3>5. Held(s, i, r)'
      <4>1. r <= r
        BY Params
      <4> QED BY <1>3, <3>1, <3>4, <4>1 DEF Held
    <3>6. CASE v <= r
      BY <1>1, <2>3, <3>0, <3>1, <3>2, <3>5, <3>6 DEF SnapshotAt, Held
    <3>7. CASE ~(v <= r)
      <4>1. ~(v <= b)
        <5>1. b <= r
          BY <3>1, <3>3, Params DEF SnapshotAt, Held
        <5> QED BY <3>7, <5>1, Params
      <4>2. PICK n \in Positions(st) :
              /\ queue[st][n].op = "copy" /\ <<i, Unread>> \in queue[st][n].left
              /\ Supplied(F, st, n, s, i, v)
        BY <3>1, <3>3, <4>1 DEF SnapshotAt
      <4>3. n # 1
        <5> SUFFICES ASSUME n = 1 PROVE FALSE
          OBVIOUS
        <5>1. Held(s, i, v)
          BY <1>1, <4>2, SuppliedFirst
        <5> QED BY <3>1, <3>7, <5>1, Params DEF Held
      <4>4. n \in Positions(st)' /\ queue'[st][n].op = "copy" /\ <<i, Unread>> \in queue'[st][n].left
        BY <1>3, <4>2, <4>3 DEF Leaves, Positions
      <4>5. Supplied(F, st, n, s, i, v)'
        BY <1>5, <3>0, <4>2 DEF Keeps
      <4> QED BY <1>1, <2>3, <3>0, <3>1, <3>2, <3>5, <4>4, <4>5 DEF SnapshotAt, Supplied, Held, Brings
    <3> QED BY <3>6, <3>7
  <2> QED BY <2>2, <2>3
<1>7. \A x \in Sketches : NotLoaded(st, x)
  BY <1>3 DEF NotLoaded
<1>8. \A q \in X : q \in queue[st][1].left
  BY <1>2
<1> QED BY <1>3, <1>5, <1>6, <1>7, <1>8, LeavesEnough

LEMMA WorkNoLess ==
  ASSUME Base, NoLess, NEW st \in Streams, Work(st)
  PROVE  NoLess'
<1>1. Inside
  BY WorkCases
<1>2. PICK F \in Floors : Enough(F)
  BY DEF NoLess
<1>3. CASE Retires(st) /\ regs' = regs /\ buf' = buf
  BY <1>1, <1>3, RetiresNoLess
<1>4. CASE \E p \in Pieces, s \in Sketches :
             /\ Piece(st, p, s)
             /\ RaisesIt(st, p, s) \/ ReadsIt(st, p, s) \/ StoresIt(st, p, s) \/ CopiesIt(st, p, s)
  <2>1. Enough(F)'
    BY <1>1, <1>2, <1>4, RaiseEnough, ReadEnough, StoreEnough, CopyEnough
  <2> QED BY <2>1 DEF NoLess
<1> QED BY <1>3, <1>4, WorkCases

LEMMA NextNoLess ==
  ASSUME Base, NoLess, [Next]_vars
  PROVE  NoLess'
<1>1. CASE UNCHANGED vars
  BY <1>1, SameNoLess
<1>2. CASE Next
  BY <1>2, NextCases, CreatesNoLess, UpdateNoLess, MergeNoLess, SnapshotNoLess, DestroyNoLess,
     WorkNoLess, ReturnsNoLess
<1> QED BY <1>1, <1>2

LEMMA InitNoLess == Init => NoLess
<1> SUFFICES ASSUME Init PROVE NoLess
  OBVIOUS
<1>1. PICK l \in LgKs :
        /\ lgk = [s \in Sketches |-> l] /\ queue = [st \in Streams |-> <<>>]
        /\ call = [st \in Streams |-> None]
        /\ regs \in [Sketches -> Arrays(l)] /\ promised = regs
        /\ pending = [st \in Streams |-> [s \in Sketches |-> Zeros(l)]]
  BY InitArrays
<1>2. \A st \in Streams : Positions(st) = {}
  <2>1. Typed
    BY InitBase DEF Base
  <2> QED BY <1>1, <2>1, QueueFacts
<1>3. PICK F : F = [st \in Streams |-> [n \in Nat |-> [i \in Nat |-> 0]]]
  OBVIOUS
<1>4. F \in Floors
  <2>1. 0 \in 0 .. MaxRho
    BY Params
  <2> QED BY <1>3, <2>1 DEF Floors
<1>5. ASSUME NEW s \in Sketches, NEW i \in Slots(lgk[s]) PROVE KnownAt(s, i)
  <2>1. regs[s] \in Arrays(l) /\ i \in Slots(l)
    BY <1>1
  <2>2. promised[s][i] <= regs[s][i]
    BY <1>1, <2>1, ArrayFacts, Params
  <2>3. ~Uncleared(s, i)
    BY <1>2 DEF Uncleared
  <2> QED BY <2>2, <2>3 DEF KnownAt, Held
<1>6. ASSUME NEW s \in Sketches, NEW i \in Slots(lgk[s]), NEW st \in Streams PROVE PendingAt(F, st, s, i)
  <2>1. pending[st][s][i] = 0
    BY <1>1, ArrayFacts
  <2> QED BY <2>1 DEF PendingAt, Supplied, Held
<1>7. \A st \in Streams, s \in Sketches : ~SnapshotOn(st, s)
  BY <1>1 DEF SnapshotOn, Asked
<1>8. Enough(F)
  BY <1>2, <1>5, <1>6, <1>7 DEF Enough
<1> QED BY <1>4, <1>8 DEF NoLess

LEMMA AlwaysNoLess == Spec => []NoLess
<1>1. Init => NoLess
  BY InitNoLess
<1>2. Base /\ NoLess /\ [Next]_vars => NoLess'
  BY NextNoLess
<1> QED BY <1>1, <1>2, AlwaysBase, PTL DEF Spec

-----------------------------------------------------------------------------
(* Sums over a set: MapThenSumSet takes the elements out one by one, in an *)
(* order that is not known.                                                *)

Taken(T) == CHOOSE x \in T : TRUE

\* g has the sums of f over the subsets of S that have at most n elements.
SumsUpTo(g, f, S, n) ==
  \A T \in SUBSET S :
    Cardinality(T) <= n =>
      g[T] = IF T = {} THEN 0 ELSE f[Taken(T)] + g[T \ {Taken(T)}]

Sums(g, f, S) ==
  \A T \in SUBSET S : g[T] = IF T = {} THEN 0 ELSE f[Taken(T)] + g[T \ {Taken(T)}]

LEMMA TakenOut ==
  ASSUME NEW S, IsFiniteSet(S), NEW T \in SUBSET S
  PROVE  /\ IsFiniteSet(T) /\ Cardinality(T) \in Nat
         /\ (T = {}) <=> (Cardinality(T) = 0)
         /\ T # {} => Taken(T) \in T
         /\ \A x \in T : T \ {x} \in SUBSET S /\ Cardinality(T \ {x}) = Cardinality(T) - 1
<1>1. IsFiniteSet(T)
  BY FS_Subset
<1>2. Cardinality(T) \in Nat
  BY <1>1, FS_CardinalityType
<1>3. (T = {}) <=> (Cardinality(T) = 0)
  BY <1>1, FS_EmptySet
<1>4. T # {} => Taken(T) \in T
  BY DEF Taken
<1>5. \A x \in T : Cardinality(T \ {x}) = Cardinality(T) - 1
  BY <1>1, FS_RemoveElement
<1> QED BY <1>1, <1>2, <1>3, <1>4, <1>5

(* A collection of finite sets has one with fewest elements.               *)
LEMMA SmallestSet ==
  ASSUME NEW S, IsFiniteSet(S), NEW B \in SUBSET SUBSET S, B # {}
  PROVE  \E T \in B : \A U \in B : Cardinality(T) <= Cardinality(U)
<1> DEFINE N == {Cardinality(T) : T \in B}
<1>1. N \in SUBSET Nat /\ N # {}
  <2>1. \A T \in B : Cardinality(T) \in Nat
    BY TakenOut
  <2> QED BY <2>1
<1>2. PICK n \in N : \A m \in N : n <= m
  <2> HIDE DEF N
  <2> QED BY <1>1, LeastNumber
<1> QED BY <1>2

LEMMA SumsExist ==
  ASSUME NEW S, IsFiniteSet(S), NEW f \in [S -> Int]
  PROVE  \E g \in [SUBSET S -> Int] : Sums(g, f, S)
<1> DEFINE c == Cardinality(S)
           Bad == {n \in 0 .. c : ~ \E g \in [SUBSET S -> Int] : SumsUpTo(g, f, S, n)}
<1>1. c \in Nat
  BY FS_CardinalityType
<1>2. Bad = {}
  <2>1. SUFFICES ASSUME Bad # {} PROVE FALSE
    OBVIOUS
  <2>2. PICK n \in Bad : \A m \in Bad : n <= m
    <3>1. Bad \in SUBSET Nat
      OBVIOUS
    <3> HIDE DEF Bad
    <3> QED BY <2>1, <3>1, LeastNumber
  <2>3. n \in 0 .. c /\ ~ \E g \in [SUBSET S -> Int] : SumsUpTo(g, f, S, n)
    OBVIOUS
  <2>4. n # 0
    <3> SUFFICES ASSUME n = 0 PROVE FALSE
      OBVIOUS
    <3> DEFINE g == [T \in SUBSET S |-> 0]
    <3>1. g \in [SUBSET S -> Int]
      OBVIOUS
    <3>2. SumsUpTo(g, f, S, 0)
      <4> SUFFICES ASSUME NEW T \in SUBSET S, Cardinality(T) <= 0 PROVE T = {} /\ g[T] = 0
        BY DEF SumsUpTo
      <4> QED BY TakenOut
    <3> HIDE DEF g
    <3> QED BY <2>3, <3>1, <3>2
  <2>5. n - 1 \in 0 .. c /\ n - 1 \notin Bad
    <3>1. n - 1 \in 0 .. c /\ ~(n <= n - 1)
      BY <1>1, <2>3, <2>4
    <3> HIDE DEF Bad
    <3> QED BY <2>2, <3>1
  <2>6. PICK g \in [SUBSET S -> Int] : SumsUpTo(g, f, S, n - 1)
    <3> HIDE DEF c
    <3> QED BY <2>5
  <2> DEFINE h == [T \in SUBSET S |-> IF Cardinality(T) <= n - 1
                                      THEN g[T]
                                      ELSE IF T = {} THEN 0 ELSE f[Taken(T)] + g[T \ {Taken(T)}]]
  <2>7. h \in [SUBSET S -> Int]
    <3> SUFFICES ASSUME NEW T \in SUBSET S, T # {} PROVE f[Taken(T)] + g[T \ {Taken(T)}] \in Int
      OBVIOUS
    <3>1. Taken(T) \in S /\ T \ {Taken(T)} \in SUBSET S
      BY TakenOut
    <3>2. f[Taken(T)] \in Int /\ g[T \ {Taken(T)}] \in Int
      BY <3>1
    <3> QED BY <3>2
  <2>8. SumsUpTo(h, f, S, n)
    <3> SUFFICES ASSUME NEW T \in SUBSET S, Cardinality(T) <= n
                 PROVE  h[T] = IF T = {} THEN 0 ELSE f[Taken(T)] + h[T \ {Taken(T)}]
      BY DEF SumsUpTo
    <3>1. Cardinality(T) \in Nat /\ n \in Nat
      BY <2>3, TakenOut
    <3>2. T # {} => h[T \ {Taken(T)}] = g[T \ {Taken(T)}]
      <4> SUFFICES ASSUME T # {} PROVE h[T \ {Taken(T)}] = g[T \ {Taken(T)}]
        OBVIOUS
      <4> DEFINE U == T \ {Taken(T)}
      <4>1. U \in SUBSET S /\ Cardinality(U) = Cardinality(T) - 1
        BY TakenOut
      <4>2. Cardinality(U) <= n - 1
        BY <3>1, <4>1
      <4> HIDE DEF U
      <4>3. h[U] = g[U]
        BY <4>1, <4>2
      <4> QED BY <4>3 DEF U
    <3>3. CASE Cardinality(T) <= n - 1
      <4>1. h[T] = g[T]
        BY <3>3
      <4>2. g[T] = IF T = {} THEN 0 ELSE f[Taken(T)] + g[T \ {Taken(T)}]
        BY <2>6, <3>3 DEF SumsUpTo
      <4> HIDE DEF h
      <4> QED BY <3>2, <4>1, <4>2
    <3>4. CASE ~(Cardinality(T) <= n - 1)
      <4>1. h[T] = IF T = {} THEN 0 ELSE f[Taken(T)] + g[T \ {Taken(T)}]
        BY <3>4
      <4> HIDE DEF h
      <4> QED BY <3>2, <4>1
    <3> QED BY <3>3, <3>4
  <2> HIDE DEF h
  <2> QED BY <2>3, <2>7, <2>8
<1>3. c \notin Bad
  BY <1>2
<1>4. PICK g \in [SUBSET S -> Int] : SumsUpTo(g, f, S, c)
  <2>1. c \in 0 .. c
    BY <1>1
  <2> HIDE DEF c
  <2> QED BY <1>3, <2>1
<1>5. \A T \in SUBSET S : Cardinality(T) <= c
  BY FS_Subset
<1>6. Sums(g, f, S)
  BY <1>4, <1>5 DEF SumsUpTo, Sums
<1> QED BY <1>6

(* The sums over a set do not depend on what else there are sums over.     *)
LEMMA SumsAreUnique ==
  ASSUME NEW S, IsFiniteSet(S), NEW f, NEW g, NEW h, Sums(g, f, S), Sums(h, f, S)
  PROVE  g[S] = h[S]
<1> DEFINE Bad == {T \in SUBSET S : g[T] # h[T]}
<1>1. Bad = {}
  <2>1. SUFFICES ASSUME Bad # {} PROVE FALSE
    OBVIOUS
  <2>2. PICK T \in Bad : \A U \in Bad : Cardinality(T) <= Cardinality(U)
    <3>1. Bad \in SUBSET SUBSET S
      OBVIOUS
    <3> HIDE DEF Bad
    <3> QED BY <2>1, <3>1, SmallestSet
  <2>3. T \in SUBSET S /\ g[T] # h[T]
    OBVIOUS
  <2>4. T # {}
    BY <2>3 DEF Sums
  <2> DEFINE U == T \ {Taken(T)}
  <2>5. U \in SUBSET S /\ Cardinality(U) = Cardinality(T) - 1 /\ Cardinality(T) \in Nat
    BY <2>3, <2>4, TakenOut
  <2>6. U \notin Bad
    <3> HIDE DEF Bad, U
    <3> QED BY <2>2, <2>5
  <2>7. g[U] = h[U]
    BY <2>5, <2>6
  <2>8. g[T] = f[Taken(T)] + g[U] /\ h[T] = f[Taken(T)] + h[U]
    BY <2>3, <2>4 DEF Sums
  <2> QED BY <2>3, <2>7, <2>8
<1> QED BY <1>1

\* An element may be added to a sum in any order.
Adds(g, f, S) ==
  \A T \in SUBSET S : \A x \in S : x \notin T => g[T \cup {x}] = f[x] + g[T]

LEMMA SumAdds ==
  ASSUME NEW S, IsFiniteSet(S), NEW f \in [S -> Int], NEW g \in [SUBSET S -> Int], Sums(g, f, S)
  PROVE  Adds(g, f, S)
<1> SUFFICES ASSUME NEW T \in SUBSET S, NEW x \in S, x \notin T
             PROVE  g[T \cup {x}] = f[x] + g[T]
  BY DEF Adds
<1> DEFINE Bad == {U \in SUBSET S : \E y \in U : g[U] # f[y] + g[U \ {y}]}
<1>1. Bad = {}
  <2>1. SUFFICES ASSUME Bad # {} PROVE FALSE
    OBVIOUS
  <2>2. PICK U \in Bad : \A V \in Bad : Cardinality(U) <= Cardinality(V)
    <3>1. Bad \in SUBSET SUBSET S
      OBVIOUS
    <3> HIDE DEF Bad
    <3> QED BY <2>1, <3>1, SmallestSet
  <2>3. U \in SUBSET S
    OBVIOUS
  <2>4. PICK y \in U : g[U] # f[y] + g[U \ {y}]
    OBVIOUS
  <2> DEFINE z == Taken(U)
             V == U \ {z}
             W == U \ {y}
             X == V \ {y}
  <2>5. z \in U /\ y \in U
    BY <2>3, <2>4, TakenOut
  <2>6. g[U] = f[z] + g[V]
    BY <2>3, <2>5 DEF Sums
  <2>7. z # y
    BY <2>4, <2>6
  <2>8. /\ V \in SUBSET S /\ W \in SUBSET S /\ X \in SUBSET S
        /\ y \in V /\ z \in W /\ X = W \ {z}
    BY <2>3, <2>5, <2>7
  <2>9. /\ Cardinality(V) = Cardinality(U) - 1 /\ Cardinality(W) = Cardinality(U) - 1
        /\ Cardinality(U) \in Nat
    BY <2>3, <2>5, TakenOut
  <2>10. V \notin Bad /\ W \notin Bad
    <3> HIDE DEF Bad, V, W
    <3> QED BY <2>2, <2>9
  <2>11. g[V] = f[y] + g[X]
    BY <2>8, <2>10
  <2>12. g[W] = f[z] + g[X]
    BY <2>8, <2>10
  <2>13. f[y] \in Int /\ f[z] \in Int /\ g[X] \in Int
    BY <2>3, <2>5, <2>8
  <2> HIDE DEF z, V, W, X
  <2>14. g[U] = f[y] + g[W]
    BY <2>6, <2>11, <2>12, <2>13
  <2> QED BY <2>4, <2>14 DEF W
<1> DEFINE U == T \cup {x}
<1>2. U \in SUBSET S /\ x \in U /\ U \ {x} = T
  OBVIOUS
<1>3. U \notin Bad
  BY <1>1
<1>4. g[U] = f[x] + g[U \ {x}]
  BY <1>2, <1>3
<1> QED BY <1>2, <1>4

(* The function that MapThenSumSet is defined by. *)
Unfolds(h, f, T) ==
  h = [s \in SUBSET T |-> IF s = {} THEN 0 ELSE f[Taken(s)] + h[s \ {Taken(s)}]]

LEMMA UnfoldsSums ==
  ASSUME NEW T, IsFiniteSet(T), NEW f \in [T -> Int], NEW g, Sums(g, f, T)
  PROVE  (CHOOSE h : Unfolds(h, f, T))[T] = g[T]
<1>1. PICK e \in [SUBSET T -> Int] : Sums(e, f, T)
  BY SumsExist
<1>2. e = [s \in SUBSET T |-> e[s]]
  OBVIOUS
<1>3. Unfolds(e, f, T)
  BY <1>1, <1>2 DEF Sums, Unfolds
<1> DEFINE h == CHOOSE h : Unfolds(h, f, T)
<1>4. Unfolds(h, f, T)
  BY <1>3
<1> HIDE DEF h
<1>5. Sums(h, f, T)
  <2> SUFFICES ASSUME NEW s \in SUBSET T
               PROVE  h[s] = IF s = {} THEN 0 ELSE f[Taken(s)] + h[s \ {Taken(s)}]
    BY DEF Sums
  <2> DEFINE b(r) == IF r = {} THEN 0 ELSE f[Taken(r)] + h[r \ {Taken(r)}]
  <2>1. h = [r \in SUBSET T |-> b(r)]
    BY <1>4 DEF Unfolds
  <2> HIDE DEF b
  <2>2. h[s] = b(s)
    BY <2>1
  <2> QED BY <2>2 DEF b
<1>6. h[T] = g[T]
  BY <1>5, SumsAreUnique
<1> QED BY <1>6 DEF h

(* The sums of reduce_hll8, and of Consistent.                             *)
LEMMA DeltasAreSummed ==
  ASSUME NEW T, IsFiniteSet(T), NEW a, \A i \in T : Delta(a[i]) \in Int,
         NEW f, \A i \in T : f[i] = Delta(a[i]), NEW g, Sums(g, f, T)
  PROVE  MapThenSumSet(LAMBDA i : Delta(a[i]), T) = g[T]
<1> DEFINE e == [i \in T |-> Delta(a[i])]
           E(h) == h = [s \in SUBSET T |->
                          IF s = {} THEN 0 ELSE Delta(a[Taken(s)]) + h[s \ {Taken(s)}]]
<1>1. MapThenSumSet(LAMBDA i : Delta(a[i]), T) = (CHOOSE h : E(h))[T]
  BY DEF MapThenSumSet, MapThenFoldSet, Taken
<1>2. \A s \in SUBSET T : s # {} => Taken(s) \in T
  BY DEF Taken
<1>3. e \in [T -> Int] /\ \A i \in T : e[i] = Delta(a[i])
  OBVIOUS
<1> HIDE DEF e
<1>4. ASSUME NEW h PROVE E(h) <=> Unfolds(h, e, T)
  BY <1>2, <1>3 DEF Unfolds
<1>5. (CHOOSE h : E(h)) = (CHOOSE h : Unfolds(h, e, T))
  <2> HIDE DEF E
  <2> QED BY <1>4
<1>6. Sums(g, e, T)
  BY <1>2, <1>3 DEF Sums
<1> QED BY <1>1, <1>3, <1>5, <1>6, UnfoldsSums

Weight(v) == 2 ^ (MaxRho - v)

WeightSum(a, T) == MapThenSumSet(LAMBDA k : 2 ^ (MaxRho - a[k]), T)

LEMMA WeightsAreSummed ==
  ASSUME NEW T, IsFiniteSet(T), NEW a, \A i \in T : Weight(a[i]) \in Int,
         NEW f, \A i \in T : f[i] = Weight(a[i]), NEW g, Sums(g, f, T)
  PROVE  WeightSum(a, T) = g[T]
<1> DEFINE e == [i \in T |-> Weight(a[i])]
           E(h) == h = [s \in SUBSET T |->
                          IF s = {} THEN 0 ELSE Weight(a[Taken(s)]) + h[s \ {Taken(s)}]]
<1>1. WeightSum(a, T) = (CHOOSE h : E(h))[T]
  BY DEF WeightSum, MapThenSumSet, MapThenFoldSet, Taken, Weight
<1>2. \A s \in SUBSET T : s # {} => Taken(s) \in T
  BY DEF Taken
<1>3. e \in [T -> Int] /\ \A i \in T : e[i] = Weight(a[i])
  OBVIOUS
<1> HIDE DEF e
<1>4. ASSUME NEW h PROVE E(h) <=> Unfolds(h, e, T)
  BY <1>2, <1>3 DEF Unfolds
<1>5. (CHOOSE h : E(h)) = (CHOOSE h : Unfolds(h, e, T))
  <2> HIDE DEF E
  <2> QED BY <1>4
<1>6. Sums(g, e, T)
  BY <1>2, <1>3 DEF Sums
<1> QED BY <1>1, <1>3, <1>5, <1>6, UnfoldsSums

(* The weights of registers are a constant and the deviations of those that *)
(* deviate, and the deviations may be summed up in two parts.              *)
Parts(w, d, c, A, B, S) ==
  /\ \A x \in S : w[x] = c + d[x]
  /\ A \in SUBSET S /\ B \in SUBSET S /\ A \cap B = {}
  /\ \A x \in S \ (A \cup B) : d[x] = 0

SumIs(gw, gd, c, A, B, S) == gw[S] = c * Cardinality(S) + gd[A] + gd[B]

LEMMA SumsInParts ==
  ASSUME NEW S, IsFiniteSet(S), NEW w \in [S -> Int], NEW d \in [S -> Int],
         NEW gw \in [SUBSET S -> Int], NEW gd \in [SUBSET S -> Int],
         Sums(gw, w, S), Sums(gd, d, S),
         NEW c \in Int, NEW A, NEW B, Parts(w, d, c, A, B, S)
  PROVE  SumIs(gw, gd, c, A, B, S)
<1> DEFINE Bad == {T \in SUBSET S : gw[T] # c * Cardinality(T) + gd[T \cap A] + gd[T \cap B]}
<1>a. Adds(gw, w, S) /\ Adds(gd, d, S)
  BY SumAdds
<1>b. /\ \A x \in S : w[x] = c + d[x]
      /\ A \in SUBSET S /\ B \in SUBSET S /\ A \cap B = {}
      /\ \A x \in S \ (A \cup B) : d[x] = 0
  BY DEF Parts
<1>1. Bad = {}
  <2>1. SUFFICES ASSUME Bad # {} PROVE FALSE
    OBVIOUS
  <2>2. PICK T \in Bad : \A U \in Bad : Cardinality(T) <= Cardinality(U)
    <3>1. Bad \in SUBSET SUBSET S
      OBVIOUS
    <3> HIDE DEF Bad
    <3> QED BY <2>1, <3>1, SmallestSet
  <2>3. T \in SUBSET S /\ gw[T] # c * Cardinality(T) + gd[T \cap A] + gd[T \cap B]
    OBVIOUS
  <2>4. T # {}
    <3> SUFFICES ASSUME T = {} PROVE FALSE
      OBVIOUS
    <3>1. Cardinality(T) = 0 /\ T \cap A = {} /\ T \cap B = {}
      BY <2>3, TakenOut
    <3>2. {} \in SUBSET S
      OBVIOUS
    <3>3. gw[{}] = 0
      BY <3>2 DEF Sums
    <3>4. gd[{}] = 0
      BY <3>2 DEF Sums
    <3>5. c * 0 = 0
      OBVIOUS
    <3> QED BY <2>3, <3>1, <3>3, <3>4, <3>5
  <2>5. PICK x \in S : x \in T
    BY <2>3, <2>4
  <2> DEFINE U == T \ {x}
             UA == U \cap A
             UB == U \cap B
             n == Cardinality(T)
  <2>6. /\ U \in SUBSET S /\ UA \in SUBSET S /\ UB \in SUBSET S
        /\ x \notin U /\ x \notin UA /\ x \notin UB /\ T = U \cup {x}
        /\ T \cap A = IF x \in A THEN UA \cup {x} ELSE UA
        /\ T \cap B = IF x \in B THEN UB \cup {x} ELSE UB
        /\ ~(x \in A /\ x \in B)
    BY <1>b, <2>3, <2>5
  <2>7. Cardinality(U) = n - 1 /\ n \in Nat
    BY <2>3, <2>5, TakenOut
  <2>8. U \notin Bad
    <3> HIDE DEF Bad, U
    <3> QED BY <2>2, <2>7
  <2>9. gw[U] = c * (n - 1) + gd[UA] + gd[UB]
    <3>1. gw[U] = c * Cardinality(U) + gd[UA] + gd[UB]
      BY <2>6, <2>8
    <3> HIDE DEF U, UA, UB, n
    <3> QED BY <2>7, <3>1
  <2>10. /\ w[x] = c + d[x] /\ w[x] \in Int /\ d[x] \in Int
         /\ gw[U] \in Int /\ gd[UA] \in Int /\ gd[UB] \in Int
    BY <1>b, <2>6
  <2> HIDE DEF Bad, U, UA, UB, n
  <2>11. gw[T] = w[x] + gw[U]
    <3>1. gw[U \cup {x}] = w[x] + gw[U]
      BY <1>a, <2>6 DEF Adds
    <3> QED BY <2>6, <3>1
  <2>12. gd[T \cap A] = IF x \in A THEN d[x] + gd[UA] ELSE gd[UA]
    <3>1. gd[UA \cup {x}] = d[x] + gd[UA]
      BY <1>a, <2>6 DEF Adds
    <3> QED BY <2>6, <3>1
  <2>13. gd[T \cap B] = IF x \in B THEN d[x] + gd[UB] ELSE gd[UB]
    <3>1. gd[UB \cup {x}] = d[x] + gd[UB]
      BY <1>a, <2>6 DEF Adds
    <3> QED BY <2>6, <3>1
  <2>14. x \notin A /\ x \notin B => d[x] = 0
    BY <1>b, <2>5
  <2>15. gd[T \cap A] + gd[T \cap B] = d[x] + gd[UA] + gd[UB]
    BY <2>6, <2>10, <2>12, <2>13, <2>14
  <2>16. c * n = c * (n - 1) + c
    BY <2>7
  <2>17. gw[T] = c * n + (gd[T \cap A] + gd[T \cap B])
    <3>1. PICK p \in Int : p = c * (n - 1)
      BY <2>7
    <3> QED BY <2>9, <2>10, <2>11, <2>15, <2>16, <3>1
  <2>18. gd[T \cap A] \in Int /\ gd[T \cap B] \in Int /\ c * n \in Int
    BY <2>3, <2>7
  <2>19. gw[T] = c * n + gd[T \cap A] + gd[T \cap B]
    BY <2>17, <2>18
  <2> QED BY <2>3, <2>19 DEF n
<1>2. S \notin Bad
  BY <1>1
<1>3. S \in SUBSET S /\ S \cap A = A /\ S \cap B = B
  BY <1>b
<1> QED BY <1>2, <1>3 DEF SumIs

LEMMA SumsOfPart ==
  ASSUME NEW S, NEW f, NEW g, Sums(g, f, S), NEW T \in SUBSET S
  PROVE  Sums(g, f, T)
BY DEF Sums

-----------------------------------------------------------------------------
(* Images.                                                                 *)

\* What a register adds to the sums is one and its deviation.
LEMMA WeightsDeviate ==
  /\ One \in Int /\ Delta(0) = 0
  /\ \A v \in 0 .. MaxRho :
       Weight(v) \in Int /\ Delta(v) \in Int /\ Weight(v) = One + Delta(v)
<1>1. \A v \in 0 .. MaxRho : MaxRho - v \in Nat /\ Exponent(MaxRho - v)
  BY Params DEF Exponent
<1>2. \A v \in 0 .. MaxRho : Pow(MaxRho - v) \in Int
  BY <1>1, PowPositive
<1>3. MaxRho - 0 = MaxRho /\ 0 \in 0 .. MaxRho
  BY Params
<1>4. One = Pow(MaxRho) /\ Pow(MaxRho) \in Int
  BY <1>2, <1>3 DEF One, Pow
<1>5. \A v : Delta(v) = Pow(MaxRho - v) - One
  BY DEF Delta, Pow
<1>6. \A v \in 0 .. MaxRho : Pow(MaxRho - v) = One + Delta(v) /\ Delta(v) \in Int
  <2> SUFFICES ASSUME NEW v \in 0 .. MaxRho
               PROVE  Pow(MaxRho - v) = One + Delta(v) /\ Delta(v) \in Int
    OBVIOUS
  <2>1. PICK p \in Int : p = Pow(MaxRho - v)
    BY <1>2
  <2>2. PICK o \in Int : o = One
    BY <1>4
  <2>3. Delta(v) = p - o
    BY <1>5, <2>1, <2>2
  <2> QED BY <2>1, <2>2, <2>3
<1>7. Delta(0) = 0
  <2>1. Delta(0) = Pow(MaxRho) - One
    BY <1>3, <1>5
  <2>2. PICK o \in Int : o = One /\ o = Pow(MaxRho)
    BY <1>4
  <2> QED BY <2>1, <2>2
<1> QED BY <1>2, <1>4, <1>6, <1>7 DEF Weight, Pow

\* The harmonic sums of a reduction add up to that of the registers.
LEMMA SumsAgree ==
  ASSUME NEW l \in LgKs, NEW a \in Arrays(l)
  PROVE  reduce_hll8(a).kxq0 + reduce_hll8(a).kxq1
           = WeightSum(a, Slots(l))
<1>1. /\ IsFiniteSet(Slots(l)) /\ DOMAIN a = Slots(l)
      /\ \A i \in Slots(l) : a[i] \in 0 .. MaxRho
  BY SlotsFacts, ArrayFacts
<1>2. PICK S : S = Slots(l)
  OBVIOUS
<1>3. PICK w \in [S -> Int] : \A i \in S : w[i] = Weight(a[i])
  <2>1. \A i \in S : Weight(a[i]) \in Int
    BY <1>1, <1>2, WeightsDeviate
  <2>2. [i \in S |-> Weight(a[i])] \in [S -> Int]
    BY <2>1
  <2> QED BY <2>2
<1>4. PICK d \in [S -> Int] : \A i \in S : d[i] = Delta(a[i])
  <2>1. \A i \in S : Delta(a[i]) \in Int
    BY <1>1, <1>2, WeightsDeviate
  <2>2. [i \in S |-> Delta(a[i])] \in [S -> Int]
    BY <2>1
  <2> QED BY <2>2
<1>5. PICK gw \in [SUBSET S -> Int] : Sums(gw, w, S)
  BY <1>1, <1>2, SumsExist
<1>6. PICK gd \in [SUBSET S -> Int] : Sums(gd, d, S)
  BY <1>1, <1>2, SumsExist
<1>7. PICK A : A = {i \in DOMAIN a : a[i] \in 1 .. Split - 1}
  OBVIOUS
<1>8. PICK B : B = {i \in DOMAIN a : a[i] \in Split .. MaxRho}
  OBVIOUS
<1>9. A \in SUBSET S /\ B \in SUBSET S
  BY <1>1, <1>2, <1>7, <1>8
<1>10. A \cap B = {} /\ \A i \in S \ (A \cup B) : a[i] = 0
  <2>1. Split \in Nat /\ Split >= 1
    BY ImageAssumption, Params
  <2>2. \A v \in 0 .. MaxRho :
          /\ ~(v \in 1 .. Split - 1 /\ v \in Split .. MaxRho)
          /\ v \notin 1 .. Split - 1 /\ v \notin Split .. MaxRho => v = 0
    BY <2>1, Params
  <2> QED BY <1>1, <1>2, <1>7, <1>8, <2>2
<1>11. \A i \in S : w[i] = One + d[i]
  BY <1>1, <1>2, <1>3, <1>4, WeightsDeviate
<1>12. \A i \in S \ (A \cup B) : d[i] = 0
  BY <1>4, <1>10, WeightsDeviate
<1>13. gw[S] = One * Cardinality(S) + gd[A] + gd[B]
  <2>1. IsFiniteSet(S) /\ One \in Int
    BY <1>1, <1>2, WeightsDeviate
  <2>2. Parts(w, d, One, A, B, S)
    BY <1>9, <1>10, <1>11, <1>12 DEF Parts
  <2>3. SumIs(gw, gd, One, A, B, S)
    BY <1>5, <1>6, <2>1, <2>2, SumsInParts
  <2> QED BY <2>3 DEF SumIs
<1>14. WeightSum(a, S) = gw[S]
  <2>1. IsFiniteSet(S) /\ \A i \in S : Weight(a[i]) \in Int
    BY <1>1, <1>2, WeightsDeviate
  <2> QED BY <1>3, <1>5, <2>1, WeightsAreSummed
<1>15. ASSUME NEW T \in SUBSET S
       PROVE  MapThenSumSet(LAMBDA i : Delta(a[i]), T) = gd[T]
  <2>1. IsFiniteSet(T)
    BY <1>1, <1>2, FS_Subset
  <2>2. Sums(gd, d, T)
    BY <1>6, SumsOfPart
  <2>3. \A i \in T : Delta(a[i]) \in Int /\ d[i] = Delta(a[i])
    BY <1>4
  <2> QED BY <2>1, <2>2, <2>3, DeltasAreSummed
<1>16. reduce_hll8(a).kxq0 = One * Cardinality(S) + gd[A]
  <2>1. reduce_hll8(a).kxq0
          = One * Cardinality(DOMAIN a) + MapThenSumSet(LAMBDA i : Delta(a[i]), A)
    BY <1>7 DEF reduce_hll8
  <2> QED BY <1>1, <1>2, <1>9, <1>15, <2>1
<1>17. reduce_hll8(a).kxq1 = gd[B]
  <2>1. reduce_hll8(a).kxq1 = MapThenSumSet(LAMBDA i : Delta(a[i]), B)
    BY <1>8 DEF reduce_hll8
  <2> QED BY <1>9, <1>15, <2>1
<1> QED BY <1>2, <1>13, <1>14, <1>16, <1>17

LEMMA NothingSeenIs ==
  ASSUME NEW l \in LgKs, NEW a \in Arrays(l)
  PROVE  NothingSeen(reduce_hll8(a), l) <=> \A i \in Slots(l) : a[i] = 0
<1>1. PICK Z : Z = {i \in Slots(l) : a[i] = 0}
  OBVIOUS
<1>2. DOMAIN a = Slots(l)
  BY ArrayFacts
<1>3. {i \in DOMAIN a : a[i] \in {0}} = Z
  BY <1>1, <1>2
<1>4. reduce_hll8(a).num_at_cur_min = Cardinality(Z)
  BY <1>3 DEF reduce_hll8
<1>5. Z \in SUBSET Slots(l)
  BY <1>1
<1>6. Cardinality(Slots(l)) = Cardinality(Z) => Slots(l) = Z
  BY <1>5, SlotsFacts, FS_Subset
<1>7. Cardinality(Slots(l)) = 2 ^ l
  BY SlotsFacts DEF Pow
<1> QED BY <1>1, <1>4, <1>6, <1>7 DEF NothingSeen

\* What serialize_ writes of a reduction is true of the registers it writes.
LEMMA SerializedConsistent ==
  ASSUME NEW l \in LgKs, NEW a \in Arrays(l), NEW compact
  PROVE  Consistent(Serialized(l, compact, a, reduce_hll8(a)))
<1>1. Slots(l) = 0 .. Pow(l) - 1 /\ Pow(l) \in Nat
  BY SlotsFacts
<1>2. DOMAIN a = Slots(l) /\ a = [k \in Slots(l) |-> a[k]]
  BY ArrayFacts DEF Arrays
<1>3. PICK r : r = reduce_hll8(a)
  OBVIOUS
<1>4. PICK i : i = Serialized(l, compact, a, r)
  OBVIOUS
<1>5. RegistersOf(i) = a
  <2>1. PICK b : b = [n \in 1 .. Pow(l) |-> a[n - 1]]
    OBVIOUS
  <2>2. i.lgK = l /\ i.body = b
    BY <1>4, <2>1 DEF Serialized, Pow
  <2>3. \A k \in Slots(l) : b[k + 1] = a[k]
    <3> SUFFICES ASSUME NEW k \in Slots(l) PROVE b[k + 1] = a[k]
      OBVIOUS
    <3>1. k + 1 \in 1 .. Pow(l) /\ (k + 1) - 1 = k
      BY <1>1
    <3> QED BY <2>1, <3>1
  <2>4. RegistersOf(i) = [k \in Slots(l) |-> b[k + 1]]
    BY <2>2 DEF RegistersOf
  <2>5. [k \in Slots(l) |-> b[k + 1]] = [k \in Slots(l) |-> a[k]]
    BY <2>3
  <2> QED BY <1>2, <2>4, <2>5
<1>6. i.num_at_cur_min = Cardinality({k \in DOMAIN a : a[k] = 0})
  <2>1. {k \in DOMAIN a : a[k] \in {0}} = {k \in DOMAIN a : a[k] = 0}
    OBVIOUS
  <2>2. r.num_at_cur_min = Cardinality({k \in DOMAIN a : a[k] = 0})
    BY <1>3, <2>1 DEF reduce_hll8
  <2> QED BY <1>4, <2>2 DEF Serialized
<1>7. i.kxq0 + i.kxq1 = WeightSum(a, DOMAIN a)
  <2>1. i.kxq0 = r.kxq0 /\ i.kxq1 = r.kxq1
    BY <1>4 DEF Serialized
  <2> QED BY <1>2, <1>3, <2>1, SumsAgree
<1>8. "empty" \in i.flags <=> \A k \in DOMAIN a : a[k] = 0
  <2>1. "empty" \in i.flags <=> NothingSeen(r, l)
    BY <1>4 DEF Serialized
  <2> QED BY <1>2, <1>3, <2>1, NothingSeenIs
<1>9. /\ i.num_at_cur_min
           = Cardinality({k \in DOMAIN RegistersOf(i) : RegistersOf(i)[k] = 0})
      /\ "empty" \in i.flags
           <=> \A k \in DOMAIN RegistersOf(i) : RegistersOf(i)[k] = 0
      /\ i.kxq0 + i.kxq1 = WeightSum(RegistersOf(i), DOMAIN RegistersOf(i))
  BY <1>5, <1>6, <1>7, <1>8
<1>10. Consistent(i)
  BY <1>9 DEF Consistent, WeightSum
<1> QED BY <1>3, <1>4, <1>10

-----------------------------------------------------------------------------
(* Answers.                                                                *)

\* The invariant: an answer lies between what it must and what it may say, its
\* empty flag says of its registers what they are, and so does its image.
AnswerOK ==
  answer # None =>
    \E l \in LgKs :
      /\ answer.must \in Arrays(l) /\ answer.registers \in Arrays(l) /\ answer.may \in Arrays(l)
      /\ \A i \in Slots(l) :
           answer.must[i] <= answer.registers[i] /\ answer.registers[i] <= answer.may[i]
      /\ answer.is_empty <=> \A i \in Slots(l) : answer.registers[i] = 0
      /\ Consistent(answer.image)

LEMMA AnswersOK ==
  ASSUME Base, NoMore, NoLess, AnswerOK, NEW st \in Streams, NEW seen, Returns(st, seen)
  PROVE  AnswerOK'
<1>1. CASE answer' = answer
  BY <1>1 DEF AnswerOK
<1>2. ASSUME NEW s \in Sketches, AnswersFrom(st, s) PROVE AnswerOK'
  <2>1. Typed /\ Sized /\ Owners /\ Positions(st) = {} /\ SnapshotOn(st, s)
    BY <1>2 DEF Base, Returns, AnswersFrom
  <2>2. PICK l \in LgKs : l = lgk[s]
    BY <2>1 DEF Typed
  <2>3. buf[st] \in Arrays(l) /\ call[st].must \in Arrays(l) /\ may[s] \in Arrays(l)
    BY <2>1, <2>2 DEF Owners, CallOK, SnapshotOn, Sized
  <2>4. PICK F \in Floors : Enough(F)
    BY DEF NoLess
  <2>5. ASSUME NEW i \in Slots(l)
        PROVE  call[st].must[i] <= buf[st][i] /\ buf[st][i] <= may[s][i]
    <3>1. SnapshotAt(F, st, s, i)
      BY <2>1, <2>2, <2>4 DEF Enough
    <3>2. call[st].must[i] <= buf[st][i]
      BY <2>1, <3>1 DEF SnapshotAt
    <3>3. buf[st][i] <= may[s][i]
      BY <2>1, <2>2 DEF NoMore
    <3> QED BY <3>2, <3>3
  <2>6. NothingSeen(reduce_hll8(buf[st]), l) <=> \A i \in Slots(l) : buf[st][i] = 0
    BY <2>3, NothingSeenIs
  <2>7. answer'.must = call[st].must /\ answer'.registers = buf[st] /\ answer'.may = may[s]
    BY <1>2 DEF AnswersFrom
  <2>8. answer'.is_empty = NothingSeen(reduce_hll8(buf[st]), l)
    BY <1>2, <2>2 DEF AnswersFrom
  <2>9. Consistent(answer'.image)
    <3>1. PICK compact \in BOOLEAN :
            answer'.image = Serialized(l, compact, buf[st], reduce_hll8(buf[st]))
      BY <1>2, <2>2 DEF AnswersFrom
    <3>2. Consistent(Serialized(l, compact, buf[st], reduce_hll8(buf[st])))
      BY <2>3, SerializedConsistent
    <3> QED BY <3>1, <3>2
  <2> QED BY <2>3, <2>5, <2>6, <2>7, <2>8, <2>9 DEF AnswerOK
<1> QED BY <1>1, <1>2 DEF Returns

LEMMA NextAnswerOK ==
  ASSUME Base, NoMore, NoLess, AnswerOK, [Next]_vars
  PROVE  AnswerOK'
<1>1. CASE answer' = answer
  BY <1>1 DEF AnswerOK
<1>2. UNCHANGED vars => answer' = answer
  BY DEF vars
<1>3. ASSUME NEW st \in Streams, Work(st) PROVE answer' = answer
  BY <1>3, WorkCases DEF Inside
<1>4. ASSUME NEW st \in Streams, NEW s \in Sketches,
             \/ \E l, a, tasks : Creates(st, s, l, a, tasks)
             \/ \E batch, sync : Update(st, s, batch, sync)
             \/ \E other, sync : Merge(st, s, other, sync)
             \/ \E kind : Snapshot(st, s, kind)
             \/ Destroy(s)
      PROVE  answer' = answer
  BY <1>4 DEF Creates, Update, Merge, Snapshot, Destroy
<1>5. CASE Next
  <2>1. CASE \E st \in Streams : \E seen \in [Sketches -> AllArrays] : Returns(st, seen)
    BY <2>1, AnswersOK
  <2>2. CASE \E s \in Sketches : Destroy(s)
    BY <1>1, <2>2 DEF Destroy
  <2> QED BY <1>1, <1>3, <1>4, <1>5, <2>1, <2>2, NextCases
<1> QED BY <1>1, <1>2, <1>5

LEMMA AlwaysAnswerOK == Spec => []AnswerOK
<1>1. Init => AnswerOK
  BY DEF Init, AnswerOK
<1>2. Base /\ NoMore /\ NoLess /\ AnswerOK /\ [Next]_vars => AnswerOK'
  BY NextAnswerOK
<1> QED BY <1>1, <1>2, AlwaysBase, AlwaysNoMore, AlwaysNoLess, PTL DEF Spec

(* Whatever the streams interleave to, an answer covers everything the     *)
(* client knew to be in the sketch when it asked for it (the keys that it  *)
(* synchronized on any stream or queued before on this one, what merges    *)
(* brought, what earlier answers and images showed), and shows nothing     *)
(* that was never given to the sketch (snapshot_, sketch_impl.hpp 108-124).*)
THEOREM AnswersCorrect == Spec => []AnswersCover
<1>1. AnswerOK => AnswersCover
  <2> SUFFICES ASSUME AnswerOK, answer # None
               PROVE  Leq(answer.must, answer.registers) /\ Leq(answer.registers, answer.may)
    BY DEF AnswersCover
  <2>1. PICK l \in LgKs :
          /\ answer.must \in Arrays(l) /\ answer.registers \in Arrays(l) /\ answer.may \in Arrays(l)
          /\ \A i \in Slots(l) :
               answer.must[i] <= answer.registers[i] /\ answer.registers[i] <= answer.may[i]
    BY DEF AnswerOK
  <2> QED BY <2>1, LeqFacts
<1> QED BY <1>1, AlwaysAnswerOK, PTL

(* is_empty is never true of a sketch that the client knows a key is in,   *)
(* nor false of one that no key was given to (sketch_impl.hpp 264-268).    *)
THEOREM EmptyCorrect == Spec => []EmptyMeansEmpty
<1>1. AnswerOK => EmptyMeansEmpty
  <2> SUFFICES ASSUME AnswerOK, answer # None
               PROVE  /\ answer.is_empty => \A i \in DOMAIN answer.must : answer.must[i] = 0
                      /\ ~answer.is_empty => \E i \in DOMAIN answer.may : answer.may[i] # 0
    BY DEF EmptyMeansEmpty
  <2>1. PICK l \in LgKs :
          /\ answer.must \in Arrays(l) /\ answer.registers \in Arrays(l) /\ answer.may \in Arrays(l)
          /\ \A i \in Slots(l) :
               answer.must[i] <= answer.registers[i] /\ answer.registers[i] <= answer.may[i]
          /\ answer.is_empty <=> \A i \in Slots(l) : answer.registers[i] = 0
    BY DEF AnswerOK
  <2>2. \A a \in Arrays(l) : DOMAIN a = Slots(l) /\ \A i \in Slots(l) : a[i] \in Nat
    BY ArrayFacts, Params
  <2>3. ASSUME answer.is_empty, NEW i \in DOMAIN answer.must PROVE answer.must[i] = 0
    <3>1. i \in Slots(l)
      BY <2>1, <2>2, <2>3
    <3>2. answer.registers[i] = 0 /\ answer.must[i] <= answer.registers[i] /\ answer.must[i] \in Nat
      BY <2>1, <2>2, <2>3, <3>1
    <3> QED BY <3>2
  <2>4. ASSUME ~answer.is_empty PROVE \E i \in DOMAIN answer.may : answer.may[i] # 0
    <3>1. PICK i \in Slots(l) : answer.registers[i] # 0
      BY <2>1, <2>4
    <3>2. answer.registers[i] <= answer.may[i] /\ answer.registers[i] \in Nat
          /\ answer.may[i] \in Nat /\ i \in DOMAIN answer.may
      BY <2>1, <2>2
    <3> QED BY <3>1, <3>2
  <2> QED BY <2>3, <2>4
<1> QED BY <1>1, AlwaysAnswerOK, PTL

(* Whatever other streams do to a sketch while its registers are copied,   *)
(* the zero count, the harmonic sums and the empty flag of an image are    *)
(* those of the registers in it: the reduction is made from the copy, and  *)
(* its two accumulators together are the sum over all registers            *)
(* (serialize_, sketch_impl.hpp 131-160; reduction_state.hpp 80-108).      *)
THEOREM ImagesConsistent == Spec => []ImageConsistent
<1>1. AnswerOK => ImageConsistent
  BY DEF AnswerOK, ImageConsistent
<1> QED BY <1>1, AlwaysAnswerOK, PTL

(* Once the device is idle, a sketch holds the maximum of everything that  *)
(* was asked of it on all streams, in whatever order it was done, and no   *)
(* more than that: registers are raised by an atomic maximum.              *)
THEOREM Convergence == Spec => []Converges
<1>1. Base /\ NoMore /\ NoLess => Converges
  <2> SUFFICES ASSUME Base, NoMore, NoLess, \A st \in Streams : Drained(st), NEW s \in live
               PROVE  /\ Leq(promised[s], regs[s])
                      /\ \A st \in Streams : Leq(pending[st][s], regs[s])
                      /\ Leq(regs[s], may[s])
    BY DEF Converges
  <2>1. Typed /\ Sized /\ Owners /\ s \in Sketches
    BY DEF Base, Typed
  <2>2. \A st \in Streams : Positions(st) = {}
    BY <2>1, QueueFacts DEF Drained
  <2>3. PICK F \in Floors : Enough(F)
    BY DEF NoLess
  <2>4. PICK l \in LgKs : l = lgk[s]
    BY <2>1 DEF Typed
  <2>5. regs[s] \in Arrays(l) /\ promised[s] \in Arrays(l) /\ may[s] \in Arrays(l)
        /\ \A st \in Streams : pending[st][s] \in Arrays(l)
    BY <2>1, <2>4 DEF Sized
  <2>6. \A i \in Slots(l) : ~Uncleared(s, i)
    BY <2>2 DEF Uncleared
  <2>7. \A i \in Slots(l) : regs[s][i] <= may[s][i]
    BY <2>1, <2>4, <2>6 DEF NoMore
  <2>8. \A i \in Slots(l) : promised[s][i] <= regs[s][i]
    <3> SUFFICES ASSUME NEW i \in Slots(l) PROVE promised[s][i] <= regs[s][i]
      OBVIOUS
    <3>1. Held(s, i, promised[s][i])
      BY <2>1, <2>2, <2>3, <2>4 DEF Enough, KnownAt
    <3>2. regs[s][i] \in Nat
      BY <2>5, ArrayFacts, Params
    <3> QED BY <3>1, <3>2 DEF Held
  <2>9. ASSUME NEW st \in Streams PROVE \A i \in Slots(l) : pending[st][s][i] <= regs[s][i]
    <3> SUFFICES ASSUME NEW i \in Slots(l) PROVE pending[st][s][i] <= regs[s][i]
      OBVIOUS
    <3>1. Held(s, i, pending[st][s][i])
      BY <2>1, <2>2, <2>3, <2>4 DEF Enough, PendingAt, Supplied
    <3>2. regs[s][i] \in Nat
      BY <2>5, ArrayFacts, Params
    <3> QED BY <3>1, <3>2 DEF Held
  <2> QED BY <2>5, <2>7, <2>8, <2>9, LeqFacts
<1> QED BY <1>1, AlwaysBase, AlwaysNoMore, AlwaysNoLess, PTL
=============================================================================
