------------------------- MODULE InputOutputProofs -------------------------
(***************************************************************************)
(* What goes into the sketches as bits and comes out of them again.        *)
(* - Images: for every k, hash range and image from elsewhere, images are  *)
(*   read as legal sketches, and as the sketches that wrote them.          *)
(* - Interpolation: for every ascending row of at least four nodes, the    *)
(*   search of interpolate_composite ends at the interval of its argument, *)
(*   the call returns the value of the cubic there, and the cubics meet at *)
(*   the nodes.                                                            *)
(* - Keys: for all widths of integers and formats of floating-point        *)
(*   numbers, the words hashed are the CPU sketch's, and two keys have the *)
(*   same word exactly when they mean the same.                            *)
(* - Probabilities: for all formats and widths of thresholds, those        *)
(*   documented are accepted, and reported again.                          *)
(***************************************************************************)
EXTENDS ThetaImage, HllInterpolation, KeyNormalization, ThetaSampling, FiniteSetTheorems,
        WellFoundedInduction, TLAPS

-----------------------------------------------------------------------------
(* Images: arithmetic.                                                     *)

LEMMA SmallModulus ==
  ASSUME NEW a \in Nat, NEW b \in Nat, a < b
  PROVE  a % b = a
OBVIOUS

LEMMA WholeWords ==
  ASSUME NEW a \in Nat
  PROVE  8 * a \in Nat /\ (8 * a) \div 8 = a
OBVIOUS

LEMMA SizeInWords ==
  ASSUME NEW l \in 1 .. 3, NEW c \in Nat
  PROVE  8 * (1 + (l - 1 + c)) = 8 * l + 8 * c
OBVIOUS

-----------------------------------------------------------------------------
(* What is known of the bytes at hand: words are words, and the body holds  *)
(* at least the whole words that the size promises.                         *)

Measured(i) == i \in Images /\ i.size \div 8 <= Len(i.body) + 1

\* The words that the size check guarantees are those of the entries.
LEMMA EntriesPresent ==
  ASSUME NEW i, Measured(i), HeaderValid(i), SizeValid(i)
  PROVE  /\ Count(i) \in Nat
         /\ i.preamble_longs \in 1 .. 3
         /\ Len(i.body) \in Nat
         /\ i.preamble_longs - 1 + Count(i) <= Len(i.body)
<1>1. /\ i.body \in Seq(Words) /\ i.size \in Nat /\ i.preamble_longs \in 1 .. 3
      /\ Len(i.body) \in Nat /\ i.size \div 8 <= Len(i.body) + 1
  BY DEF Measured, Images, HeaderValid
<1>2. i.preamble_longs <= Len(i.body) + 1
  BY <1>1 DEF HeaderValid
<1>3. Count(i) \in Nat
  <2>1. CASE IsEmpty(i) \/ i.preamble_longs = 1
    BY <2>1 DEF Count
  <2>2. CASE ~IsEmpty(i) /\ i.preamble_longs # 1
    <3>1. i.body[1] \in Words
      BY <1>1, <1>2, <2>2
    <3>2. i.body[1] \in Nat /\ CountRange \in Nat /\ CountRange > 0
      BY <3>1, ImageAssumption DEF Words
    <3>3. i.body[1] % CountRange \in Nat
      BY <3>2
    <3> QED BY <2>2, <3>3 DEF Count
  <2> QED BY <2>1, <2>2
<1>4. i.size = 8 * (i.preamble_longs + Count(i))
  BY <1>1, <1>3 DEF SizeValid
<1>5. i.size \div 8 = i.preamble_longs + Count(i)
  BY <1>1, <1>3, <1>4
<1> QED BY <1>1, <1>3, <1>5

\* An accepted image holds a legal sketch.
LEMMA AcceptedIsLegal ==
  ASSUME NEW i, Measured(i), Accepted(i)
  PROVE  /\ Loaded(i) \in SketchStates
         /\ Legal(Loaded(i), MaxTheta)
<1> DEFINE c == Count(i)
           l == Loaded(i)
<1>1. /\ HeaderValid(i) /\ ThetaValid(i) /\ SizeValid(i) /\ EntriesValid(i) /\ c <= K
  BY DEF Accepted
<1>2. /\ c \in Nat /\ i.preamble_longs \in 1 .. 3 /\ Len(i.body) \in Nat
      /\ i.preamble_longs - 1 + c <= Len(i.body)
  BY <1>1, EntriesPresent
<1>3. MaxTheta \in Nat \ {0} /\ K \in Nat /\ Theta(i) \in 1 .. MaxTheta
  BY <1>1, ImageAssumption DEF ThetaValid
<1>4. ASSUME NEW n \in 1 .. c
      PROVE  /\ Entry(i, n) \in 1 .. MaxTheta /\ Entry(i, n) < Theta(i)
             /\ n # 1 => Entry(i, n - 1) < Entry(i, n)
  <2>1. i.preamble_longs - 1 + n \in 1 .. Len(i.body)
    BY <1>2
  <2>2. i.body \in Seq(Words)
    BY DEF Measured, Images
  <2>3. Entry(i, n) \in Words
    BY <2>1, <2>2 DEF Entry
  <2> QED BY <1>1, <1>3, <2>3 DEF EntriesValid, Words
<1>5. l.entries = [n \in 1 .. c |-> Entry(i, n)] /\ l.is_empty = IsEmpty(i)
      /\ l.theta = IF IsEmpty(i) THEN MaxTheta ELSE Theta(i)
  BY DEF Loaded
<1>6. l.entries \in [1 .. c -> 1 .. MaxTheta]
  BY <1>4, <1>5
<1>7. l \in SketchStates
  <2>1. c \in 0 .. K
    BY <1>1, <1>2, <1>3
  <2>2. l.entries \in UNION {[1 .. n -> 1 .. MaxTheta] : n \in 0 .. K}
    BY <1>6, <2>1
  <2>3. l.theta \in 1 .. MaxTheta
    BY <1>3, <1>5
  <2>4. IsEmpty(i) \in BOOLEAN
    BY DEF IsEmpty
  <2> QED BY <2>2, <2>3, <2>4, <1>5 DEF Loaded, SketchStates
<1>8. Len(l.entries) = c
  BY <1>2, <1>5
<1>9. ASSUME NEW n \in 1 .. Len(l.entries)
      PROVE  /\ l.entries[n] < l.theta
             /\ n # 1 => l.entries[n - 1] < l.entries[n]
  <2>1. n \in 1 .. c /\ l.entries[n] = Entry(i, n)
    BY <1>5, <1>8
  <2>2. n # 1 => l.entries[n - 1] = Entry(i, n - 1)
    BY <1>2, <1>5, <2>1
  <2>3. Theta(i) <= MaxTheta /\ Entry(i, n) < Theta(i)
    BY <1>3, <1>4, <2>1
  <2>4. l.theta = Theta(i) \/ l.theta = MaxTheta
    BY <1>5
  <2>5. l.entries[n] < l.theta
    BY <1>3, <1>4, <2>1, <2>3, <2>4
  <2> QED BY <1>4, <2>1, <2>2, <2>5
<1>10. l.is_empty => l.entries = <<>> /\ l.theta = MaxTheta
  <2>1. SUFFICES ASSUME IsEmpty(i) PROVE l.entries = <<>> /\ l.theta = MaxTheta
    BY <1>5
  <2>2. c = 0
    BY <2>1 DEF Count
  <2>3. 1 .. c = {}
    BY <2>2
  <2> QED BY <1>5, <2>1, <2>3
<1> QED BY <1>7, <1>9, <1>10 DEF Legal

-----------------------------------------------------------------------------
(* Writing and reading back.                                               *)

\* The three layouts of the words after the first.
LEMMA Layouts ==
  ASSUME NEW s \in SketchStates, NEW ini, Legal(s, ini)
  PROVE  LET i == Serialized(s) IN
         /\ Len(s.entries) \in 0 .. K
         /\ s.entries \in [1 .. Len(s.entries) -> 1 .. MaxTheta]
         /\ EffectiveTheta(s) \in 1 .. MaxTheta
         /\ IsEmpty(i) = s.is_empty
         /\ i.preamble_longs = PreambleLongs(s)
         /\ i.size = 8 * (1 + Len(i.body))
         /\ PreambleLongs(s) = 1 =>
              /\ i.body = s.entries /\ EffectiveTheta(s) = MaxTheta
              /\ s.is_empty => s.entries = <<>>
              /\ ~s.is_empty => Len(s.entries) = 1
         /\ PreambleLongs(s) = 2 =>
              /\ ~s.is_empty /\ EffectiveTheta(s) = MaxTheta
              /\ i.body = <<Len(s.entries)>> \o s.entries
         /\ PreambleLongs(s) = 3 =>
              /\ ~s.is_empty /\ EffectiveTheta(s) # MaxTheta
              /\ i.body = (<<Len(s.entries)>> \o <<EffectiveTheta(s)>>) \o s.entries
<1> DEFINE i == Serialized(s)
           e == s.entries
           t == EffectiveTheta(s)
<1>1. /\ K \in Nat /\ MaxTheta \in Nat \ {0} /\ CountRange \in Nat /\ K < CountRange
  BY ImageAssumption
<1>2. PICK n \in 0 .. K : e \in [1 .. n -> 1 .. MaxTheta]
  BY DEF SketchStates
<1>3. Len(e) = n /\ e \in Seq(1 .. MaxTheta)
  BY <1>1, <1>2
<1>4. t \in 1 .. MaxTheta
  BY <1>1 DEF EffectiveTheta, SketchStates
<1>5. Len(e) % CountRange = Len(e)
  BY SMTT(60), <1>1, <1>3
<1>6. /\ i.preamble_longs = PreambleLongs(s)
      /\ i.size = 8 * (1 + Len(i.body))
      /\ i.flags = {"read_only", "compact", "ordered"}
                      \cup (IF s.is_empty THEN {"empty"} ELSE {})
  BY DEF Serialized
<1>7. IsEmpty(i) = s.is_empty
  <2>1. s.is_empty \in BOOLEAN
    BY DEF SketchStates
  <2> QED BY <1>6, <2>1 DEF IsEmpty
<1>8. i.body = ((IF PreambleLongs(s) > 1 THEN <<Len(e) % CountRange>> ELSE <<>>)
                 \o (IF PreambleLongs(s) = 3 THEN <<t>> ELSE <<>>)) \o e
  BY DEF Serialized
<1>9. ASSUME PreambleLongs(s) = 1
      PROVE  /\ i.body = e /\ t = MaxTheta
             /\ s.is_empty => e = <<>>
             /\ ~s.is_empty => Len(e) = 1
  <2>1. i.body = (<<>> \o <<>>) \o e
    BY <1>8, <1>9
  <2>2. (<<>> \o <<>>) \o e = e
    BY <1>3
  <2>3. ~(~s.is_empty /\ t < MaxTheta) /\ (s.is_empty \/ Len(e) = 1)
    BY <1>9 DEF PreambleLongs
  <2>4. s.is_empty => e = <<>> /\ t = MaxTheta
    BY DEF Legal, EffectiveTheta
  <2> QED BY <1>1, <1>4, <2>1, <2>2, <2>3, <2>4
<1>10. ASSUME PreambleLongs(s) = 2
       PROVE  ~s.is_empty /\ t = MaxTheta /\ i.body = <<Len(e)>> \o e
  <2>1. ~s.is_empty /\ ~(t < MaxTheta)
    BY <1>10 DEF PreambleLongs
  <2>2. i.body = (<<Len(e)>> \o <<>>) \o e
    BY <1>5, <1>8, <1>10
  <2>3. <<Len(e)>> \o <<>> = <<Len(e)>>
    BY <1>3
  <2> QED BY <1>1, <1>4, <2>1, <2>2, <2>3
<1>11. ASSUME PreambleLongs(s) = 3
       PROVE  /\ ~s.is_empty /\ t # MaxTheta
             /\ i.body = (<<Len(e)>> \o <<t>>) \o e
  <2>1. ~s.is_empty /\ t < MaxTheta
    BY <1>11 DEF PreambleLongs
  <2>2. i.body = (<<Len(e)>> \o <<t>>) \o e
    BY <1>5, <1>8, <1>11
  <2> QED BY <1>1, <1>4, <2>1, <2>2
<1> QED BY <1>1, <1>2, <1>3, <1>4, <1>6, <1>7, <1>9, <1>10, <1>11

\* In each layout the reader finds the count, theta and the entries again.
LEMMA ReadBack ==
  ASSUME NEW s \in SketchStates, NEW ini, Legal(s, ini)
  PROVE  LET i == Serialized(s) IN
         /\ i.preamble_longs \in 1 .. 3
         /\ Len(i.body) = i.preamble_longs - 1 + Len(s.entries)
         /\ Count(i) = Len(s.entries)
         /\ Theta(i) = EffectiveTheta(s)
         /\ \A n \in 1 .. Len(s.entries) : Entry(i, n) = s.entries[n]
         /\ i.body \in Seq(Words)
<1> DEFINE i == Serialized(s)
           e == s.entries
           t == EffectiveTheta(s)
<1>1. /\ K \in Nat /\ MaxTheta \in Nat \ {0} /\ CountRange \in Nat /\ K < CountRange
      /\ MaxWord \in Nat /\ MaxTheta <= MaxWord /\ CountRange <= MaxWord + 1
  BY ImageAssumption
<1>2. /\ Len(e) \in 0 .. K /\ e \in [1 .. Len(e) -> 1 .. MaxTheta]
      /\ t \in 1 .. MaxTheta /\ IsEmpty(i) = s.is_empty
      /\ i.preamble_longs = PreambleLongs(s)
  BY Layouts
<1>3. e \in Seq(Words) /\ Len(e) \in Nat /\ Len(e) \in Words /\ t \in Words
  BY <1>1, <1>2 DEF Words
<1>4. Len(e) % CountRange = Len(e)
  <2>1. Len(e) \in Nat /\ CountRange \in Nat /\ Len(e) < CountRange
    BY <1>1, <1>2
  <2> QED BY <2>1, SmallModulus
<1>5. CASE PreambleLongs(s) = 1
  <2>1. /\ i.body = e /\ t = MaxTheta /\ i.preamble_longs = 1
        /\ s.is_empty => e = <<>>
        /\ ~s.is_empty => Len(e) = 1
    BY <1>2, <1>5, Layouts
  <2>2. Count(i) = Len(e)
    BY <1>2, <2>1 DEF Count
  <2>3. Theta(i) = t
    BY <2>1 DEF Theta
  <2>4. \A n \in 1 .. Len(e) : Entry(i, n) = e[n]
    BY <1>3, <2>1 DEF Entry
  <2> QED BY <1>3, <2>1, <2>2, <2>3, <2>4
<1>6. CASE PreambleLongs(s) = 2
  <2>1. /\ i.body = <<Len(e)>> \o e /\ t = MaxTheta /\ i.preamble_longs = 2
        /\ ~s.is_empty
    BY <1>2, <1>6, Layouts
  <2>2. Len(i.body) = 1 + Len(e) /\ i.body[1] = Len(e) /\ i.body \in Seq(Words)
    BY <1>3, <2>1
  <2>3. Count(i) = Len(e)
    BY <1>2, <1>4, <2>1, <2>2 DEF Count
  <2>4. Theta(i) = t
    BY <2>1 DEF Theta
  <2>5. \A n \in 1 .. Len(e) : i.body[1 + n] = e[n]
    BY <1>3, <2>1
  <2>6. \A n \in 1 .. Len(e) : Entry(i, n) = e[n]
    BY <2>1, <2>5 DEF Entry
  <2> QED BY <2>1, <2>2, <2>3, <2>4, <2>6
<1>7. CASE PreambleLongs(s) = 3
  <2>1. /\ i.body = (<<Len(e)>> \o <<t>>) \o e
        /\ i.preamble_longs = 3 /\ ~s.is_empty
    BY <1>2, <1>7, Layouts
  <2>2. /\ Len(i.body) = 2 + Len(e) /\ i.body[1] = Len(e) /\ i.body[2] = t
        /\ i.body \in Seq(Words)
    BY <1>3, <2>1
  <2>3. Count(i) = Len(e)
    BY <1>2, <1>4, <2>1, <2>2 DEF Count
  <2>4. Theta(i) = t
    BY <2>1, <2>2 DEF Theta
  <2>5. \A n \in 1 .. Len(e) : i.body[2 + n] = e[n]
    BY <1>3, <2>1
  <2>6. \A n \in 1 .. Len(e) : Entry(i, n) = e[n]
    BY <2>1, <2>5 DEF Entry
  <2> QED BY <2>1, <2>2, <2>3, <2>4, <2>6
<1>8. PreambleLongs(s) \in 1 .. 3
  BY DEF PreambleLongs
<1> QED BY <1>5, <1>6, <1>7, <1>8

\* The theta of an empty sketch is not written.
LEMMA SameImage ==
  ASSUME NEW a, NEW b, a.entries = b.entries, a.is_empty = b.is_empty,
         EffectiveTheta(a) = EffectiveTheta(b)
  PROVE  Serialized(a) = Serialized(b)
<1>1. PreambleLongs(a) = PreambleLongs(b)
  BY DEF PreambleLongs
<1> QED BY <1>1, Zenon DEF Serialized

\* What is written is accepted, means the same, and is written the same again.
LEMMA WrittenIsRead ==
  ASSUME NEW s \in SketchStates, NEW ini, Legal(s, ini)
  PROVE  LET i == Serialized(s) IN
         /\ Measured(i)
         /\ Accepted(i)
         /\ Loaded(i) = [s EXCEPT !.theta = EffectiveTheta(s)]
         /\ Serialized(Loaded(i)) = i
<1> DEFINE i == Serialized(s)
           e == s.entries
           t == EffectiveTheta(s)
<1>1. /\ Len(e) \in 0 .. K /\ e \in [1 .. Len(e) -> 1 .. MaxTheta]
      /\ t \in 1 .. MaxTheta /\ IsEmpty(i) = s.is_empty
      /\ i.preamble_longs = PreambleLongs(s)
      /\ i.size = 8 * (1 + Len(i.body))
  BY Layouts
<1>2. /\ i.preamble_longs \in 1 .. 3
      /\ Len(i.body) = i.preamble_longs - 1 + Len(e)
      /\ Count(i) = Len(e) /\ Theta(i) = t
      /\ \A n \in 1 .. Len(e) : Entry(i, n) = e[n]
      /\ i.body \in Seq(Words)
  BY ReadBack
<1>3. /\ i.version = UncompressedVersion /\ i.type = SketchType /\ i.seed_hash = SeedHash
      /\ i.flags = {"read_only", "compact", "ordered"}
                      \cup (IF s.is_empty THEN {"empty"} ELSE {})
  BY DEF Serialized
<1>4. /\ K \in Nat /\ MaxTheta \in Nat \ {0} /\ SeedHash \in Nat
  BY ImageAssumption
<1>5. Measured(i)
  <2>1. Len(i.body) \in Nat
    BY <1>2
  <2>2. i.size \in Nat /\ i.size \div 8 = 1 + Len(i.body)
    <3>1. 1 + Len(i.body) \in Nat /\ i.size = 8 * (1 + Len(i.body))
      BY <1>1, <2>1
    <3> HIDE DEF i
    <3> QED BY <3>1, WholeWords
  <2>3. i \in Images
    <3>1. i.flags \subseteq Flags
      BY <1>3 DEF Flags
    <3>2. /\ UncompressedVersion \in Nat /\ SketchType \in Nat
      BY DEF UncompressedVersion, SketchType
    <3>3. PreambleLongs(s) \in Nat
      BY <1>1, <1>2
    <3> QED BY <1>1, <1>2, <1>3, <1>4, <2>2, <3>1, <3>2, <3>3 DEF Images, Serialized
  <2> QED BY <2>1, <2>2, <2>3 DEF Measured
<1>6. HeaderValid(i)
  <2>1. i.size >= 8 /\ i.size >= 8 * i.preamble_longs
    BY <1>1, <1>2
  <2>2. "big_endian" \notin i.flags /\ {"compact", "ordered"} \subseteq i.flags
    BY <1>3
  <2>3. IsEmpty(i) => i.preamble_longs = 1
    BY <1>1 DEF PreambleLongs
  <2> QED BY <1>2, <1>3, <2>1, <2>2, <2>3 DEF HeaderValid
<1>7. ThetaValid(i)
  <2>1. i.preamble_longs = 3 => t # MaxTheta
    BY <1>1, Layouts
  <2> QED BY <1>1, <1>2, <2>1 DEF ThetaValid
<1>8. SizeValid(i)
  <2>1. i.size = 8 * i.preamble_longs + 8 * Len(e)
    <3>1. Len(e) \in Nat /\ i.preamble_longs \in 1 .. 3
      BY <1>1, <1>2, <1>4
    <3>2. i.size = 8 * (1 + (i.preamble_longs - 1 + Len(e)))
      BY <1>1, <1>2, Zenon
    <3> QED BY <3>1, <3>2, SizeInWords
  <2> QED BY <1>2, <2>1 DEF SizeValid
<1>9. ASSUME NEW n \in 1 .. Len(e)
      PROVE  e[n] > 0 /\ e[n] < t /\ (n # 1 => e[n - 1] < e[n])
  <2>1. e[n] < s.theta /\ (n # 1 => e[n - 1] < e[n])
    BY DEF Legal
  <2>2. ~s.is_empty
    BY <1>1 DEF Legal
  <2> QED BY <1>1, <2>1, <2>2 DEF EffectiveTheta
<1>10. EntriesValid(i)
  <2>1. SUFFICES ASSUME NEW n \in 1 .. Len(e)
                 PROVE  /\ Entry(i, n) # 0 /\ Entry(i, n) < Theta(i)
                        /\ n # 1 => Entry(i, n - 1) < Entry(i, n)
    BY <1>2 DEF EntriesValid
  <2>2. Entry(i, n) = e[n] /\ (n # 1 => Entry(i, n - 1) = e[n - 1])
    <3>1. n \in Nat /\ (n # 1 => n - 1 \in 1 .. Len(e))
      BY <1>1
    <3> QED BY <1>2, <3>1
  <2> QED BY <1>2, <1>9, <2>2
<1>11. Accepted(i)
  BY <1>1, <1>2, <1>6, <1>7, <1>8, <1>10 DEF Accepted
<1>12. Loaded(i) = [s EXCEPT !.theta = t]
  <2>1. [n \in 1 .. Count(i) |-> Entry(i, n)] = e
    BY <1>1, <1>2
  <2>2. (IF IsEmpty(i) THEN MaxTheta ELSE Theta(i)) = t
    BY <1>1, <1>2 DEF EffectiveTheta
  <2>3. Loaded(i) = [entries |-> e, theta |-> t, is_empty |-> s.is_empty]
    BY <1>1, <2>1, <2>2 DEF Loaded
  <2>4. [s EXCEPT !.theta = t] = [entries |-> e, theta |-> t, is_empty |-> s.is_empty]
    BY DEF SketchStates
  <2> QED BY <2>3, <2>4
<1>13. Serialized(Loaded(i)) = i
  <2> DEFINE l == Loaded(i)
  <2>1. l.entries = e /\ l.is_empty = s.is_empty /\ EffectiveTheta(l) = t
    BY <1>12 DEF SketchStates, EffectiveTheta
  <2> QED BY <2>1, SameImage, Zenon
<1> QED BY <1>5, <1>11, <1>12, <1>13

-----------------------------------------------------------------------------
(* The invariant: the image at hand is measured, and an own one is the      *)
(* image of the sketch as it is.                                           *)

ImageInv ==
  /\ ImportsAreLegal
  /\ Measured(image)
  /\ own \in BOOLEAN
  /\ own => image = Serialized(sketch)

LEMMA InitImageInv == Init => ImageInv
<1> SUFFICES ASSUME Init PROVE ImageInv
  OBVIOUS
<1>1. MaxTheta \in Nat \ {0} /\ K \in Nat /\ initial \in 1 .. MaxTheta
  BY ImageAssumption DEF Init
<1>2. <<>> \in UNION {[1 .. n -> 1 .. MaxTheta] : n \in 0 .. K}
  <2>1. <<>> \in [1 .. 0 -> 1 .. MaxTheta]
    OBVIOUS
  <2> QED BY <1>1, <2>1
<1>3. sketch \in SketchStates /\ Legal(sketch, initial)
  BY <1>1, <1>2 DEF Init, Fresh, SketchStates, Legal
<1>4. Measured(image)
  BY ImageAssumption DEF Init, Measured
<1> QED BY <1>1, <1>3, <1>4 DEF Init, ImageInv, ImportsAreLegal

LEMMA StepImageInv == ImageInv /\ [Next]_vars => ImageInv'
<1> SUFFICES ASSUME ImageInv, [Next]_vars PROVE ImageInv'
  OBVIOUS
<1>1. /\ sketch \in SketchStates /\ initial \in 1 .. MaxTheta
      /\ Legal(sketch, initial) /\ Measured(image)
  BY DEF ImageInv, ImportsAreLegal
<1>2. CASE \E m \in Computed : Compute(m[1], m[2])
  <2>1. PICK m \in Computed : Compute(m[1], m[2])
    BY <1>2
  <2>2. m[1] \in SketchStates /\ m[2] \in 1 .. MaxTheta /\ Legal(m[1], m[2])
    BY DEF Computed
  <2> QED BY <1>1, <2>1, <2>2 DEF Compute, ImageInv, ImportsAreLegal
<1>3. CASE Serialize
  <2>1. Measured(Serialized(sketch))
    BY <1>1, WrittenIsRead
  <2> QED BY <1>1, <1>3, <2>1 DEF Serialize, ImageInv, ImportsAreLegal
<1>4. CASE Deserialize
  <2>1. Loaded(image) \in SketchStates /\ Legal(Loaded(image), MaxTheta)
    BY <1>1, <1>4, AcceptedIsLegal DEF Deserialize
  <2>2. MaxTheta \in 1 .. MaxTheta
    BY ImageAssumption
  <2>3. own => image = Serialized(Loaded(image))
    BY <1>1, WrittenIsRead DEF ImageInv
  <2>4. /\ sketch' = Loaded(image) /\ initial' = MaxTheta /\ image' = image /\ own' = own
    BY <1>4 DEF Deserialize
  <2> QED BY <1>1, <2>1, <2>2, <2>3, <2>4 DEF ImageInv, ImportsAreLegal
<1>5. CASE UNCHANGED vars
  BY <1>5 DEF vars, ImageInv, ImportsAreLegal
<1> QED BY <1>2, <1>3, <1>4, <1>5 DEF Next

LEMMA AlwaysImageInv == Spec => []ImageInv
BY InitImageInv, StepImageInv, PTL DEF Spec

\* Whatever image is read, the sketch is a legal one (preamble.hpp 98-175).
THEOREM ImportsLegal == Spec => []ImportsAreLegal
<1>1. ImageInv => ImportsAreLegal
  BY DEF ImageInv
<1> QED BY <1>1, AlwaysImageInv, PTL

\* An image the sketch wrote is read back as the sketch it was, and written
\* again it is the same image (preamble.hpp 64-93, 129-164).
THEOREM RoundTripHolds == Spec => []RoundTrip
<1>1. ImageInv => RoundTrip
  BY WrittenIsRead DEF ImageInv, ImportsAreLegal, RoundTrip
<1> QED BY <1>1, AlwaysImageInv, PTL

-----------------------------------------------------------------------------
(* The search for the interval of a raw estimate.                          *)

(* The search keeps the argument between the nodes left and right.  That   *)
(* left # right is what makes the interval an interval when it stops.      *)
SearchInv ==
  /\ place \in {"called", "search", "returned"}
  /\ x \in RawEstimates
  /\ left \in Offsets /\ right \in Offsets /\ left < right
  /\ place = "called" => left = 0 /\ right = LastXOffset
  /\ place = "search" => XValues[left] <= x /\ x < XValues[right]

(* An argument lies in one interval only.                                  *)
LEMMA StraddleUnique ==
  ASSUME NEW r \in Nat, NEW i \in 0 .. LastXOffset - 1,
         XValues[i] <= r, r < XValues[i + 1]
  PROVE  Straddle(r) = i
<1> DEFINE Holds(j) == XValues[j] <= r /\ r < XValues[j + 1]
<1>1. ASSUME NEW j \in 0 .. LastXOffset - 1, Holds(j) PROVE j = i
  <2>1. /\ LastXOffset \in Nat
        /\ \A m \in 0 .. LastXOffset : XValues[m] \in Nat
        /\ \A m, n \in 0 .. LastXOffset : m < n => XValues[m] < XValues[n]
    BY TableAssumption
  <2>2. i \in 0 .. LastXOffset /\ i + 1 \in 0 .. LastXOffset
        /\ j \in 0 .. LastXOffset /\ j + 1 \in 0 .. LastXOffset
    BY <2>1
  <2>3. CASE j < i
    <3>1. j + 1 = i \/ j + 1 < i
      BY <2>2, <2>3
    <3>2. XValues[j + 1] <= XValues[i]
      BY <2>1, <2>2, <3>1
    <3> QED BY <1>1, <2>1, <2>2, <3>2
  <2>4. CASE i < j
    <3>1. i + 1 = j \/ i + 1 < j
      BY <2>2, <2>4
    <3>2. XValues[i + 1] <= XValues[j]
      BY <2>1, <2>2, <3>1
    <3> QED BY <1>1, <2>1, <2>2, <3>2
  <2> QED BY <2>2, <2>3, <2>4
<1>2. Straddle(r) = CHOOSE j \in 0 .. LastXOffset - 1 : Holds(j)
  BY DEF Straddle
<1>3. Holds(i)
  OBVIOUS
<1> HIDE DEF Holds
<1> QED BY <1>1, <1>2, <1>3

LEMMA SearchInitInv == SearchInit => SearchInv
  BY TableAssumption DEF SearchInit, SearchInv, Offsets, Rightmost

LEMMA SearchStepInv ==
  ASSUME SearchInv, [SearchNext]_searchVars
  PROVE  SearchInv'
<1>1. CASE UNCHANGED searchVars
  BY <1>1 DEF SearchInv, searchVars
<1>2. CASE Call
  BY <1>2, TableAssumption DEF Call, SearchInv, Offsets, Rightmost
<1>3. CASE ReturnLast
  BY <1>3 DEF ReturnLast, SearchInv
<1>4. CASE Search
  <2>1. x \in Nat /\ XValues[0] <= x /\ x <= XValues[LastXOffset]
        /\ XValues[LastXOffset] \in Nat
    BY RawEstimatesAssumption, TableAssumption DEF SearchInv, Inside
  <2>2. x < XValues[LastXOffset]
    BY <1>4, <2>1 DEF Search, AtLast
  <2> QED BY <1>4, <2>1, <2>2 DEF Search, SearchInv
<1>5. CASE Halve
  <2> DEFINE middle == left + ((right - left) \div 2)
  <2>1. left \in Int /\ right \in Int /\ left + 1 < right /\ 0 <= left /\ right <= LastXOffset
        /\ LastXOffset \in Nat
    BY <1>5, TableAssumption DEF Halve, Apart, SearchInv, Offsets
  <2>2. middle \in Int /\ left < middle /\ middle < right
    BY <2>1
  <2>3. middle \in Offsets
    BY <2>1, <2>2 DEF Offsets
  <2>4. x \in Nat /\ XValues[middle] \in Nat
    BY <2>3, RawEstimatesAssumption, TableAssumption DEF SearchInv, Offsets
  <2>5. /\ place' = "search" /\ place = "search" /\ x' = x
        /\ IF XValues[middle] <= x THEN left' = middle /\ right' = right
           ELSE right' = middle /\ left' = left
    BY <1>5 DEF Halve
  <2> HIDE DEF middle
  <2>6. CASE XValues[middle] <= x
    BY <2>1, <2>2, <2>3, <2>5, <2>6 DEF SearchInv
  <2>7. CASE ~(XValues[middle] <= x)
    BY <2>1, <2>2, <2>3, <2>4, <2>5, <2>7 DEF SearchInv
  <2> QED BY <2>6, <2>7
<1>6. CASE Interpolate
  BY <1>6 DEF Interpolate, SearchInv
<1> QED BY <1>1, <1>2, <1>3, <1>4, <1>5, <1>6 DEF SearchNext, Step

LEMMA AlwaysSearchInv == SearchSpec => []SearchInv
<1> QED BY SearchInitInv, SearchStepInv, PTL DEF SearchSpec

(* When the interval is no longer wide, it is the argument's.              *)
LEMMA SearchEnds ==
  ASSUME SearchInv, place = "search", ~Apart
  PROVE  left \in 0 .. LastXOffset - 1 /\ right = left + 1 /\ left = Straddle(x)
<1>1. left \in Int /\ right \in Int /\ right = left + 1 /\ left \in 0 .. LastXOffset - 1
  BY TableAssumption DEF SearchInv, Apart, Offsets
<1>2. x \in Nat /\ XValues[left] <= x /\ x < XValues[left + 1]
  BY <1>1, RawEstimatesAssumption DEF SearchInv
<1> QED BY <1>1, <1>2, StraddleUnique

-----------------------------------------------------------------------------

(* The search ends at the interval that the argument lies in, and the      *)
(* window of four nodes never leaves the row and never misses a neighbour  *)
(* of the interval: composite_finalizer.cuh 105-120 and 155-156.           *)
THEOREM WindowIsCentred == SearchSpec => []WindowCentred
<1>1. ASSUME SearchInv, place = "search", ~Apart
      PROVE  LET window == Window(WindowBase(left))
             IN  /\ left = Straddle(x)
                 /\ window \subseteq Offsets
                 /\ (left - 1 .. left + 2) \cap Offsets \subseteq window
  <2>1. left \in 0 .. LastXOffset - 1 /\ left = Straddle(x)
    BY <1>1, SearchEnds
  <2>2. LastXOffset \in Nat /\ LastXOffset >= 3
    BY TableAssumption
  <2>3. CASE left = 0
    BY <2>1, <2>2, <2>3 DEF Window, WindowBase, Offsets
  <2>4. CASE left = LastXOffset - 1
    <3>1. WindowBase(left) = left - 2
      BY <2>1, <2>2, <2>4 DEF WindowBase
    <3> QED BY <2>1, <2>2, <2>4, <3>1 DEF Window, Offsets
  <2>5. CASE left # 0 /\ left # LastXOffset - 1
    <3>1. WindowBase(left) = left - 1
      BY <2>5 DEF WindowBase
    <3> QED BY <2>1, <2>2, <2>5, <3>1 DEF Window, Offsets
  <2> QED BY <2>3, <2>4, <2>5
<1>2. SearchInv => WindowCentred
  BY <1>1 DEF WindowCentred
<1> QED BY <1>2, AlwaysSearchInv, PTL

(* A call returns what the table defines for its argument, whatever path   *)
(* the search took: composite_finalizer.cuh 125-160.                       *)
ReturnsInterpolated == place = "returned" => adjusted = Interpolated(x)

THEOREM SearchComputes == SearchSpec => []ReturnsInterpolated
<1>1. SearchInit => ReturnsInterpolated
  BY DEF SearchInit, ReturnsInterpolated
<1>2. ASSUME SearchInv, ReturnsInterpolated, [SearchNext]_searchVars
      PROVE  ReturnsInterpolated'
  <2>1. CASE UNCHANGED searchVars
    BY <1>2, <2>1 DEF ReturnsInterpolated, searchVars
  <2>2. CASE Call \/ Search \/ Halve
    BY <2>2 DEF Call, Search, Halve, ReturnsInterpolated
  <2>3. CASE ReturnLast
    BY <2>3 DEF ReturnLast, AtLast, ReturnsInterpolated, Interpolated
  <2>4. CASE Interpolate
    <3>1. left = Straddle(x) /\ right = left + 1
      BY <1>2, <2>4, SearchEnds DEF Interpolate
    <3>2. x # XValues[LastXOffset]
      <4>1. /\ LastXOffset \in Nat /\ XValues[LastXOffset] \in Nat
            /\ right \in Offsets /\ XValues[right] \in Nat /\ x \in Nat /\ x < XValues[right]
        BY <1>2, <2>4, TableAssumption, RawEstimatesAssumption
           DEF SearchInv, Interpolate, Offsets
      <4>2. right = LastXOffset \/ XValues[right] < XValues[LastXOffset]
        BY <4>1, TableAssumption DEF Offsets
      <4> QED BY <4>1, <4>2
    <3>3. adjusted' = cubic_interpolate(x, WindowBase(left)) /\ x' = x
      BY <2>4 DEF Interpolate
    <3> QED BY <3>1, <3>2, <3>3 DEF ReturnsInterpolated, Interpolated
  <2> QED BY <1>2, <2>1, <2>2, <2>3, <2>4 DEF SearchNext, Step
<1> QED BY <1>1, <1>2, AlwaysSearchInv, PTL DEF SearchSpec

-----------------------------------------------------------------------------
(* A nonempty set of naturals has a least element.                         *)
LEMMA LeastElement ==
  ASSUME NEW T \in SUBSET Nat, T # {}
  PROVE  \E y \in T : \A z \in T : y <= z
<1>1. PICK y \in T : \A z \in T : ~(<<z, y>> \in OpToRel(<, Nat))
  BY NatLessThanWellFounded, WFMin
<1>2. \A z \in T : y <= z
  <2> SUFFICES ASSUME NEW z \in T PROVE y <= z
    OBVIOUS
  <2>1. ~(<<z, y>> \in OpToRel(<, Nat))
    BY <1>1
  <2>2. ~(z < y)
    BY <2>1 DEF OpToRel
  <2> QED BY <2>2
<1> QED BY <1>1, <1>2

(* Sums and products over a set: the library takes the elements out one by *)
(* one, in an order that is not known.                                     *)

Drawn(T) == CHOOSE e \in T : TRUE

\* g has what op makes of the elements of each subset of S.
Folded(g, op, f, b, S) ==
  \A T \in SUBSET S :
    g[T] = IF T = {} THEN b ELSE op[<<f[Drawn(T)], g[T \ {Drawn(T)}]>>]

\* The same for the subsets of S that have at most n elements.
FoldedUpTo(g, op, f, b, S, n) ==
  \A T \in SUBSET S :
    Cardinality(T) <= n =>
      g[T] = IF T = {} THEN b ELSE op[<<f[Drawn(T)], g[T \ {Drawn(T)}]>>]

LEMMA DrawnOut ==
  ASSUME NEW S, IsFiniteSet(S), NEW T \in SUBSET S
  PROVE  /\ IsFiniteSet(T) /\ Cardinality(T) \in Nat
         /\ (T = {}) <=> (Cardinality(T) = 0)
         /\ T # {} => Drawn(T) \in T
         /\ \A e \in T : T \ {e} \in SUBSET S /\ Cardinality(T \ {e}) = Cardinality(T) - 1
<1>1. IsFiniteSet(T)
  BY FS_Subset
<1>2. Cardinality(T) \in Nat
  BY <1>1, FS_CardinalityType
<1>3. (T = {}) <=> (Cardinality(T) = 0)
  BY <1>1, FS_EmptySet
<1>4. T # {} => Drawn(T) \in T
  BY DEF Drawn
<1>5. \A e \in T : Cardinality(T \ {e}) = Cardinality(T) - 1
  BY <1>1, FS_RemoveElement
<1> QED BY <1>1, <1>2, <1>3, <1>4, <1>5

LEMMA DrawnSmaller ==
  ASSUME NEW S, IsFiniteSet(S), NEW T \in SUBSET S, T # {}
  PROVE  Cardinality(T \ {Drawn(T)}) = Cardinality(T) - 1
<1>1. Drawn(T) \in T
  BY DrawnOut
<1> QED BY <1>1, DrawnOut

LEMMA SmallestSet ==
  ASSUME NEW S, IsFiniteSet(S), NEW B \in SUBSET SUBSET S, B # {}
  PROVE  \E T \in B : \A U \in B : Cardinality(T) <= Cardinality(U)
<1> DEFINE N == {Cardinality(T) : T \in B}
<1>1. N \in SUBSET Nat /\ N # {}
  <2>1. \A T \in B : Cardinality(T) \in Nat
    BY DrawnOut
  <2> QED BY <2>1
<1>2. PICK n \in N : \A m \in N : n <= m
  <2> HIDE DEF N
  <2> QED BY <1>1, LeastElement
<1> QED BY <1>2

LEMMA FoldsExist ==
  ASSUME NEW S, IsFiniteSet(S), NEW f \in [S -> Int], NEW b \in Int,
         NEW op \in [Int \X Int -> Int]
  PROVE  \E g \in [SUBSET S -> Int] : Folded(g, op, f, b, S)
<1> DEFINE c == Cardinality(S)
           Bad == {n \in 0 .. c : ~ \E g \in [SUBSET S -> Int] : FoldedUpTo(g, op, f, b, S, n)}
<1>1. c \in Nat
  BY FS_CardinalityType
<1>2. Bad = {}
  <2>1. SUFFICES ASSUME Bad # {} PROVE FALSE
    OBVIOUS
  <2>2. PICK n \in Bad : \A m \in Bad : n <= m
    <3>1. Bad \in SUBSET Nat
      OBVIOUS
    <3> HIDE DEF Bad
    <3> QED BY <2>1, <3>1, LeastElement
  <2>3. n \in 0 .. c /\ ~ \E g \in [SUBSET S -> Int] : FoldedUpTo(g, op, f, b, S, n)
    OBVIOUS
  <2>4. n # 0
    <3> SUFFICES ASSUME n = 0 PROVE FALSE
      OBVIOUS
    <3> DEFINE g == [T \in SUBSET S |-> b]
    <3>1. g \in [SUBSET S -> Int]
      OBVIOUS
    <3>2. FoldedUpTo(g, op, f, b, S, 0)
      <4> SUFFICES ASSUME NEW T \in SUBSET S, Cardinality(T) <= 0 PROVE T = {} /\ g[T] = b
        BY DEF FoldedUpTo
      <4> QED BY DrawnOut
    <3> HIDE DEF g
    <3> QED BY <2>3, <3>1, <3>2
  <2>5. n - 1 \in 0 .. c /\ n - 1 \notin Bad
    <3>1. n - 1 \in 0 .. c /\ ~(n <= n - 1)
      BY <1>1, <2>3, <2>4
    <3> HIDE DEF Bad
    <3> QED BY <2>2, <3>1
  <2>6. PICK g \in [SUBSET S -> Int] : FoldedUpTo(g, op, f, b, S, n - 1)
    <3> HIDE DEF c
    <3> QED BY <2>5
  <2> DEFINE h == [T \in SUBSET S |-> IF Cardinality(T) <= n - 1
                                      THEN g[T]
                                      ELSE IF T = {} THEN b
                                      ELSE op[<<f[Drawn(T)], g[T \ {Drawn(T)}]>>]]
  <2>7. h \in [SUBSET S -> Int]
    <3> SUFFICES ASSUME NEW T \in SUBSET S, T # {}
                 PROVE  op[<<f[Drawn(T)], g[T \ {Drawn(T)}]>>] \in Int
      OBVIOUS
    <3>1. Drawn(T) \in S /\ T \ {Drawn(T)} \in SUBSET S
      BY DrawnOut
    <3>2. f[Drawn(T)] \in Int /\ g[T \ {Drawn(T)}] \in Int
      BY <3>1
    <3> QED BY <3>2
  <2>8. FoldedUpTo(h, op, f, b, S, n)
    <3> SUFFICES ASSUME NEW T \in SUBSET S, Cardinality(T) <= n
                 PROVE  h[T] = IF T = {} THEN b ELSE op[<<f[Drawn(T)], h[T \ {Drawn(T)}]>>]
      BY DEF FoldedUpTo
    <3>1. Cardinality(T) \in Nat /\ n \in Nat
      BY <2>3, DrawnOut
    <3>2. T # {} => h[T \ {Drawn(T)}] = g[T \ {Drawn(T)}]
      <4> SUFFICES ASSUME T # {} PROVE h[T \ {Drawn(T)}] = g[T \ {Drawn(T)}]
        OBVIOUS
      <4> DEFINE U == T \ {Drawn(T)}
      <4>1. U \in SUBSET S /\ Cardinality(U) = Cardinality(T) - 1
        BY DrawnOut
      <4>2. Cardinality(U) <= n - 1
        BY <3>1, <4>1
      <4> HIDE DEF U
      <4>3. h[U] = g[U]
        BY <4>1, <4>2
      <4> QED BY <4>3 DEF U
    <3>3. CASE Cardinality(T) <= n - 1
      <4>1. h[T] = g[T]
        BY <3>3
      <4>2. g[T] = IF T = {} THEN b ELSE op[<<f[Drawn(T)], g[T \ {Drawn(T)}]>>]
        BY <2>6, <3>3 DEF FoldedUpTo
      <4> HIDE DEF h
      <4> QED BY <3>2, <4>1, <4>2
    <3>4. CASE ~(Cardinality(T) <= n - 1)
      <4>1. h[T] = IF T = {} THEN b ELSE op[<<f[Drawn(T)], g[T \ {Drawn(T)}]>>]
        BY <3>4
      <4> HIDE DEF h
      <4> QED BY <3>2, <4>1
    <3> QED BY <3>3, <3>4
  <2> HIDE DEF h
  <2> QED BY <2>3, <2>7, <2>8
<1>3. c \notin Bad
  BY <1>2
<1>4. PICK g \in [SUBSET S -> Int] : FoldedUpTo(g, op, f, b, S, c)
  <2>1. c \in 0 .. c
    BY <1>1
  <2> HIDE DEF c
  <2> QED BY <1>3, <2>1
<1>5. \A T \in SUBSET S : Cardinality(T) <= c
  BY FS_Subset
<1>6. Folded(g, op, f, b, S)
  BY <1>4, <1>5 DEF FoldedUpTo, Folded
<1> QED BY <1>6

\* What defines ProductSet.
Multiplies(h, S) ==
  h = [s \in SUBSET S |-> IF s = {} THEN 1 ELSE Drawn(s) * h[s \ {Drawn(s)}]]

(* A product of integers is zero exactly when one of them is.              *)
LEMMA ProductIs ==
  ASSUME NEW S \in SUBSET Int, IsFiniteSet(S)
  PROVE  ProductSet(S) \in Int /\ (ProductSet(S) = 0 <=> 0 \in S)
<1>1. ProductSet(S) = (CHOOSE h : Multiplies(h, S))[S]
  BY DEF ProductSet, FoldSet, MapThenFoldSet, Multiplies, Drawn
<1> DEFINE op == [two \in Int \X Int |-> two[1] * two[2]]
           f == [e \in S |-> e]
<1>2. op \in [Int \X Int -> Int] /\ f \in [S -> Int]
  OBVIOUS
<1>3. \A a, b \in Int : op[<<a, b>>] = a * b
  OBVIOUS
<1>4. \A e \in S : f[e] = e
  OBVIOUS
<1> HIDE DEF op, f
<1>5. PICK g \in [SUBSET S -> Int] : Folded(g, op, f, 1, S)
  <2>0. PICK n \in Int : n = 1
    OBVIOUS
  <2>1. \E g \in [SUBSET S -> Int] : Folded(g, op, f, n, S)
    BY <1>2, FoldsExist
  <2> QED BY <2>0, <2>1
<1>6. Multiplies(g, S)
  <2>1. ASSUME NEW s \in SUBSET S
        PROVE  g[s] = IF s = {} THEN 1 ELSE Drawn(s) * g[s \ {Drawn(s)}]
    <3>1. g[s] = IF s = {} THEN 1 ELSE op[<<f[Drawn(s)], g[s \ {Drawn(s)}]>>]
      BY <1>5 DEF Folded
    <3>2. s # {} => Drawn(s) \in S /\ s \ {Drawn(s)} \in SUBSET S
      BY DrawnOut
    <3>3. s # {} => f[Drawn(s)] = Drawn(s) /\ Drawn(s) \in Int /\ g[s \ {Drawn(s)}] \in Int
      BY <1>4, <3>2
    <3> QED BY <1>3, <3>1, <3>3
  <2>2. g = [s \in SUBSET S |-> g[s]]
    OBVIOUS
  <2> QED BY <2>1, <2>2 DEF Multiplies
<1>7. PICK h : h = CHOOSE z : Multiplies(z, S)
  OBVIOUS
<1>8. Multiplies(h, S)
  BY <1>6, <1>7
<1>9. ASSUME NEW T \in SUBSET S
      PROVE  h[T] = IF T = {} THEN 1 ELSE Drawn(T) * h[T \ {Drawn(T)}]
  BY <1>8 DEF Multiplies
<1> DEFINE Bad == {T \in SUBSET S : ~(h[T] \in Int /\ (h[T] = 0 <=> 0 \in T))}
<1>10. Bad = {}
  <2>1. SUFFICES ASSUME Bad # {} PROVE FALSE
    OBVIOUS
  <2>2. PICK T \in Bad : \A U \in Bad : Cardinality(T) <= Cardinality(U)
    <3>1. Bad \in SUBSET SUBSET S
      OBVIOUS
    <3> HIDE DEF Bad
    <3> QED BY <2>1, <3>1, SmallestSet
  <2>3. T \in SUBSET S /\ ~(h[T] \in Int /\ (h[T] = 0 <=> 0 \in T))
    OBVIOUS
  <2>4. T # {}
    <3> SUFFICES ASSUME T = {} PROVE FALSE
      OBVIOUS
    <3>1. h[T] = 1 /\ 0 \notin T
      BY <1>9, <2>3
    <3> HIDE DEF Bad
    <3> QED BY <2>3, <3>1
  <2> DEFINE U == T \ {Drawn(T)}
  <2>5. /\ U \in SUBSET S /\ Cardinality(U) = Cardinality(T) - 1 /\ Cardinality(T) \in Nat
        /\ Drawn(T) \in T
    <3>1. Drawn(T) \in T /\ Cardinality(T) \in Nat
      BY <2>3, <2>4, DrawnOut
    <3>2. U \in SUBSET S
      BY <2>3
    <3>3. Cardinality(T \ {Drawn(T)}) = Cardinality(T) - 1
      BY <2>3, <2>4, DrawnSmaller
    <3> QED BY <3>1, <3>2, <3>3
  <2>6. U \notin Bad
    <3> HIDE DEF Bad, U
    <3> QED BY <2>2, <2>5
  <2>7. h[U] \in Int /\ (h[U] = 0 <=> 0 \in U)
    BY <2>5, <2>6
  <2>8. h[T] = Drawn(T) * h[U] /\ Drawn(T) \in Int
    BY <1>9, <2>3, <2>4, <2>5
  <2>9. 0 \in T <=> Drawn(T) = 0 \/ 0 \in U
    BY <2>5
  <2> HIDE DEF U, Bad
  <2>10. ASSUME NEW a \in Int, NEW b \in Int PROVE a * b \in Int /\ (a * b = 0 <=> a = 0 \/ b = 0)
    <3>1. a * b \in Int /\ (a = 0 \/ b = 0 => a * b = 0)
      OBVIOUS
    <3>2. a > 0 /\ b > 0 => a * b > 0
      OBVIOUS
    <3>3. a > 0 /\ b < 0 => a * b < 0
      OBVIOUS
    <3>4. a < 0 /\ b > 0 => a * b < 0
      OBVIOUS
    <3>5. a < 0 /\ b < 0 => a * b > 0
      OBVIOUS
    <3> QED BY <3>1, <3>2, <3>3, <3>4, <3>5
  <2>11. h[T] \in Int /\ (h[T] = 0 <=> Drawn(T) = 0 \/ h[U] = 0)
    BY <2>7, <2>8, <2>10
  <2> QED BY <2>3, <2>7, <2>9, <2>11
<1>11. S \notin Bad
  BY <1>10
<1> QED BY <1>1, <1>7, <1>11

-----------------------------------------------------------------------------
(* Nodes.                                                                  *)

\* What the three shares add to the first node's cardinality.
Shares(r, base) ==
  MapThenSumSet(LAMBDA j : Share(Unit * YStride * j, r, base + j, Window(base)), 1 .. 3)

\* What defines it.
Sums(h, f, S) ==
  h = [s \in SUBSET S |-> IF s = {} THEN 0 ELSE f[Drawn(s)] + h[s \ {Drawn(s)}]]

(* All shares but one are none.                                            *)
LEMMA OneShare ==
  ASSUME NEW r, NEW base, NEW f \in [1 .. 3 -> Int], NEW m \in 0 .. 3,
         \A j \in 1 .. 3 : f[j] = Share(Unit * YStride * j, r, base + j, Window(base)),
         \A j \in 1 .. 3 : j # m => f[j] = 0
  PROVE  Shares(r, base) = IF m = 0 THEN 0 ELSE f[m]
<1> DEFINE S == 1 .. 3
           E(h) == h = [s \in SUBSET S |->
                          IF s = {} THEN 0
                          ELSE Share(Unit * YStride * Drawn(s), r, base + Drawn(s), Window(base))
                                 + h[s \ {Drawn(s)}]]
<1>1. Shares(r, base) = (CHOOSE h : E(h))[S]
  BY DEF Shares, MapThenSumSet, MapThenFoldSet, Drawn
<1>2. \A s \in SUBSET S : s # {} => Drawn(s) \in S
  BY DEF Drawn
<1>3. ASSUME NEW h PROVE E(h) <=> Sums(h, f, S)
  BY <1>2 DEF Sums
<1>4. (CHOOSE h : E(h)) = (CHOOSE h : Sums(h, f, S))
  <2> HIDE DEF E
  <2> QED BY <1>3
<1>5. IsFiniteSet(S)
  <2>1. PICK a \in Int, b \in Int : a = 1 /\ b = 3
    OBVIOUS
  <2>2. IsFiniteSet(a .. b)
    BY FS_Interval
  <2> QED BY <2>1, <2>2
<1> HIDE DEF E, S
<1>6. S = 1 .. 3 /\ f \in [S -> Int]
  BY DEF S
<1> DEFINE op == [two \in Int \X Int |-> two[1] + two[2]]
<1>7. op \in [Int \X Int -> Int]
  OBVIOUS
<1>8. \A a, b \in Int : op[<<a, b>>] = a + b
  OBVIOUS
<1> HIDE DEF op
<1>9. PICK g \in [SUBSET S -> Int] : Folded(g, op, f, 0, S)
  <2>0. PICK n \in Int : n = 0
    OBVIOUS
  <2>1. \E g \in [SUBSET S -> Int] : Folded(g, op, f, n, S)
    BY <1>5, <1>6, <1>7, FoldsExist
  <2> QED BY <2>0, <2>1
<1>10. Sums(g, f, S)
  <2>1. ASSUME NEW s \in SUBSET S
        PROVE  g[s] = IF s = {} THEN 0 ELSE f[Drawn(s)] + g[s \ {Drawn(s)}]
    <3>1. g[s] = IF s = {} THEN 0 ELSE op[<<f[Drawn(s)], g[s \ {Drawn(s)}]>>]
      BY <1>9 DEF Folded
    <3>2. s # {} => f[Drawn(s)] \in Int /\ g[s \ {Drawn(s)}] \in Int
      BY <1>2, <1>6 DEF S
    <3> QED BY <1>8, <3>1, <3>2
  <2>2. g = [s \in SUBSET S |-> g[s]]
    OBVIOUS
  <2> QED BY <2>1, <2>2 DEF Sums
<1>11. PICK h : h = CHOOSE z : Sums(z, f, S)
  OBVIOUS
<1>12. Sums(h, f, S)
  BY <1>10, <1>11
<1>13. ASSUME NEW T \in SUBSET S
       PROVE  h[T] = IF T = {} THEN 0 ELSE f[Drawn(T)] + h[T \ {Drawn(T)}]
  BY <1>12 DEF Sums
<1> DEFINE Bad == {T \in SUBSET S : h[T] # IF m \in T THEN f[m] ELSE 0}
<1>14. Bad = {}
  <2>1. SUFFICES ASSUME Bad # {} PROVE FALSE
    OBVIOUS
  <2>2. PICK T \in Bad : \A U \in Bad : Cardinality(T) <= Cardinality(U)
    <3>1. Bad \in SUBSET SUBSET S
      OBVIOUS
    <3> HIDE DEF Bad
    <3> QED BY <1>5, <2>1, <3>1, SmallestSet
  <2>3. T \in SUBSET S /\ h[T] # IF m \in T THEN f[m] ELSE 0
    OBVIOUS
  <2>4. T # {}
    BY <1>13, <2>3
  <2> DEFINE U == T \ {Drawn(T)}
  <2>5. /\ U \in SUBSET S /\ Cardinality(U) = Cardinality(T) - 1 /\ Cardinality(T) \in Nat
        /\ Drawn(T) \in T
    BY <1>5, <2>3, <2>4, DrawnOut
  <2>6. U \notin Bad
    <3> HIDE DEF Bad, U
    <3> QED BY <2>2, <2>5
  <2>7. h[U] = IF m \in U THEN f[m] ELSE 0
    BY <2>5, <2>6
  <2>8. h[T] = f[Drawn(T)] + h[U]
    BY <1>13, <2>3, <2>4
  <2>9. Drawn(T) \in 1 .. 3 /\ f[Drawn(T)] \in Int
    BY <1>6, <2>3, <2>5
  <2>10. Drawn(T) # m => f[Drawn(T)] = 0
    BY <2>9
  <2>11. m \in U => f[m] \in Int
    BY <1>6, <2>5
  <2> QED BY <2>3, <2>5, <2>7, <2>8, <2>9, <2>10, <2>11
<1>15. S \notin Bad
  BY <1>14
<1>16. h[S] = IF m \in S THEN f[m] ELSE 0
  BY <1>15
<1>17. m \in S <=> m # 0
  BY <1>6
<1> QED BY <1>1, <1>4, <1>11, <1>16, <1>17

(* Quotient and remainder exist, and are what they are said to be.         *)
LEMMA Division ==
  ASSUME NEW n \in Nat \ {0}, NEW v \in Nat
  PROVE  v \div n \in Nat /\ v % n \in 0 .. n - 1 /\ v = (v \div n) * n + (v % n)
<1>1. v = (v \div n) * n + (v % n) /\ v % n \in 0 .. n - 1 /\ v \div n \in Int
  OBVIOUS
<1>2. ASSUME v \div n < 0 PROVE FALSE
  <2>1. PICK q \in Int, r \in 0 .. n - 1 : q = v \div n /\ v = q * n + r
    BY <1>1
  <2>2. PICK a \in Nat : a = -1 - q
    BY <1>2, <2>1
  <2>3. a * n >= 0 /\ a * n \in Int
    OBVIOUS
  <2>4. q = -1 - a
    BY <2>2
  <2>5. q * n = -n - a * n
    BY <2>4
  <2> QED BY <2>1, <2>3, <2>5
<1> QED BY <1>1, <1>2

LEMMA DivisionIs ==
  ASSUME NEW n \in Nat \ {0}, NEW v \in Nat, NEW q \in Int, NEW r \in 0 .. n - 1, v = q * n + r
  PROVE  v \div n = q /\ v % n = r
<1>1. PICK ms \in Int, s \in 0 .. n - 1 : ms = v \div n /\ s = v % n /\ v = ms * n + s
  BY Division
<1>2. ASSUME NEW a \in Int, NEW b \in Int, NEW c \in 0 .. n - 1, NEW d \in 0 .. n - 1,
             a * n + c = b * n + d, a < b
      PROVE  FALSE
  <2>1. (b - a) * n = c - d /\ b - a >= 1 /\ b - a \in Nat
    BY <1>2
  <2>2. (b - a) * n >= n
    BY <2>1
  <2> QED BY <2>1, <2>2
<1>3. ~(q < ms) /\ ~(ms < q)
  BY <1>1, <1>2
<1>4. q = ms /\ r = s
  BY <1>1, <1>3
<1> QED BY <1>1, <1>4

\* A whole multiple divided by what it is a multiple of, and zero by anything.
LEMMA WholeQuotient ==
  ASSUME NEW n \in Int, n # 0, NEW q \in Nat, NEW v \in Int, v = q * n
  PROVE  (IF n > 0 THEN v \div n ELSE (-v) \div (-n)) = q
<1>1. CASE n > 0
  <2>1. v \in Nat /\ v = q * n + 0 /\ n \in Nat \ {0} /\ 0 \in 0 .. n - 1
    BY <1>1
  <2>2. v \div n = q
    BY <2>1, DivisionIs
  <2> QED BY <1>1, <2>2
<1>2. CASE n < 0
  <2>1. PICK k \in Nat \ {0} : k = -n
    BY <1>2
  <2>2. PICK w \in Int : w = -v
    OBVIOUS
  <2>3. w = q * k + 0
    BY <2>1, <2>2
  <2>4. w \in Nat /\ 0 \in 0 .. k - 1
    BY <2>2, <2>3
  <2>5. w \div k = q
    BY <2>3, <2>4, DivisionIs
  <2> QED BY <1>2, <2>1, <2>2, <2>5
<1> QED BY <1>1, <1>2

(* At a node, that node has the whole share and the others have none.      *)
LEMMA ShareAtNode ==
  ASSUME NEW base \in Nat, base + 3 \in Offsets, NEW m \in 0 .. 3, NEW j \in 1 .. 3
  PROVE  Share(Unit * YStride * j, XValues[base + m], base + j, Window(base))
           = IF j = m THEN Unit * YStride * j ELSE 0
<1> DEFINE W == Window(base)
           rest == W \ {base + j}
           scale == Unit * YStride * j
           r == XValues[base + m]
           z == XValues[base + j]
           P == Distances(r, rest)
           D == Distances(z, rest)
<1>1. /\ Unit \in Nat /\ YStride \in Nat /\ LastXOffset \in Nat
      /\ \A i \in Offsets : XValues[i] \in Nat
      /\ \A i, n \in Offsets : i < n => XValues[i] < XValues[n]
  BY TableAssumption DEF Offsets
<1>2. /\ W \subseteq Offsets /\ W \subseteq Int
      /\ base + m \in W /\ base + j \in W
  BY <1>1 DEF Window, Offsets
<1>3. \A i, n \in Offsets : i # n => XValues[i] # XValues[n]
  <2> SUFFICES ASSUME NEW i \in Offsets, NEW n \in Offsets, i # n PROVE XValues[i] # XValues[n]
    OBVIOUS
  <2>1. i < n \/ n < i
    BY <1>1 DEF Offsets
  <2> QED BY <1>1, <2>1
<1>4. scale \in Nat
  BY <1>1
<1>5. r \in Nat /\ z \in Nat
  BY <1>1, <1>2
<1>6. IsFiniteSet(rest)
  <2>1. PICK a \in Int, b \in Int : a = base /\ b = base + 3
    OBVIOUS
  <2>2. IsFiniteSet(a .. b)
    BY FS_Interval
  <2>3. IsFiniteSet(W)
    BY <2>1, <2>2 DEF Window
  <2> HIDE DEF W
  <2> QED BY <2>3, FS_Subset
<1>7. ASSUME NEW c \in Nat
      PROVE  /\ Distances(c, rest) \in Int
             /\ Distances(c, rest) = 0 <=> \E i \in rest : XValues[i] = c
  <2> DEFINE G == {c - XValues[i] : i \in rest}
  <2>1. \A i \in rest : XValues[i] \in Nat
    BY <1>1, <1>2
  <2>2. G \in SUBSET Int
    BY <2>1
  <2>3. IsFiniteSet(G)
    <3> DEFINE g == [i \in rest |-> c - XValues[i]]
    <3>1. g \in Surjection(rest, G)
      BY DEF Surjection
    <3> HIDE DEF g, G, rest
    <3> QED BY <1>6, <3>1, FS_Surjection
  <2>4. 0 \in G <=> \E i \in rest : XValues[i] = c
    BY <2>1
  <2>5. Distances(c, rest) = ProductSet(G)
    BY DEF Distances
  <2> HIDE DEF G
  <2> QED BY <2>2, <2>3, <2>4, <2>5, ProductIs
<1>8. D \in Int /\ D # 0
  <2>1. \A i \in rest : XValues[i] # z
    BY <1>2, <1>3
  <2> HIDE DEF rest, z
  <2> QED BY <1>5, <1>7, <2>1
<1>9. Share(scale, r, base + j, W)
        = IF D > 0 THEN (scale * P) \div D ELSE (-(scale * P)) \div (-D)
  BY DEF Share
<1>10. CASE j = m
  <2>1. r = z /\ P = D
    BY <1>10
  <2> HIDE DEF scale, P, D, r, z
  <2>2. scale * P \in Int /\ scale * P = scale * D
    BY <1>4, <1>8, <2>1
  <2>3. (IF D > 0 THEN (scale * P) \div D ELSE (-(scale * P)) \div (-D)) = scale
    <3> DEFINE v == scale * P
    <3>1. v \in Int /\ v = scale * D
      BY <2>2
    <3> HIDE DEF v
    <3>2. (IF D > 0 THEN v \div D ELSE (-v) \div (-D)) = scale
      BY <1>4, <1>8, <3>1, WholeQuotient
    <3> QED BY <3>2 DEF v
  <2> QED BY <1>9, <1>10, <2>3 DEF scale, r
<1>11. CASE j # m
  <2>1. base + m \in rest /\ XValues[base + m] = r
    BY <1>2, <1>11
  <2>2. P = 0
    <3> HIDE DEF rest, r
    <3> QED BY <1>5, <1>7, <2>1
  <2> HIDE DEF scale, P, D, r
  <2>3. scale * P = 0
    BY <1>4, <2>2
  <2>4. (IF D > 0 THEN (scale * P) \div D ELSE (-(scale * P)) \div (-D)) = 0
    <3> DEFINE v == scale * P
    <3>1. PICK none \in Nat : none = 0
      OBVIOUS
    <3>2. v \in Int /\ v = none * D
      BY <1>8, <2>3, <3>1
    <3> HIDE DEF v
    <3>3. (IF D > 0 THEN v \div D ELSE (-v) \div (-D)) = none
      BY <1>8, <3>2, WholeQuotient
    <3> QED BY <3>1, <3>3 DEF v
  <2> QED BY <1>9, <1>11, <2>4 DEF scale, r
<1> QED BY <1>10, <1>11

(* The cubic through four nodes passes through them.                       *)
LEMMA CubicAtNode ==
  ASSUME NEW base \in Nat, base + 3 \in Offsets, NEW m \in 0 .. 3
  PROVE  cubic_interpolate(XValues[base + m], base) = YValue(base + m)
<1> DEFINE r == XValues[base + m]
<1>1. Unit \in Nat /\ YStride \in Nat
  BY TableAssumption
<1>2. PICK c \in Nat : c = Unit * YStride
  BY <1>1
<1>3. PICK f \in [1 .. 3 -> Int] : \A j \in 1 .. 3 : f[j] = IF j = m THEN c * j ELSE 0
  <2>1. [j \in 1 .. 3 |-> IF j = m THEN c * j ELSE 0] \in [1 .. 3 -> Int]
    OBVIOUS
  <2> QED BY <2>1
<1>4. \A j \in 1 .. 3 : f[j] = Share(Unit * YStride * j, r, base + j, Window(base))
  BY <1>2, <1>3, ShareAtNode
<1>5. \A j \in 1 .. 3 : j # m => f[j] = 0
  BY <1>3
<1> HIDE DEF r
<1>6. Shares(r, base) = IF m = 0 THEN 0 ELSE f[m]
  BY <1>4, <1>5, OneShare
<1>7. Shares(r, base) = c * m
  <2>1. m # 0 => f[m] = c * m
    BY <1>3
  <2>2. m = 0 => c * m = 0
    OBVIOUS
  <2> QED BY <1>6, <2>1, <2>2
<1>8. YValue(base) = c * base /\ YValue(base + m) = c * (base + m)
  BY <1>2 DEF YValue
<1>9. c * (base + m) = c * base + c * m
  OBVIOUS
<1>10. cubic_interpolate(r, base) = YValue(base) + Shares(r, base)
  BY DEF cubic_interpolate, Shares
<1>11. cubic_interpolate(r, base) = YValue(base + m)
  BY <1>7, <1>8, <1>9, <1>10
<1> QED BY <1>11 DEF r

(* Every node is met, also where one window ends and the next begins: for  *)
(* a raw estimate that is node i of the table, a call returns the          *)
(* cardinality of node i.  So the interpolation does not jump at the seams *)
(* of its windows, in whatever row (composite_finalizer.cuh 105-166).       *)
NodesMet ==
  place = "returned" => \A i \in Offsets : x = XValues[i] => adjusted = YValue(i)

THEOREM NodesAreMet == SearchSpec => []NodesMet
<1>1. ASSUME NEW i \in Offsets PROVE Interpolated(XValues[i]) = YValue(i)
  <2>1. LastXOffset \in Nat /\ LastXOffset >= 3 /\ i \in Nat /\ i <= LastXOffset
    BY TableAssumption DEF Offsets
  <2>2. CASE i = LastXOffset
    BY <2>2 DEF Interpolated
  <2>3. CASE i # LastXOffset
    <3>1. i \in 0 .. LastXOffset - 1 /\ i + 1 \in Offsets /\ LastXOffset \in Offsets
      BY <2>1, <2>3 DEF Offsets
    <3>2. /\ XValues[i] \in Nat /\ XValues[i] < XValues[i + 1] /\ XValues[i] < XValues[LastXOffset]
      BY <2>1, <3>1, TableAssumption DEF Offsets
    <3>3. Straddle(XValues[i]) = i
      BY <3>1, <3>2, StraddleUnique
    <3>4. PICK base \in Nat, m \in 0 .. 3 :
            base = WindowBase(i) /\ base + 3 \in Offsets /\ base + m = i
      <4>1. CASE i = 0
        <5>1. WindowBase(i) = 0 /\ 0 + 3 \in Offsets /\ 0 + 0 = i
          BY <2>1, <4>1 DEF WindowBase, Offsets
        <5> QED BY <5>1
      <4>2. CASE i # 0 /\ i = LastXOffset - 1
        <5>1. WindowBase(i) = i - 2 /\ i - 2 \in Nat /\ (i - 2) + 3 \in Offsets /\ (i - 2) + 2 = i
          BY <2>1, <4>2 DEF WindowBase, Offsets
        <5> QED BY <5>1
      <4>3. CASE i # 0 /\ i # LastXOffset - 1
        <5>1. WindowBase(i) = i - 1
          BY <4>3 DEF WindowBase
        <5>2. i - 1 \in Nat /\ (i - 1) + 3 \in Offsets /\ (i - 1) + 1 = i
          BY <2>1, <2>3, <4>3 DEF Offsets
        <5> QED BY <5>1, <5>2
      <4> QED BY <4>1, <4>2, <4>3
    <3>5. cubic_interpolate(XValues[base + m], base) = YValue(base + m)
      BY <3>4, CubicAtNode
    <3>6. Interpolated(XValues[i]) = cubic_interpolate(XValues[i], WindowBase(i))
      BY <3>2, <3>3 DEF Interpolated
    <3> QED BY <3>4, <3>5, <3>6
  <2> QED BY <2>2, <2>3
<1>2. ReturnsInterpolated => NodesMet
  BY <1>1 DEF ReturnsInterpolated, NodesMet
<1> QED BY <1>2, SearchComputes, PTL

-----------------------------------------------------------------------------
(* Powers of two.                                                          *)

LEMMA PowersArePositive ==
  ASSUME NEW N \in Nat, Powers(N)
  PROVE  \A n \in 0 .. N : 2 ^ n \in Nat \ {0}
<1> DEFINE Bad == {n \in 0 .. N : 2 ^ n \notin Nat \ {0}}
<1>0. SUFFICES ASSUME Bad # {} PROVE FALSE
  OBVIOUS
<1>1. Bad \in SUBSET Nat
  OBVIOUS
<1>2. PICK n \in Bad : \A z \in Bad : n <= z
  <2> HIDE DEF Bad
  <2> QED BY <1>0, <1>1, LeastElement
<1>3. n # 0
  <2>1. 2 ^ 0 \in Nat \ {0}
    <3>1. 2 ^ 0 = 1
      BY DEF Powers
    <3> QED BY <3>1
  <2>2. 2 ^ n \notin Nat \ {0}
    BY <1>2
  <2>3. ASSUME n = 0 PROVE 2 ^ n = 2 ^ 0
    BY <2>3
  <2> QED BY <2>1, <2>2, <2>3
<1>4. n - 1 \in 0 .. N /\ n - 1 \notin Bad /\ n - 1 \in 0 .. N - 1 /\ (n - 1) + 1 = n
  BY <1>2, <1>3
<1>5. 2 ^ (n - 1) \in Nat \ {0}
  BY <1>4
<1>6. 2 ^ n = 2 * 2 ^ (n - 1)
  <2>1. 2 ^ ((n - 1) + 1) = 2 * 2 ^ (n - 1)
    BY <1>4 DEF Powers
  <2> QED BY <1>4, <2>1
<1>7. 2 ^ n \in Nat \ {0}
  <2> DEFINE y == 2 ^ (n - 1)
             z == 2 ^ n
  <2>1. y \in Nat \ {0} /\ z = 2 * y
    BY <1>5, <1>6
  <2> HIDE DEF y, z
  <2>2. z \in Nat \ {0}
    BY <2>1
  <2> QED BY <2>2 DEF z
<1> QED BY <1>2, <1>7

LEMMA PowersGrow ==
  ASSUME NEW N \in Nat, Powers(N), NEW a \in 0 .. N, NEW b \in 0 .. N, a <= b
  PROVE  2 ^ a <= 2 ^ b
<1> DEFINE Bad == {n \in 0 .. N : a <= n /\ ~ (2 ^ a <= 2 ^ n)}
<1> SUFFICES ASSUME Bad # {} PROVE FALSE
  OBVIOUS
<1>1. Bad \in SUBSET Nat
  OBVIOUS
<1>2. PICK n \in Bad : \A z \in Bad : n <= z
  <2> HIDE DEF Bad
  <2> QED BY <1>1, LeastElement
<1>3. n \in 0 .. N /\ a <= n /\ ~ (2 ^ a <= 2 ^ n)
  BY <1>2
<1>4. 2 ^ a \in Nat /\ 2 ^ n \in Nat
  BY <1>3, PowersArePositive
<1>5. n # a
  BY <1>3, <1>4
<1>6. /\ n - 1 \in 0 .. N /\ n - 1 \notin Bad /\ a <= n - 1
      /\ n - 1 \in 0 .. N - 1 /\ (n - 1) + 1 = n
  BY <1>2, <1>3, <1>5
<1>7. 2 ^ a <= 2 ^ (n - 1) /\ 2 ^ (n - 1) \in Nat
  BY <1>6, PowersArePositive
<1>8. 2 ^ n = 2 * 2 ^ (n - 1)
  <2>1. 2 ^ ((n - 1) + 1) = 2 * 2 ^ (n - 1)
    BY <1>6 DEF Powers
  <2> QED BY <1>6, <2>1
<1> DEFINE y == 2 ^ (n - 1)
           z == 2 ^ n
           w == 2 ^ a
<1>9. y \in Nat /\ w <= y /\ z = 2 * y /\ w \in Nat /\ ~ (w <= z)
  BY <1>3, <1>4, <1>7, <1>8
<1> HIDE DEF y, z, w
<1> QED BY <1>9

LEMMA PowerDoubles ==
  ASSUME NEW N \in Nat, Powers(N), NEW n \in 1 .. N
  PROVE  2 ^ n = 2 * 2 ^ (n - 1)
<1>1. n - 1 \in 0 .. N - 1 /\ (n - 1) + 1 = n
  OBVIOUS
<1>2. 2 ^ ((n - 1) + 1) = 2 * 2 ^ (n - 1)
  BY <1>1 DEF Powers
<1> QED BY <1>1, <1>2

LEMMA PowersMultiply ==
  ASSUME NEW N \in Nat, Powers(N), NEW a \in 0 .. N, NEW b \in 0 .. N, a + b <= N
  PROVE  2 ^ (a + b) = 2 ^ a * 2 ^ b
<1> DEFINE Bad == {n \in 0 .. N : a + n <= N /\ 2 ^ (a + n) # 2 ^ a * 2 ^ n}
<1> SUFFICES ASSUME Bad # {} PROVE FALSE
  OBVIOUS
<1>1. Bad \in SUBSET Nat
  OBVIOUS
<1>2. PICK n \in Bad : \A z \in Bad : n <= z
  <2> HIDE DEF Bad
  <2> QED BY <1>1, LeastElement
<1>3. n \in 0 .. N /\ a + n \in 0 .. N /\ 2 ^ (a + n) # 2 ^ a * 2 ^ n /\ 2 ^ a \in Nat
  BY <1>2, PowersArePositive
<1>4. n # 0
  <2>1. a + 0 = a /\ 2 ^ 0 = 1
    BY DEF Powers
  <2>2. 2 ^ a * 1 = 2 ^ a
    BY <1>3
  <2> QED BY <1>3, <2>1, <2>2
<1>5. /\ n - 1 \in 0 .. N /\ n - 1 \notin Bad /\ n \in 1 .. N
      /\ a + n \in 1 .. N /\ (a + n) - 1 = a + (n - 1) /\ a + (n - 1) \in 0 .. N
  BY <1>2, <1>3, <1>4
<1>6. 2 ^ (a + (n - 1)) = 2 ^ a * 2 ^ (n - 1) /\ 2 ^ (n - 1) \in Nat
  BY <1>5, PowersArePositive
<1>7. 2 ^ n = 2 * 2 ^ (n - 1) /\ 2 ^ (a + n) = 2 * 2 ^ ((a + n) - 1)
  BY <1>5, PowerDoubles
<1>8. ASSUME NEW c \in Nat, NEW q \in Nat PROVE 2 * (c * q) = c * (2 * q)
  OBVIOUS
<1>9. 2 * (2 ^ a * 2 ^ (n - 1)) = 2 ^ a * (2 * 2 ^ (n - 1))
  BY <1>3, <1>6, <1>8
<1> QED BY <1>3, <1>5, <1>6, <1>7, <1>9

-----------------------------------------------------------------------------
(* Keys, and what they are as words.                                       *)

LEMMA KeyShape ==
  ASSUME NEW key \in Keys
  PROVE  /\ key.type \in IntegralTypes \union FloatingTypes
         /\ key = [type |-> key.type, bits |-> key.bits]
         /\ key.bits \in 0 .. 2 ^ key.type.width - 1
<1>1. PICK t \in IntegralTypes \union FloatingTypes : key \in [type : {t}, bits : 0 .. 2 ^ t.width - 1]
  BY DEF Keys
<1>2. key.type = t
  BY <1>1
<1> QED BY <1>1, <1>2

LEMMA IntegralShape ==
  ASSUME NEW key \in Keys, IsIntegral(key)
  PROVE  /\ key.type = [kind |-> key.type.kind, width |-> key.type.width]
         /\ key.type.kind \in {"signed", "unsigned"}
         /\ key.type.width \in 1 .. Wide
<1>1. key.type \in [kind : {"signed", "unsigned"}, width : Narrow \union {Wide}]
  BY DEF IsIntegral, IntegralTypes
<1>2. Narrow \union {Wide} \subseteq 1 .. Wide
  BY KeyAssumption
<1> QED BY <1>1, <1>2

LEMMA FloatingShape ==
  ASSUME NEW key \in Keys, ~IsIntegral(key)
  PROVE  \/ key.type = [kind |-> "float", width |-> Size(Float)]
         \/ key.type = [kind |-> "double", width |-> Wide]
BY KeyShape DEF IsIntegral, FloatingTypes

(* A number that is a signed integer, as a word: its residue. *)
LEMMA ResidueOfSigned ==
  ASSUME NEW w \in Nat \ {0}, NEW z \in Int, - w <= z, z < w
  PROVE  z % w = IF z >= 0 THEN z ELSE z + w
<1>1. CASE z >= 0
  BY <1>1
<1>2. CASE z < 0
  <2>1. (z + w) \in 0 .. w - 1 /\ z = (z + w) + (-1) * w
    BY <1>2
  <2> QED BY <1>2, <2>1
<1> QED BY <1>1, <1>2

(* What the widths of a key are powers of. *)
LEMMA WidthPowers ==
  ASSUME NEW n \in 1 .. Wide
  PROVE  /\ 2 ^ n \in Nat \ {0} /\ 2 ^ (n - 1) \in Nat \ {0} /\ 2 ^ Wide \in Nat \ {0}
         /\ 2 ^ n = 2 * 2 ^ (n - 1)
         /\ 2 ^ n <= 2 ^ Wide
<1>1. Wide \in Nat /\ Powers(Wide) /\ n \in 0 .. Wide /\ n - 1 \in 0 .. Wide /\ Wide \in 0 .. Wide
  BY KeyAssumption, KeyPowers
<1>2. 2 ^ n \in Nat \ {0} /\ 2 ^ (n - 1) \in Nat \ {0} /\ 2 ^ Wide \in Nat \ {0}
  BY <1>1, PowersArePositive
<1>3. 2 ^ n = 2 * 2 ^ (n - 1)
  BY <1>1, PowerDoubles
<1>4. 2 ^ n <= 2 ^ Wide
  BY <1>1, PowersGrow
<1> QED BY <1>2, <1>3, <1>4

(* A key's number is one of Wide bits, and its word is that number's residue, *)
(* which is what sign extension makes of the key's bits.                      *)
LEMMA IntegralWord ==
  ASSUME NEW key \in Keys, IsIntegral(key)
  PROVE  /\ AsSigned(key.bits, key.type.width) \in Int
         /\ - 2 ^ (Wide - 1) <= AsSigned(key.bits, key.type.width)
         /\ AsSigned(key.bits, key.type.width) < 2 ^ (Wide - 1)
         /\ CanonicalInteger(key) = BitCast(AsSigned(key.bits, key.type.width))
         /\ CanonicalInteger(key) \in KeyWords
         /\ CanonicalInteger(key) = IF key.bits >= 2 ^ (key.type.width - 1)
                                    THEN key.bits + (2 ^ Wide - 2 ^ key.type.width)
                                    ELSE key.bits
<1> DEFINE n == key.type.width
           b == key.bits
           big == 2 ^ Wide
           top == 2 ^ (Wide - 1)
           full == 2 ^ n
           half == 2 ^ (n - 1)
           z == AsSigned(b, n)
<1>1. n \in 1 .. Wide /\ b \in 0 .. full - 1
  BY KeyShape, IntegralShape
<1>2. /\ full \in Nat \ {0} /\ half \in Nat \ {0} /\ big \in Nat \ {0} /\ full = 2 * half /\ full <= big
      /\ top \in Nat \ {0} /\ big = 2 * top
  <2> HIDE DEF n
  <2>1. Wide \in 1 .. Wide
    BY KeyAssumption
  <2> QED BY <1>1, <2>1, WidthPowers
<1>3. z = IF b < half THEN b ELSE b - full
  BY DEF AsSigned
<1>4. CanonicalInteger(key) = IF n = Wide THEN b ELSE z % big
  BY DEF CanonicalInteger, BitCast
<1>5. n = Wide => full = big
  OBVIOUS
<1> HIDE DEF n, b, big, top, full, half, z
<1>6. z \in Int /\ - top <= z /\ z < top /\ - big <= z /\ z < big
  BY <1>1, <1>2, <1>3
<1>7. z % big = IF z >= 0 THEN z ELSE z + big
  BY <1>2, <1>6, ResidueOfSigned
<1>8. z % big = IF b >= half THEN b + (big - full) ELSE b
  BY <1>1, <1>2, <1>3, <1>7
<1>9. n = Wide => z % big = b
  BY <1>1, <1>2, <1>5, <1>8
<1>10. CanonicalInteger(key) = z % big
  BY <1>4, <1>9
<1>11. z % big \in 0 .. big - 1
  BY <1>2, <1>6, <1>7
<1> QED BY <1>6, <1>8, <1>10, <1>11 DEF BitCast, KeyWords, n, b, big, top, full, half, z

LEMMA WordsAgree ==
  ASSUME NEW key \in Keys
  PROVE  _canonicalize(key) = CpuWord(key)
<1>1. CASE IsIntegral(key)
  <2>1. /\ key.type.kind \in {"signed", "unsigned"}
        /\ key.type = [kind |-> key.type.kind, width |-> key.type.width]
    BY <1>1, IntegralShape
  <2>2. _canonicalize(key) = IF key.bits >= 2 ^ (key.type.width - 1)
                             THEN key.bits + (2 ^ Wide - 2 ^ key.type.width)
                             ELSE key.bits
    BY <1>1, IntegralWord DEF _canonicalize
  <2>3. _canonicalize(key) = ToInt64(key).bits
    BY <2>2 DEF ToInt64
  <2>4. ToSigned(key).bits = key.bits /\ ToSigned(key).type.width = key.type.width
    BY <2>1 DEF ToSigned
  <2>5. ToInt64(ToSigned(key)).bits = ToInt64(key).bits
    BY <2>4 DEF ToInt64
  <2> QED BY <2>1, <2>3, <2>5 DEF CpuWord
<1>2. CASE ~IsIntegral(key)
  <2>1. key.type.kind \in {"float", "double"}
    BY <1>2, FloatingShape
  <2>2. _canonicalize(key) = CanonicalDouble(AsDouble(key))
    BY <1>2 DEF _canonicalize
  <2>3. CASE key.type.kind = "float"
    <3>1. CpuWord(key) = CpuUpdateDouble(ToCpuDouble(key))
      BY <2>3 DEF CpuWord
    <3>2. ToCpuDouble(key).bits = AsDouble(key)
      BY <2>3 DEF ToCpuDouble, AsDouble
    <3> QED BY <2>2, <3>1, <3>2 DEF CanonicalDouble, CpuUpdateDouble, PositiveZero
  <2>4. CASE key.type.kind = "double"
    <3>1. CpuWord(key) = CpuUpdateDouble(key)
      BY <2>4 DEF CpuWord
    <3>2. key.bits = AsDouble(key)
      BY <2>4 DEF AsDouble
    <3> QED BY <2>2, <3>1, <3>2 DEF CanonicalDouble, CpuUpdateDouble, PositiveZero
  <2> QED BY <2>1, <2>3, <2>4
<1> QED BY <1>1, <1>2

-----------------------------------------------------------------------------

SeenAreKeys == seen \subseteq Keys

(* Only keys are given. *)
LEMMA OnlyKeysAreSeen == KeysSpec => []SeenAreKeys
<1>1. KeysInit => SeenAreKeys
  BY DEF KeysInit, SeenAreKeys
<1>2. SeenAreKeys /\ [KeysNext]_keyVars => SeenAreKeys'
  BY DEF SeenAreKeys, KeysNext, Update, keyVars
<1> QED BY <1>1, <1>2, PTL DEF KeysSpec

(* Whatever keys a client gives, in whatever mixture of types, the words the *)
(* sketch hashes are those that datasketches-cpp hashes for the same keys.   *)
THEOREM KeysHashLikeTheCpu == KeysSpec => []WordParity
<1>1. KeysInit => WordParity
  BY DEF KeysInit, WordParity
<1>2. SeenAreKeys /\ WordParity /\ [KeysNext]_keyVars => WordParity'
  <2> SUFFICES ASSUME WordParity, [KeysNext]_keyVars PROVE WordParity'
    OBVIOUS
  <2>1. ASSUME NEW key \in Keys, Update(key) PROVE WordParity'
    <3>1. words' = {CpuWord(k) : k \in seen} \union {CpuWord(key)}
      BY <2>1, WordsAgree DEF Update, WordParity
    <3>2. seen' = seen \union {key}
      BY <2>1 DEF Update
    <3> QED BY <3>1, <3>2 DEF WordParity
  <2>2. CASE UNCHANGED keyVars
    BY <2>2 DEF WordParity, keyVars
  <2> QED BY <2>1, <2>2 DEF KeysNext
<1> QED BY <1>1, <1>2, OnlyKeysAreSeen, PTL DEF KeysSpec

-----------------------------------------------------------------------------
(* Floating-point formats.                                                 *)

LEMMA FormatPowers ==
  ASSUME NEW f \in Formats, Powers(Size(f))
  PROVE  /\ f.exp \in Nat \ {0, 1} /\ f.mant \in Nat \ {0} /\ Size(f) \in Nat
         /\ 2 ^ f.mant \in Nat \ {0}
         /\ 2 ^ f.exp \in Nat /\ 2 ^ f.exp >= 4
         /\ 2 ^ (f.exp + f.mant) = 2 ^ f.exp * 2 ^ f.mant
         /\ 2 ^ (f.exp + f.mant) \in Nat \ {0}
         /\ 2 ^ Size(f) = 2 * 2 ^ (f.exp + f.mant)
<1> DEFINE a == f.exp
           b == f.mant
           n == Size(f)
<1>1. a \in Nat \ {0, 1} /\ b \in Nat \ {0} /\ n = 1 + a + b
  BY DEF Formats, Size
<1>2. Powers(n)
  OBVIOUS
<1> HIDE DEF a, b, n
<1>3. n \in Nat /\ a + b \in 0 .. n /\ a \in 0 .. n /\ b \in 0 .. n /\ a + b <= n /\ a + b = n - 1 /\ n \in 1 .. n
      /\ 2 \in 0 .. n /\ 2 <= a /\ 2 \in 1 .. n /\ 1 \in 1 .. n /\ 2 - 1 = 1 /\ 1 - 1 = 0
  BY <1>1
<1>4. 2 ^ a \in Nat \ {0} /\ 2 ^ b \in Nat \ {0} /\ 2 ^ (a + b) \in Nat \ {0}
  BY <1>2, <1>3, PowersArePositive
<1>5. 2 ^ (a + b) = 2 ^ a * 2 ^ b
  BY <1>2, <1>3, PowersMultiply
<1>6. 2 ^ n = 2 * 2 ^ (n - 1)
  BY <1>2, <1>3, PowerDoubles
<1>7. 2 ^ 2 = 4
  <2>1. 2 ^ 2 = 2 * 2 ^ 1 /\ 2 ^ 1 = 2 * 2 ^ 0
    BY <1>2, <1>3, PowerDoubles
  <2>2. 2 ^ 0 = 1
    BY <1>2 DEF Powers
  <2> QED BY <2>1, <2>2
<1>8. 2 ^ 2 <= 2 ^ a
  BY <1>2, <1>3, PowersGrow
<1>9. 2 ^ a >= 4
  BY <1>4, <1>7, <1>8
<1> QED BY <1>1, <1>3, <1>4, <1>5, <1>6, <1>9 DEF a, b, n

LEMMA ProductGrows ==
  ASSUME NEW a \in Nat, NEW b \in Nat, NEW c \in Nat, b <= c
  PROVE  a * b <= a * c /\ a * b \in Nat /\ a * c \in Nat
<1>1. PICK d \in Nat : c = b + d
  <2>1. c - b \in Nat /\ c = b + (c - b)
    OBVIOUS
  <2> QED BY <2>1
<1>2. a * (b + d) = a * b + a * d /\ a * b \in Nat /\ a * d \in Nat
  OBVIOUS
<1>3. a * c = a * b + a * d
  BY <1>1, <1>2
<1> QED BY <1>2, <1>3

LEMMA Doubled ==
  ASSUME NEW a \in Nat, NEW b \in Nat
  PROVE  a * (2 * b) = 2 * (a * b)
OBVIOUS

(* The pattern of a sign, an exponent and a mantissa. *)
Pattern(f, s, e, m) == s * 2 ^ (f.exp + f.mant) + (e * 2 ^ f.mant + m)

(* In numbers: below es * ms is what has a quotient by ms below es. *)
LEMMA BelowProduct ==
  ASSUME NEW es \in Nat \ {0}, NEW ms \in Nat \ {0}, NEW e \in 0 .. es - 1, NEW m \in 0 .. ms - 1
  PROVE  e * ms + m \in 0 .. es * ms - 1
<1>1. (es - 1 - e) * ms >= 0 /\ e * ms >= 0
  OBVIOUS
<1> QED BY <1>1

LEMMA PatternParts ==
  ASSUME NEW f \in Formats, Powers(Size(f)),
         NEW s \in {0, 1}, NEW e \in 0 .. 2 ^ f.exp - 1, NEW m \in 0 .. 2 ^ f.mant - 1
  PROVE  /\ Pattern(f, s, e, m) \in Patterns(f)
         /\ SignBit(f, Pattern(f, s, e, m)) = s
         /\ Exponent(f, Pattern(f, s, e, m)) = e
         /\ Mantissa(f, Pattern(f, s, e, m)) = m
<1> DEFINE es == 2 ^ f.exp
           ms == 2 ^ f.mant
           h == 2 ^ (f.exp + f.mant)
           w == 2 ^ Size(f)
           b == Pattern(f, s, e, m)
<1>1. es \in Nat \ {0} /\ ms \in Nat \ {0} /\ h = es * ms /\ h \in Nat \ {0} /\ w = 2 * h
  BY FormatPowers
<1>2. b = s * h + (e * ms + m) /\ e \in 0 .. es - 1 /\ m \in 0 .. ms - 1
  BY DEF Pattern
<1>3. /\ Patterns(f) = 0 .. w - 1 /\ SignBit(f, b) = b \div h
      /\ Exponent(f, b) = (b \div ms) % es /\ Mantissa(f, b) = b % ms
  BY DEF Patterns, SignBit, Exponent, Mantissa
<1> HIDE DEF es, ms, h, w, b
<1>4. e * ms + m \in 0 .. h - 1
  BY <1>1, <1>2, BelowProduct
<1>5. b \in 0 .. w - 1
  <2>1. CASE s = 0
    BY <1>1, <1>2, <1>4, <2>1
  <2>2. CASE s = 1
    BY <1>1, <1>2, <1>4, <2>2
  <2> QED BY <2>1, <2>2
<1>6. b \in Nat
  BY <1>1, <1>5
<1>7. b \div h = s
  <2> DEFINE c == e * ms + m
  <2>1. c \in 0 .. h - 1 /\ b = s * h + c /\ s \in Int
    BY <1>2, <1>4
  <2> HIDE DEF c
  <2> QED BY <1>1, <1>6, <2>1, DivisionIs
<1>8. b = (s * es + e) * ms + m
  <2>1. CASE s = 0
    BY <1>1, <1>2, <2>1
  <2>2. CASE s = 1
    BY <1>1, <1>2, <2>2
  <2> QED BY <2>1, <2>2
<1>9. s * es + e \in Nat
  <2>1. CASE s = 0
    BY <1>1, <1>2, <2>1
  <2>2. CASE s = 1
    BY <1>1, <1>2, <2>2
  <2> QED BY <2>1, <2>2
<1> DEFINE u == s * es + e
<1>10. u \in Nat /\ b = u * ms + m /\ u = s * es + e /\ u \in Int /\ s \in Int
  BY <1>8, <1>9
<1> HIDE DEF u
<1>11. b \div ms = u /\ b % ms = m /\ u % es = e
  BY <1>1, <1>2, <1>6, <1>10, DivisionIs
<1> QED BY <1>3, <1>5, <1>7, <1>11 DEF b

LEMMA PatternOf ==
  ASSUME NEW f \in Formats, Powers(Size(f)), NEW b \in Patterns(f)
  PROVE  /\ SignBit(f, b) \in {0, 1}
         /\ Exponent(f, b) \in 0 .. 2 ^ f.exp - 1
         /\ Mantissa(f, b) \in 0 .. 2 ^ f.mant - 1
         /\ b = Pattern(f, SignBit(f, b), Exponent(f, b), Mantissa(f, b))
<1> DEFINE es == 2 ^ f.exp
           ms == 2 ^ f.mant
           h == 2 ^ (f.exp + f.mant)
           w == 2 ^ Size(f)
           q == b \div ms
           m == b % ms
           s == q \div es
           e == q % es
<1>1. es \in Nat \ {0} /\ ms \in Nat \ {0} /\ h = es * ms /\ h \in Nat \ {0} /\ w = 2 * h
  BY FormatPowers
<1>2. b \in 0 .. w - 1 /\ SignBit(f, b) = b \div h /\ Exponent(f, b) = e /\ Mantissa(f, b) = m
  BY DEF Patterns, SignBit, Exponent, Mantissa
<1>3. Pattern(f, s, e, m) = s * h + (e * ms + m)
  BY DEF Pattern
<1> HIDE DEF es, ms, h, w
<1>4. b \in Nat
  BY <1>1, <1>2
<1>5. q \in Nat /\ m \in 0 .. ms - 1 /\ b = q * ms + m
  BY <1>1, <1>4, Division
<1> HIDE DEF q, m
<1>6. s \in Nat /\ e \in 0 .. es - 1 /\ q = s * es + e
  BY <1>1, <1>5, Division
<1> HIDE DEF s, e
<1>7. e * ms + m \in 0 .. h - 1
  BY <1>1, <1>5, <1>6, BelowProduct
<1>8. ASSUME NEW ss \in Nat, NEW xx \in Nat, NEW pp \in Nat, NEW ee \in Nat, NEW mm \in Nat
      PROVE  (ss * xx + ee) * pp + mm = ss * (xx * pp) + (ee * pp + mm)
  OBVIOUS
<1>9. b = s * h + (e * ms + m)
  BY <1>1, <1>5, <1>6, <1>8
<1>10. b \div h = s
  <2> DEFINE c == e * ms + m
  <2>1. c \in 0 .. h - 1 /\ b = s * h + c /\ s \in Int
    BY <1>6, <1>7, <1>9
  <2> HIDE DEF c
  <2> QED BY <1>1, <1>4, <2>1, DivisionIs
<1>11. s \in {0, 1}
  <2> SUFFICES ASSUME s >= 2 PROVE FALSE
    BY <1>6
  <2>1. (s - 2) * h >= 0 /\ (s - 2) * h = s * h - 2 * h
    BY <1>1, <1>6
  <2> QED BY <1>1, <1>2, <1>6, <1>7, <1>9, <2>1
<1> QED BY <1>2, <1>3, <1>5, <1>6, <1>9, <1>10, <1>11 DEF es, ms

(* Powers of two as far as the exponents of a format go. *)
EnoughPowers(f) == Powers(Size(f)) /\ Powers(2 ^ f.exp)

LEMMA MagnitudeIs ==
  ASSUME NEW f \in Formats, EnoughPowers(f), NEW b \in Patterns(f)
  PROVE  /\ Magnitude(f, b) \in Nat
         /\ Exponent(f, b) = 0 => Magnitude(f, b) = Mantissa(f, b)
         /\ Exponent(f, b) # 0 =>
              /\ Magnitude(f, b) = (2 ^ f.mant + Mantissa(f, b)) * 2 ^ (Exponent(f, b) - 1)
              /\ 2 ^ (Exponent(f, b) - 1) \in Nat \ {0}
<1>1. Exponent(f, b) \in 0 .. 2 ^ f.exp - 1 /\ Mantissa(f, b) \in Nat /\ 2 ^ f.mant \in Nat \ {0} /\ 2 ^ f.exp \in Nat
  BY PatternOf, FormatPowers DEF EnoughPowers
<1> DEFINE e == Exponent(f, b)
           m == Mantissa(f, b)
           n == 2 ^ f.exp
           ms == 2 ^ f.mant
           u == 2 ^ (e - 1)
<1>2. Magnitude(f, b) = IF e = 0 THEN m ELSE (ms + m) * u
  BY DEF Magnitude
<1>3. ASSUME e # 0 PROVE u \in Nat \ {0}
  <2>1. Powers(n) /\ n \in Nat /\ e \in 0 .. n - 1
    BY <1>1 DEF EnoughPowers
  <2> HIDE DEF e, n
  <2>2. e - 1 \in 0 .. n
    BY <1>3, <2>1
  <2> QED BY <2>1, <2>2, PowersArePositive
<1>4. e \in Nat /\ m \in Nat /\ ms \in Nat \ {0}
  BY <1>1
<1> HIDE DEF u
<1>5. Magnitude(f, b) \in Nat
  <2> HIDE DEF e, m, ms
  <2>1. CASE e = 0
    BY <1>2, <1>4, <2>1
  <2>2. CASE e # 0
    BY <1>2, <1>3, <1>4, <2>2
  <2> QED BY <2>1, <2>2
<1> QED BY <1>2, <1>3, <1>5 DEF u

LEMMA MagnitudeGrows ==
  ASSUME NEW f \in Formats, EnoughPowers(f), NEW b \in Patterns(f), NEW c \in Patterns(f),
         Exponent(f, b) < Exponent(f, c)
  PROVE  Magnitude(f, b) < Magnitude(f, c)
<1> DEFINE ms == 2 ^ f.mant
           n == 2 ^ f.exp
           e == Exponent(f, b)
           d == Exponent(f, c)
           m == Mantissa(f, b)
           l == Mantissa(f, c)
           u == 2 ^ (e - 1)
           v == 2 ^ (d - 1)
           g == Magnitude(f, b)
           h == Magnitude(f, c)
<1>1. e \in 0 .. n - 1 /\ d \in 0 .. n - 1 /\ m \in 0 .. ms - 1 /\ l \in 0 .. ms - 1 /\ e < d
  BY PatternOf DEF EnoughPowers
<1>2. ms \in Nat \ {0} /\ n \in Nat
  BY FormatPowers DEF EnoughPowers
<1>3. /\ g \in Nat /\ h \in Nat
      /\ e = 0 => g = m
      /\ e # 0 => g = (ms + m) * u /\ u \in Nat \ {0}
      /\ d # 0 => h = (ms + l) * v /\ v \in Nat \ {0}
  BY MagnitudeIs
<1>4. ASSUME e # 0 PROVE 2 * u <= v
  <2>1. Powers(n)
    BY DEF EnoughPowers
  <2> HIDE DEF n, e, d
  <2>2. e \in 0 .. n /\ d - 1 \in 0 .. n /\ e <= d - 1 /\ e \in 1 .. n
    BY <1>1, <1>2, <1>4
  <2>3. 2 ^ e <= 2 ^ (d - 1)
    BY <1>2, <2>1, <2>2, PowersGrow
  <2>4. 2 ^ e = 2 * 2 ^ (e - 1)
    BY <1>2, <2>1, <2>2, PowerDoubles
  <2> QED BY <2>3, <2>4
<1> HIDE DEF ms, n, e, d, m, l, u, v, g, h
<1>5. d # 0
  BY <1>1, <1>2
<1>6. h = ms * v + l * v /\ l * v >= 0 /\ ms * v \in Nat /\ l * v \in Nat
  BY <1>1, <1>2, <1>3, <1>5
<1>7. ASSUME e = 0 PROVE g < h
  <2>1. ms * v >= ms
    <3>1. v \in Nat /\ ms \in Nat /\ 1 \in Nat /\ 1 <= v
      BY <1>2, <1>3, <1>5
    <3>2. ms * 1 <= ms * v
      BY <3>1, ProductGrows
    <3>3. ms * 1 = ms
      BY <3>1
    <3> QED BY <3>2, <3>3
  <2> QED BY <1>1, <1>2, <1>3, <1>6, <1>7, <2>1
<1>8. ASSUME e # 0 PROVE g < h
  <2>1. g = ms * u + m * u /\ ms * u \in Nat /\ m * u \in Nat
    BY <1>1, <1>2, <1>3, <1>8
  <2>2. (ms - 1 - m) * u >= 0 /\ (ms - 1 - m) * u = ms * u - u - m * u
    BY <1>1, <1>2, <1>3, <1>8
  <2>3. 2 * (ms * u) <= ms * v
    <3>1. PICK k \in Nat : k = 2 * u /\ k <= v
      BY <1>3, <1>4, <1>8
    <3>2. ms * k <= ms * v
      BY <1>2, <1>3, <1>5, <3>1, ProductGrows
    <3>3. u \in Nat /\ ms \in Nat
      BY <1>2, <1>3, <1>8
    <3>4. ms * (2 * u) = 2 * (ms * u)
      BY <3>3, Doubled
    <3> QED BY <3>1, <3>2, <3>4
  <2> QED BY <1>3, <1>6, <1>8, <2>1, <2>2, <2>3
<1>9. g < h
  BY <1>7, <1>8
<1> QED BY <1>9 DEF g, h

(* The number is all that a pattern is, but for a zero's sign. *)
LEMMA NumberTells ==
  ASSUME NEW f \in Formats, EnoughPowers(f), NEW b \in Patterns(f), NEW c \in Patterns(f),
         Number(f, b) = Number(f, c), Number(f, b) # 0
  PROVE  b = c
<1>1. Magnitude(f, b) \in Nat /\ Magnitude(f, c) \in Nat
  BY MagnitudeIs
<1>2. SignBit(f, b) \in {0, 1} /\ SignBit(f, c) \in {0, 1}
  BY PatternOf DEF EnoughPowers
<1>3. Magnitude(f, b) = Magnitude(f, c) /\ SignBit(f, b) = SignBit(f, c)
  BY <1>1, <1>2 DEF Number
<1>4. Exponent(f, b) = Exponent(f, c)
  <2>1. Exponent(f, b) \in 0 .. 2 ^ f.exp - 1 /\ Exponent(f, c) \in 0 .. 2 ^ f.exp - 1 /\ 2 ^ f.exp \in Nat
    BY PatternOf, FormatPowers DEF EnoughPowers
  <2>2. ~(Exponent(f, b) < Exponent(f, c)) /\ ~(Exponent(f, c) < Exponent(f, b))
    BY <1>1, <1>3, MagnitudeGrows
  <2> QED BY <2>1, <2>2
<1>5. Mantissa(f, b) = Mantissa(f, c)
  <2> DEFINE ms == 2 ^ f.mant
             u == 2 ^ (Exponent(f, b) - 1)
             m == Mantissa(f, b)
             l == Mantissa(f, c)
  <2>1. m \in Nat /\ l \in Nat /\ ms \in Nat
    <3>1. m \in 0 .. 2 ^ f.mant - 1 /\ l \in 0 .. 2 ^ f.mant - 1 /\ ms \in Nat
      BY PatternOf, FormatPowers DEF EnoughPowers
    <3> QED BY <3>1
  <2>2. CASE Exponent(f, b) = 0
    BY <1>3, <1>4, <2>2, MagnitudeIs
  <2>3. CASE Exponent(f, b) # 0
    <3>1. (ms + m) * u = (ms + l) * u /\ u \in Nat \ {0}
      BY <1>3, <1>4, <2>3, MagnitudeIs
    <3> HIDE DEF ms, u, m, l
    <3>2. ASSUME m < l PROVE FALSE
      <4>1. (l - m) * u > 0 /\ (l - m) * u = (ms + l) * u - (ms + m) * u
        BY <2>1, <3>1, <3>2
      <4> QED BY <3>1, <4>1, <2>1
    <3>3. ASSUME l < m PROVE FALSE
      <4>1. (m - l) * u > 0 /\ (m - l) * u = (ms + m) * u - (ms + l) * u
        BY <2>1, <3>1, <3>3
      <4> QED BY <3>1, <4>1, <2>1
    <3>4. m = l
      BY <2>1, <3>2, <3>3
    <3> QED BY <3>4 DEF m, l
  <2> QED BY <2>2, <2>3
<1>6. b = Pattern(f, SignBit(f, b), Exponent(f, b), Mantissa(f, b))
  BY PatternOf DEF EnoughPowers
<1>7. c = Pattern(f, SignBit(f, c), Exponent(f, c), Mantissa(f, c))
  BY PatternOf DEF EnoughPowers
<1> QED BY <1>3, <1>4, <1>5, <1>6, <1>7

(* A positive number has a leading bit. *)
LEMMA LeadingBit ==
  ASSUME NEW M \in Nat, Powers(M), NEW a \in Nat, a # 0, a < 2 ^ M
  PROVE  \E k \in 0 .. M - 1 : 2 ^ k <= a /\ a < 2 ^ (k + 1)
<1> DEFINE T == {j \in 0 .. M : a < 2 ^ j}
<1>1. T \in SUBSET Nat /\ M \in T
  OBVIOUS
<1>2. PICK j \in T : \A i \in T : j <= i
  <2> HIDE DEF T
  <2> QED BY <1>1, LeastElement
<1>3. j \in 0 .. M /\ a < 2 ^ j
  BY <1>2
<1>4. j # 0
  <2>1. 2 ^ 0 = 1
    BY DEF Powers
  <2>2. ASSUME j = 0 PROVE 2 ^ j = 2 ^ 0
    BY <2>2
  <2> QED BY <1>3, <2>1, <2>2
<1>5. j - 1 \in 0 .. M - 1 /\ j - 1 \in 0 .. M /\ j - 1 \notin T /\ (j - 1) + 1 = j
  BY <1>2, <1>3, <1>4
<1>6. 2 ^ (j - 1) \in Nat
  BY <1>5, PowersArePositive
<1>7. ~(a < 2 ^ (j - 1))
  BY <1>5
<1>8. 2 ^ (j - 1) <= a
  BY <1>6, <1>7
<1> QED BY <1>3, <1>5, <1>8

(* How a number is written: its significant bits, and how far they are shifted. *)
Written(n, k, a, s) ==
  a \in Nat /\ 2 ^ k <= a /\ a < 2 ^ (k + 1) /\ n = a * 2 ^ s

LEMMA NumbersAreWritten ==
  ASSUME NEW f \in Formats, EnoughPowers(f), NEW b \in Patterns(f),
         ~Special(f, b), Magnitude(f, b) # 0
  PROVE  \E k \in 0 .. f.mant, a \in Nat, s \in 0 .. 2 ^ f.exp - 3 : Written(Magnitude(f, b), k, a, s)
<1> DEFINE ms == 2 ^ f.mant
           M == f.mant
           n == 2 ^ f.exp
           e == Exponent(f, b)
           m == Mantissa(f, b)
           g == Magnitude(f, b)
<1>1. /\ e \in 0 .. n - 1 /\ m \in 0 .. ms - 1 /\ n \in Nat /\ n >= 4 /\ ms \in Nat /\ M \in Nat
      /\ Size(f) \in Nat /\ Size(f) > M + 1
  <2>1. Size(f) = 1 + f.exp + f.mant
    BY DEF Size
  <2>2. f.exp \in Nat \ {0, 1} /\ M \in Nat /\ n \in Nat /\ n >= 4 /\ ms \in Nat
    BY FormatPowers DEF EnoughPowers
  <2>3. Size(f) \in Nat /\ Size(f) > M + 1
    BY <2>1, <2>2
  <2>4. e \in 0 .. n - 1 /\ m \in 0 .. ms - 1
    BY PatternOf DEF EnoughPowers
  <2> QED BY <2>2, <2>3, <2>4
<1>2. /\ g \in Nat
      /\ e = 0 => g = m
      /\ e # 0 => g = (ms + m) * 2 ^ (e - 1)
  BY MagnitudeIs
<1>3. e # n - 1 /\ g # 0
  BY DEF Special
<1>4. Powers(Size(f))
  BY DEF EnoughPowers
<1>5. Powers(M) /\ 2 ^ (M + 1) = 2 * ms /\ 2 ^ 0 = 1
  <2>1. M \in 0 .. Size(f) - 1 /\ 0 .. M - 1 \subseteq 0 .. Size(f) - 1
    BY <1>1
  <2> HIDE DEF M
  <2> QED BY <1>4, <2>1 DEF Powers, M
<1> HIDE DEF n, e, m, g
<1>6. CASE e = 0
  <2>1. m \in Nat /\ m # 0 /\ m < 2 ^ M
    BY <1>1, <1>2, <1>3, <1>6
  <2>2. PICK k \in 0 .. M - 1 : 2 ^ k <= m /\ m < 2 ^ (k + 1)
    <3> HIDE DEF M
    <3> QED BY <1>1, <1>5, <2>1, LeadingBit
  <2>3. g = m * 2 ^ 0
    <3>1. m * 1 = m
      BY <2>1
    <3> QED BY <1>2, <1>5, <1>6, <3>1
  <2>4. Written(g, k, m, 0)
    BY <2>1, <2>2, <2>3 DEF Written
  <2>5. k \in 0 .. M /\ 0 \in 0 .. n - 3
    BY <1>1
  <2> QED BY <2>1, <2>4, <2>5 DEF g, n
<1>7. CASE e # 0
  <2>1. e - 1 \in 0 .. n - 3 /\ ms + m \in Nat
    BY <1>1, <1>3, <1>7
  <2>2. 2 ^ M <= ms + m /\ ms + m < 2 ^ (M + 1)
    BY <1>1, <1>5
  <2>3. Written(g, M, ms + m, e - 1)
    BY <1>2, <1>7, <2>1, <2>2 DEF Written
  <2>4. M \in 0 .. M
    BY <1>1
  <2> QED BY <2>1, <2>3, <2>4 DEF g, n
<1> QED BY <1>6, <1>7

(* Numbers with no more bits than a format has, and not too great, are the    *)
(* format's.                                                                  *)
LEMMA Representable ==
  ASSUME NEW g \in Formats, EnoughPowers(g), Powers(g.mant + 2 ^ g.exp),
         NEW k \in 0 .. g.mant, NEW a \in Nat, NEW t \in Nat,
         2 ^ k <= a, a < 2 ^ (k + 1), k + t <= g.mant + 2 ^ g.exp - 3
  PROVE  \E e \in 0 .. 2 ^ g.exp - 2, m \in 0 .. 2 ^ g.mant - 1 :
           a * 2 ^ t = IF e = 0 THEN m ELSE (2 ^ g.mant + m) * 2 ^ (e - 1)
<1> DEFINE M == g.mant
           ms == 2 ^ M
           n == 2 ^ g.exp
           N == M + n
<1>1. M \in Nat \ {0} /\ ms \in Nat \ {0} /\ n \in Nat /\ n >= 4
  BY FormatPowers DEF EnoughPowers
<1>2. Powers(N) /\ k \in 0 .. M /\ k + t <= N - 3
  <2>1. Powers(N)
    OBVIOUS
  <2>2. k \in 0 .. M
    OBVIOUS
  <2>3. k + t <= N - 3
    BY <1>1
  <2> QED BY <2>1, <2>2, <2>3
<1> HIDE DEF M, n, N
<1>3. N \in Nat /\ N = M + n
  BY <1>1 DEF N
<1>4. CASE k + t < M
  <2>1. /\ k + 1 \in 0 .. N /\ t \in 0 .. N /\ (k + 1) + t <= N /\ (k + 1) + t \in 0 .. N
        /\ M \in 0 .. N /\ (k + 1) + t <= M
    BY <1>1, <1>2, <1>3, <1>4
  <2>2. 2 ^ ((k + 1) + t) = 2 ^ (k + 1) * 2 ^ t
    BY <1>2, <1>3, <2>1, PowersMultiply
  <2>3. 2 ^ ((k + 1) + t) <= ms
    BY <1>2, <1>3, <2>1, PowersGrow DEF ms
  <2>4. 2 ^ t \in Nat \ {0} /\ 2 ^ (k + 1) \in Nat \ {0}
    BY <1>2, <1>3, <2>1, PowersArePositive
  <2>5. ASSUME NEW o \in Nat, NEW y \in Nat, NEW z \in Nat \ {0}, o < y PROVE o * z < y * z /\ o * z \in Nat
    <3>1. (y - o) * z > 0 /\ (y - o) * z = y * z - o * z
      BY <2>5
    <3> QED BY <3>1
  <2>6. a * 2 ^ t < 2 ^ (k + 1) * 2 ^ t /\ a * 2 ^ t \in Nat
    BY <2>4, <2>5
  <2> DEFINE m == a * 2 ^ t
             w == 2 ^ ((k + 1) + t)
  <2>7. m < w /\ w <= ms /\ m \in Nat /\ w \in Nat
    <3>1. w \in Nat
      BY <1>2, <1>3, <2>1, PowersArePositive
    <3> QED BY <2>2, <2>3, <2>6, <3>1
  <2> HIDE DEF m, w
  <2>8. m \in 0 .. ms - 1
    BY <1>1, <2>7
  <2>9. 0 \in 0 .. n - 2
    BY <1>1
  <2> QED BY <2>8, <2>9 DEF m, n, ms, M
<1>5. CASE ~(k + t < M)
  <2> DEFINE i == M - k
             j == k + t - M
             e == j + 1
  <2>1. /\ i \in 0 .. N /\ j \in 0 .. N /\ i + j = t /\ i + j <= N /\ t \in 0 .. N
        /\ e \in 0 .. n - 2 /\ e # 0 /\ e - 1 = j
    BY <1>1, <1>2, <1>3, <1>5
  <2>2. /\ k \in 0 .. N /\ k + i = M /\ k + i <= N /\ k + 1 \in 0 .. N
        /\ (k + 1) + i = M + 1 /\ (k + 1) + i <= N /\ M + 1 \in 1 .. N /\ (M + 1) - 1 = M
    BY <1>1, <1>2, <1>3, <1>5
  <2> HIDE DEF i, j, e
  <2>3. 2 ^ t = 2 ^ i * 2 ^ j
    BY <1>2, <1>3, <2>1, PowersMultiply
  <2>4. ms = 2 ^ k * 2 ^ i
    BY <1>2, <1>3, <2>1, <2>2, PowersMultiply DEF ms
  <2>5. 2 ^ (M + 1) = 2 ^ (k + 1) * 2 ^ i
    BY <1>2, <1>3, <2>1, <2>2, PowersMultiply
  <2>6. 2 ^ (M + 1) = 2 * ms
    BY <1>2, <1>3, <2>2, PowerDoubles DEF ms
  <2>7. 2 ^ i \in Nat \ {0} /\ 2 ^ j \in Nat \ {0} /\ 2 ^ k \in Nat \ {0} /\ 2 ^ (k + 1) \in Nat \ {0}
    BY <1>2, <1>3, <2>1, <2>2, PowersArePositive
  <2> DEFINE u == 2 ^ i
             v == 2 ^ j
             es == 2 ^ k
             y == 2 ^ (k + 1)
             w == 2 ^ t
             A == a * u
  <2>8. /\ u \in Nat \ {0} /\ v \in Nat \ {0} /\ es \in Nat /\ y \in Nat
        /\ es <= a /\ a < y /\ ms = es * u /\ 2 * ms = y * u /\ w = u * v
    BY <2>3, <2>4, <2>5, <2>6, <2>7
  <2> HIDE DEF u, v, es, y, w, ms
  <2>9. (a - es) * u >= 0 /\ (a - es) * u = A - es * u
    BY <2>8
  <2>10. (y - a) * u > 0 /\ (y - a) * u = y * u - A
    BY <2>8
  <2>11. A \in Nat
    BY <2>8
  <2>12. A - ms \in 0 .. ms - 1 /\ ms + (A - ms) = A
    BY <1>1, <2>8, <2>9, <2>10, <2>11
  <2>13. ASSUME NEW q \in Nat, NEW r \in Nat, NEW s \in Nat PROVE q * (r * s) = (q * r) * s
    OBVIOUS
  <2>14. a * w = (ms + (A - ms)) * v
    BY <2>8, <2>12, <2>13
  <2>15. a * 2 ^ t = (2 ^ M + (A - ms)) * 2 ^ (e - 1)
    BY <2>1, <2>14 DEF w, ms, v
  <2> QED BY <2>1, <2>12, <2>15 DEF n, ms, M
<1> QED BY <1>4, <1>5

(* How much greater the narrow format's unit is. *)
Shift == UnitExponent(Float) - UnitExponent(Double)

LEMMA FloatsFit ==
  /\ Float \in Formats /\ Double \in Formats /\ EnoughPowers(Float) /\ EnoughPowers(Double)
  /\ Powers(Double.mant + 2 ^ Double.exp)
  /\ Float.mant <= Double.mant /\ 2 ^ Float.exp <= 2 ^ Double.exp
  /\ Size(Float) <= Wide
  /\ Shift \in Nat
  /\ Shift + 2 ^ Float.exp <= Double.mant - Float.mant + 2 ^ Double.exp
<1> DEFINE a == Float.exp
           b == Double.exp
           m == Float.mant
           l == Double.mant
           es == 2 ^ a
           y == 2 ^ b
           N == Wide + y
<1>1. Float \in Formats /\ Double \in Formats /\ a <= b /\ m <= l /\ Wide \in Nat /\ Size(Double) = Wide
  BY KeyAssumption DEF Fits
<1>2. a \in Nat \ {0, 1} /\ b \in Nat \ {0, 1} /\ m \in Nat \ {0} /\ l \in Nat \ {0}
  BY <1>1 DEF Formats
<1>3. Size(Float) = 1 + a + m /\ Wide = 1 + b + l
  BY <1>1 DEF Size
<1>4. Powers(Wide) /\ Powers(N)
  BY KeyPowers
<1>5. UnitExponent(Float) = 2 - 2 ^ (a - 1) - m /\ UnitExponent(Double) = 2 - 2 ^ (b - 1) - l
  BY DEF UnitExponent
<1> HIDE DEF a, b, m, l, N
<1>6. /\ a \in 0 .. Wide /\ b \in 0 .. Wide /\ a - 1 \in 0 .. Wide /\ b - 1 \in 0 .. Wide /\ a - 1 <= b - 1
      /\ a \in 1 .. Wide /\ b \in 1 .. Wide
  BY <1>1, <1>2, <1>3
<1>7. 2 ^ (a - 1) \in Nat \ {0} /\ 2 ^ (b - 1) \in Nat \ {0} /\ es \in Nat /\ y \in Nat
  BY <1>1, <1>4, <1>6, PowersArePositive
<1>8. 2 ^ (a - 1) <= 2 ^ (b - 1) /\ es <= y
  BY <1>1, <1>4, <1>6, PowersGrow
<1>9. es = 2 * 2 ^ (a - 1) /\ y = 2 * 2 ^ (b - 1)
  BY <1>1, <1>4, <1>6, PowerDoubles
<1> DEFINE u == 2 ^ (a - 1)
           v == 2 ^ (b - 1)
<1> HIDE DEF es, y, u, v
<1>10. u \in Nat /\ v \in Nat /\ u <= v /\ es = 2 * u /\ y = 2 * v
  BY <1>7, <1>8, <1>9 DEF u, v
<1>11. UnitExponent(Float) = 2 - u - m /\ UnitExponent(Double) = 2 - v - l
  BY <1>5 DEF u, v
<1>12. Shift = (v - u) + (l - m)
  BY <1>2, <1>10, <1>11 DEF Shift
<1>13. Shift \in Nat /\ Shift + es <= (l - m) + y
  BY <1>1, <1>2, <1>10, <1>12
<1>14. Size(Float) \in 0 .. Wide /\ es \in 0 .. N /\ y \in 0 .. N /\ l + y \in 0 .. N
  BY <1>1, <1>2, <1>3, <1>7, <1>8 DEF N
<1>15. ASSUME NEW n \in Nat, NEW i \in 0 .. n, Powers(n) PROVE Powers(i)
  BY <1>15 DEF Powers
<1>16. Powers(Size(Float)) /\ Powers(Size(Double))
  BY <1>1, <1>4, <1>14, <1>15
<1>17. N \in Nat
  BY <1>1, <1>7 DEF N
<1>18. Powers(es) /\ Powers(y) /\ Powers(l + y)
  BY <1>4, <1>14, <1>15, <1>17
<1>19. EnoughPowers(Float) /\ EnoughPowers(Double)
  BY <1>16, <1>18 DEF EnoughPowers, es, y, a, b
<1>20. Powers(Double.mant + 2 ^ Double.exp)
  BY <1>18 DEF l, y, b
<1>21. 2 ^ Float.exp <= 2 ^ Double.exp
  BY <1>8 DEF es, y, a, b
<1>22. Shift + 2 ^ Float.exp <= (Double.mant - Float.mant) + 2 ^ Double.exp
  BY <1>13 DEF es, y, a, b, l, m
<1>23. Float.mant <= Double.mant
  BY <1>1 DEF l, m
<1>24. Size(Float) <= Wide
  BY <1>14
<1> QED BY <1>1, <1>13, <1>19, <1>20, <1>21, <1>22, <1>23, <1>24

(* What the CHOOSE of Widened describes. *)
IsWidened(b, d) ==
  /\ SignBit(Double, d) = SignBit(Float, b)
  /\ Special(Double, d) = Special(Float, b)
  /\ IF Special(Float, b)
     THEN Mantissa(Double, d) = Mantissa(Float, b) * 2 ^ (Double.mant - Float.mant)
     ELSE Magnitude(Double, d) = Magnitude(Float, b) * 2 ^ Shift

(* Every float is a double. *)
LEMMA WidenedExists ==
  ASSUME NEW b \in Patterns(Float)
  PROVE  \E d \in Patterns(Double) : IsWidened(b, d)
<1> DEFINE s == SignBit(Float, b)
<1>1. /\ s \in {0, 1}
      /\ Exponent(Float, b) \in 0 .. 2 ^ Float.exp - 1
      /\ Mantissa(Float, b) \in 0 .. 2 ^ Float.mant - 1
  BY FloatsFit, PatternOf DEF EnoughPowers
<1>2. /\ 2 ^ Float.exp \in Nat /\ 2 ^ Float.exp >= 4 /\ 2 ^ Double.exp \in Nat /\ 2 ^ Double.exp >= 4
      /\ 2 ^ Double.mant \in Nat \ {0} /\ 2 ^ Float.mant \in Nat \ {0}
      /\ Float.mant \in Nat \ {0} /\ Double.mant \in Nat \ {0}
  BY FloatsFit, FormatPowers DEF EnoughPowers
<1>3. ASSUME NEW e \in 0 .. 2 ^ Double.exp - 1, NEW m \in 0 .. 2 ^ Double.mant - 1
      PROVE  /\ Pattern(Double, s, e, m) \in Patterns(Double)
             /\ SignBit(Double, Pattern(Double, s, e, m)) = s
             /\ Exponent(Double, Pattern(Double, s, e, m)) = e
             /\ Mantissa(Double, Pattern(Double, s, e, m)) = m
  BY <1>1, FloatsFit, PatternParts DEF EnoughPowers
<1>4. CASE Special(Float, b)
  <2> DEFINE e == 2 ^ Double.exp - 1
             m == Mantissa(Float, b) * 2 ^ (Double.mant - Float.mant)
             d == Pattern(Double, s, e, m)
  <2>1. e \in 0 .. 2 ^ Double.exp - 1
    BY <1>2
  <2>2. m \in 0 .. 2 ^ Double.mant - 1
    <3> DEFINE l == Float.mant
               i == Double.mant - Float.mant
               N == Double.mant + 2 ^ Double.exp
               o == Mantissa(Float, b)
               ms == 2 ^ l
               q == 2 ^ Double.mant
               u == 2 ^ i
    <3>1. /\ l \in 0 .. N /\ i \in 0 .. N /\ l + i = Double.mant /\ l + i <= N /\ N \in Nat /\ Powers(N)
          /\ o \in 0 .. ms - 1 /\ ms \in Nat
      BY <1>1, <1>2, FloatsFit
    <3> HIDE DEF l, i, N
    <3>2. 2 ^ (l + i) = 2 ^ l * 2 ^ i /\ 2 ^ i \in Nat \ {0}
      BY <3>1, PowersMultiply, PowersArePositive
    <3>3. q = ms * u /\ u \in Nat \ {0}
      BY <3>1, <3>2
    <3> HIDE DEF o, ms, q, u
    <3>4. (ms - 1 - o) * u >= 0 /\ (ms - 1 - o) * u = ms * u - u - o * u /\ o * u >= 0 /\ o * u \in Nat /\ ms * u \in Nat
      BY <3>1, <3>3
    <3>5. o * u \in 0 .. q - 1
      BY <3>3, <3>4
    <3> QED BY <3>5 DEF o, u, q, i
  <2> HIDE DEF m
  <2>3. /\ d \in Patterns(Double) /\ SignBit(Double, d) = s /\ Exponent(Double, d) = e
        /\ Mantissa(Double, d) = m
    BY <1>3, <2>1, <2>2
  <2>4. Special(Double, d)
    BY <2>3 DEF Special
  <2>5. IsWidened(b, d)
    BY <1>4, <2>3, <2>4, Zenon DEF IsWidened, m
  <2> QED BY <2>3, <2>5
<1>5. CASE ~Special(Float, b)
  <2> DEFINE g == Magnitude(Float, b)
  <2>1. \E e \in 0 .. 2 ^ Double.exp - 2, m \in 0 .. 2 ^ Double.mant - 1 :
          g * 2 ^ Shift = IF e = 0 THEN m ELSE (2 ^ Double.mant + m) * 2 ^ (e - 1)
    <3> DEFINE N == Double.mant + 2 ^ Double.exp
    <3>1. /\ N \in Nat /\ Powers(N) /\ Shift \in 0 .. N
          /\ Shift + 2 ^ Float.exp <= (Double.mant - Float.mant) + 2 ^ Double.exp
      BY <1>2, FloatsFit
    <3>2. 2 ^ Shift \in Nat
      <4> HIDE DEF N
      <4> QED BY <3>1, PowersArePositive
    <3>3. CASE g = 0
      <4>1. 0 \in 0 .. 2 ^ Double.exp - 2 /\ 0 \in 0 .. 2 ^ Double.mant - 1
        BY <1>2
      <4>2. g * 2 ^ Shift = 0
        BY <3>2, <3>3
      <4> QED BY <4>1, <4>2
    <3>4. CASE g # 0
      <4>1. PICK k \in 0 .. Float.mant, a \in Nat, i \in 0 .. 2 ^ Float.exp - 3 : Written(g, k, a, i)
        BY <1>5, <3>4, FloatsFit, NumbersAreWritten
      <4> DEFINE t == i + Shift
      <4>2. 2 ^ k <= a /\ a < 2 ^ (k + 1) /\ g = a * 2 ^ i
        BY <4>1 DEF Written
      <4>3. /\ i \in 0 .. N /\ t \in Nat /\ t <= N
            /\ k \in 0 .. Double.mant /\ k + t <= Double.mant + 2 ^ Double.exp - 3
        BY <1>2, <3>1, <4>1, FloatsFit
      <4>4. 2 ^ t = 2 ^ i * 2 ^ Shift /\ 2 ^ i \in Nat
        <5> HIDE DEF N
        <5> QED BY <3>1, <4>3, PowersMultiply, PowersArePositive
      <4>5. ASSUME NEW q \in Nat, NEW r \in Nat, NEW z \in Nat PROVE q * (r * z) = (q * r) * z
        OBVIOUS
      <4>6. a * 2 ^ t = g * 2 ^ Shift
        BY <3>2, <4>1, <4>2, <4>4, <4>5
      <4>7. \E e \in 0 .. 2 ^ Double.exp - 2, m \in 0 .. 2 ^ Double.mant - 1 :
              a * 2 ^ t = IF e = 0 THEN m ELSE (2 ^ Double.mant + m) * 2 ^ (e - 1)
        <5> HIDE DEF t
        <5> QED BY <4>2, <4>3, FloatsFit, Representable
      <4> QED BY <4>6, <4>7
    <3> QED BY <3>3, <3>4
  <2>2. PICK e \in 0 .. 2 ^ Double.exp - 2, m \in 0 .. 2 ^ Double.mant - 1 :
          g * 2 ^ Shift = IF e = 0 THEN m ELSE (2 ^ Double.mant + m) * 2 ^ (e - 1)
    BY <2>1
  <2> DEFINE d == Pattern(Double, s, e, m)
  <2>3. e \in 0 .. 2 ^ Double.exp - 1 /\ e # 2 ^ Double.exp - 1
    BY <1>2
  <2>4. /\ d \in Patterns(Double) /\ SignBit(Double, d) = s /\ Exponent(Double, d) = e
        /\ Mantissa(Double, d) = m
    BY <1>3, <2>3
  <2>5. ~Special(Double, d)
    BY <2>3, <2>4 DEF Special
  <2>6. Magnitude(Double, d) = g * 2 ^ Shift
    <3> HIDE DEF d, g
    <3>1. Magnitude(Double, d) = IF e = 0 THEN m ELSE (2 ^ Double.mant + m) * 2 ^ (e - 1)
      BY <2>4, Zenon DEF Magnitude
    <3> QED BY <2>2, <3>1
  <2>7. IsWidened(b, d)
    <3> HIDE DEF d
    <3>1. Special(Double, d) = Special(Float, b)
      BY <1>5, <2>5 DEF Special
    <3>2. SignBit(Double, d) = SignBit(Float, b)
      BY <2>4
    <3> QED BY <1>5, <2>6, <3>1, <3>2 DEF IsWidened
  <2> QED BY <2>4, <2>7
<1> QED BY <1>4, <1>5

LEMMA WidenedIs ==
  ASSUME NEW b \in Patterns(Float)
  PROVE  /\ Widened(Float, Double, b) \in Patterns(Double)
         /\ IsWidened(b, Widened(Float, Double, b))
<1>1. Widened(Float, Double, b) = CHOOSE d \in Patterns(Double) : IsWidened(b, d)
  BY Zenon DEF Widened, IsWidened, Shift
<1> QED BY <1>1, WidenedExists

LEMMA FloatingKeys ==
  ASSUME NEW key \in Keys, ~IsIntegral(key)
  PROVE  AsDouble(key) \in Patterns(Double)
<1>1. Size(Double) = Wide
  BY KeyAssumption
<1>2. CASE key.type = [kind |-> "float", width |-> Size(Float)]
  <2>1. key.bits \in Patterns(Float)
    BY <1>2, KeyShape DEF Patterns
  <2>2. AsDouble(key) = Widened(Float, Double, key.bits)
    BY <1>2 DEF AsDouble
  <2> QED BY <2>1, <2>2, WidenedIs
<1>3. CASE key.type = [kind |-> "double", width |-> Wide]
  <2>1. key.bits \in Patterns(Double)
    BY <1>1, <1>3, KeyShape DEF Patterns
  <2>2. AsDouble(key) = key.bits
    BY <1>3 DEF AsDouble
  <2> QED BY <2>1, <2>2
<1> QED BY <1>2, <1>3, FloatingShape

(* The two words that stand for more than one pattern. *)
LEMMA CanonicalNaNIs == CanonicalNaN \in Patterns(Double) /\ IsNaN(Double, CanonicalNaN)
<1> DEFINE e == 2 ^ Double.exp - 1
           m == 2 ^ (Double.mant - 1)
           ms == 2 ^ Double.mant
           h == 2 ^ (Double.exp + Double.mant)
<1>1. /\ 2 ^ Double.exp \in Nat /\ 2 ^ Double.exp >= 4 /\ ms \in Nat \ {0} /\ h \in Nat
      /\ Double.mant \in Nat \ {0} /\ Double.exp \in Nat
      /\ Size(Double) \in Nat /\ Size(Double) = 1 + Double.exp + Double.mant
  BY FloatsFit, FormatPowers DEF EnoughPowers, Size
<1>2. m \in Nat \ {0} /\ ms = 2 * m
  <2> DEFINE n == Double.mant
             N == Size(Double)
  <2>1. N \in Nat /\ Powers(N) /\ n \in 1 .. N /\ n - 1 \in 0 .. N
    BY <1>1, FloatsFit DEF EnoughPowers
  <2> HIDE DEF n, N
  <2>2. 2 ^ (n - 1) \in Nat \ {0} /\ 2 ^ n = 2 * 2 ^ (n - 1)
    BY <2>1, PowersArePositive, PowerDoubles
  <2> QED BY <2>2 DEF n
<1>3. e \in 0 .. 2 ^ Double.exp - 1 /\ m \in 0 .. ms - 1 /\ m # 0
  <2> HIDE DEF m, ms
  <2> QED BY <1>1, <1>2
<1>4. 0 \in {0, 1}
  OBVIOUS
<1>5. CanonicalNaN = e * ms + m
  BY DEF CanonicalNaN
<1>6. Pattern(Double, 0, e, m) = 0 * h + (e * ms + m)
  BY DEF Pattern
<1>7. e \in Nat
  BY <1>1
<1> HIDE DEF e, m
<1>8. /\ Pattern(Double, 0, e, m) \in Patterns(Double)
      /\ Exponent(Double, Pattern(Double, 0, e, m)) = e
      /\ Mantissa(Double, Pattern(Double, 0, e, m)) = m
  BY <1>3, <1>4, FloatsFit, PatternParts DEF EnoughPowers
<1> HIDE DEF ms, h
<1>9. Pattern(Double, 0, e, m) = CanonicalNaN
  <2>1. 0 * h = 0
    BY <1>1
  <2>2. e * ms \in Nat
    BY <1>1, <1>7
  <2> QED BY <1>2, <1>5, <1>6, <2>1, <2>2
<1>10. Exponent(Double, CanonicalNaN) = 2 ^ Double.exp - 1 /\ Mantissa(Double, CanonicalNaN) # 0
  BY <1>3, <1>8, <1>9 DEF e
<1> QED BY <1>8, <1>9, <1>10 DEF IsNaN, Special

LEMMA ZeroIs ==
  0 \in Patterns(Double) /\ ~IsNaN(Double, 0) /\ Number(Double, 0) = 0
<1>1. 2 ^ Double.exp \in Nat /\ 2 ^ Double.exp >= 4 /\ 2 ^ Double.mant \in Nat \ {0}
      /\ 2 ^ (Double.exp + Double.mant) \in Nat \ {0}
  BY FloatsFit, FormatPowers DEF EnoughPowers
<1>2. 0 \in 0 .. 2 ^ Double.exp - 1 /\ 0 \in 0 .. 2 ^ Double.mant - 1 /\ 0 \in {0, 1}
  BY <1>1
<1>3. /\ Pattern(Double, 0, 0, 0) \in Patterns(Double)
      /\ Exponent(Double, Pattern(Double, 0, 0, 0)) = 0
      /\ Mantissa(Double, Pattern(Double, 0, 0, 0)) = 0
      /\ SignBit(Double, Pattern(Double, 0, 0, 0)) = 0
  BY <1>2, FloatsFit, PatternParts DEF EnoughPowers
<1>4. Pattern(Double, 0, 0, 0) = 0
  BY <1>1 DEF Pattern
<1>5. Exponent(Double, 0) = 0 /\ Mantissa(Double, 0) = 0 /\ SignBit(Double, 0) = 0 /\ 0 \in Patterns(Double)
  BY <1>3, <1>4
<1>6. Number(Double, 0) = 0
  BY <1>5 DEF Number, Magnitude
<1> QED BY <1>5, <1>6 DEF IsNaN

(* The alternatives of CanonicalDouble exclude each other. *)
LEMMA NaNIsNotZero ==
  ASSUME NEW d \in Patterns(Double), IsNaN(Double, d)
  PROVE  Number(Double, d) # 0
<1> DEFINE e == Exponent(Double, d)
           m == Mantissa(Double, d)
           ms == 2 ^ Double.mant
           u == 2 ^ (e - 1)
           g == Magnitude(Double, d)
<1>1. 2 ^ Double.exp \in Nat /\ 2 ^ Double.exp >= 4 /\ ms \in Nat \ {0} /\ m \in 0 .. ms - 1
  BY FloatsFit, FormatPowers, PatternOf DEF EnoughPowers
<1>2. e = 2 ^ Double.exp - 1
  BY DEF IsNaN, Special
<1>3. e # 0
  BY <1>1, <1>2
<1>4. g \in Nat /\ g = (ms + m) * u /\ u \in Nat \ {0}
  BY <1>3, FloatsFit, MagnitudeIs
<1> HIDE DEF e, m, ms, u, g
<1>5. g # 0
  <2>1. (ms + m) * u > 0
    BY <1>1, <1>4
  <2> QED BY <1>4, <2>1
<1> QED BY <1>4, <1>5 DEF Number, g

(* Each word stands for one number, or for what is none. *)
LEMMA WordsOfFloating ==
  ASSUME NEW d1 \in Patterns(Double), NEW d2 \in Patterns(Double)
  PROVE  (CanonicalDouble(d1) = CanonicalDouble(d2)) <=>
           IF IsNaN(Double, d1) \/ IsNaN(Double, d2)
           THEN IsNaN(Double, d1) /\ IsNaN(Double, d2)
           ELSE Number(Double, d1) = Number(Double, d2)
<1>1. ASSUME NEW d \in Patterns(Double)
      PROVE  /\ CanonicalDouble(d) \in Patterns(Double)
             /\ IsNaN(Double, d) => CanonicalDouble(d) = CanonicalNaN
             /\ ~IsNaN(Double, d) =>
                  /\ ~IsNaN(Double, CanonicalDouble(d))
                  /\ Number(Double, CanonicalDouble(d)) = Number(Double, d)
                  /\ Number(Double, d) = 0 => CanonicalDouble(d) = 0
                  /\ Number(Double, d) # 0 => CanonicalDouble(d) = d
  <2>1. CASE IsNaN(Double, d)
    <3>1. CanonicalDouble(d) = CanonicalNaN
      BY <2>1, NaNIsNotZero DEF CanonicalDouble
    <3> QED BY <2>1, <3>1, CanonicalNaNIs
  <2>2. CASE ~IsNaN(Double, d) /\ Number(Double, d) = 0
    <3>1. CanonicalDouble(d) = 0
      BY <2>2 DEF CanonicalDouble
    <3> QED BY <2>2, <3>1, ZeroIs
  <2>3. CASE ~IsNaN(Double, d) /\ Number(Double, d) # 0
    <3>1. CanonicalDouble(d) = d
      BY <2>3 DEF CanonicalDouble
    <3> QED BY <2>3, <3>1
  <2> QED BY <2>1, <2>2, <2>3
<1>2. CASE IsNaN(Double, d1) /\ IsNaN(Double, d2)
  BY <1>1, <1>2
<1>3. CASE IsNaN(Double, d1) /\ ~IsNaN(Double, d2)
  BY <1>1, <1>3, CanonicalNaNIs
<1>4. CASE ~IsNaN(Double, d1) /\ IsNaN(Double, d2)
  BY <1>1, <1>4, CanonicalNaNIs
<1>5. CASE ~IsNaN(Double, d1) /\ ~IsNaN(Double, d2)
  <2>1. ASSUME CanonicalDouble(d1) = CanonicalDouble(d2) PROVE Number(Double, d1) = Number(Double, d2)
    BY <1>1, <1>5, <2>1
  <2>2. ASSUME Number(Double, d1) = Number(Double, d2) PROVE CanonicalDouble(d1) = CanonicalDouble(d2)
    <3>1. CASE Number(Double, d1) = 0
      BY <1>1, <1>5, <2>2, <3>1
    <3>2. CASE Number(Double, d1) # 0
      BY <2>2, <3>2, FloatsFit, NumberTells
    <3> QED BY <3>1, <3>2
  <2> QED BY <1>5, <2>1, <2>2
<1> QED BY <1>2, <1>3, <1>4, <1>5

LEMMA WordsTell ==
  ASSUME NEW k1 \in Keys, NEW k2 \in Keys, IsIntegral(k1) = IsIntegral(k2)
  PROVE  (_canonicalize(k1) = _canonicalize(k2)) <=> SameMeaning(k1, k2)
<1>1. CASE IsIntegral(k1)
  <2> DEFINE z1 == AsSigned(k1.bits, k1.type.width)
             z2 == AsSigned(k2.bits, k2.type.width)
             big == 2 ^ Wide
             top == 2 ^ (Wide - 1)
  <2>1. IsIntegral(k2)
    BY <1>1
  <2>2. /\ z1 \in Int /\ - top <= z1 /\ z1 < top
        /\ z2 \in Int /\ - top <= z2 /\ z2 < top
        /\ _canonicalize(k1) = z1 % big /\ _canonicalize(k2) = z2 % big
    BY <1>1, <2>1, IntegralWord DEF _canonicalize, BitCast
  <2>3. SameMeaning(k1, k2) <=> z1 = z2
    BY <1>1 DEF SameMeaning
  <2>4. big \in Nat \ {0} /\ top \in Nat \ {0} /\ big = 2 * top
    <3>1. Wide \in 1 .. Wide
      BY KeyAssumption
    <3> QED BY <3>1, WidthPowers
  <2> HIDE DEF z1, z2, big, top
  <2>5. - big <= z1 /\ z1 < big /\ - big <= z2 /\ z2 < big
    BY <2>2, <2>4
  <2>6. z1 % big = (IF z1 >= 0 THEN z1 ELSE z1 + big) /\ z2 % big = (IF z2 >= 0 THEN z2 ELSE z2 + big)
    BY <2>2, <2>4, <2>5, ResidueOfSigned
  <2>7. (z1 % big = z2 % big) <=> z1 = z2
    BY <2>2, <2>4, <2>6
  <2> QED BY <2>2, <2>3, <2>7
<1>2. CASE ~IsIntegral(k1)
  <2>1. ~IsIntegral(k2)
    BY <1>2
  <2>2. AsDouble(k1) \in Patterns(Double) /\ AsDouble(k2) \in Patterns(Double)
    BY <1>2, <2>1, FloatingKeys
  <2>3. _canonicalize(k1) = CanonicalDouble(AsDouble(k1)) /\ _canonicalize(k2) = CanonicalDouble(AsDouble(k2))
    BY <1>2, <2>1 DEF _canonicalize
  <2>4. SameMeaning(k1, k2) <=>
          IF IsNaN(Double, AsDouble(k1)) \/ IsNaN(Double, AsDouble(k2))
          THEN IsNaN(Double, AsDouble(k1)) /\ IsNaN(Double, AsDouble(k2))
          ELSE Number(Double, AsDouble(k1)) = Number(Double, AsDouble(k2))
    BY <1>2 DEF SameMeaning
  <2> QED BY <2>2, <2>3, <2>4, WordsOfFloating
<1> QED BY <1>1, <1>2

(* A key is counted once however it is written, and keys of one kind that      *)
(* differ are told apart, whatever the widths and the formats are.             *)
THEOREM KeysCountOnce == KeysSpec => []CountedOnce
<1>1. SeenAreKeys => CountedOnce
  BY WordsTell DEF SeenAreKeys, CountedOnce
<1> QED BY <1>1, OnlyKeysAreSeen, PTL

-----------------------------------------------------------------------------
(* Sampling probabilities.                                                 *)

(* The scale of an argument, in digits. *)
Digits == - UnitExponent(Given)

(* Powers are known up to here. *)
Known == Size(Given) + 2 ^ Given.exp

LEMMA SamplingSizes ==
  /\ Given \in Formats /\ EnoughPowers(Given)
  /\ Exact.mant \in Nat \ {0} /\ Given.mant \in Nat \ {0} /\ Given.mant <= Exact.mant
  /\ Width \in Nat /\ Exact.mant + 1 < Width /\ Digits \in Nat /\ Width <= Digits
  /\ 2 ^ Given.exp \in Nat /\ 2 ^ Given.exp >= 4
  /\ Known \in Nat /\ Powers(Known) /\ Digits <= Known /\ Given.mant + 2 ^ Given.exp <= Known
  /\ Digits <= (Given.mant + 2 ^ Given.exp) - 2
<1> DEFINE a == Given.exp
           m == Given.mant
           hi == 2 ^ a
           n == Size(Given)
           N == n + hi
           u == 2 ^ (a - 1)
<1>1. /\ Given \in Formats /\ Exact \in Formats /\ m <= Exact.mant
      /\ Width \in Nat /\ Width > Exact.mant + 1 /\ Width <= Digits
  BY SamplingAssumption DEF Fits, Digits
<1>2. a \in Nat \ {0, 1} /\ m \in Nat \ {0} /\ Exact.mant \in Nat \ {0} /\ n = 1 + a + m
  BY <1>1 DEF Formats, Size
<1>3. Powers(n) /\ Powers(N)
  BY SamplingPowers
<1>4. Digits = -(2 - u - m)
  BY DEF UnitExponent, Digits
<1>5. hi >= 4
  BY <1>1, <1>3, FormatPowers
<1> HIDE DEF a, m, n, N
<1>6. n \in Nat /\ a \in 0 .. n /\ a \in 1 .. n /\ a - 1 \in 0 .. n
  BY <1>2
<1>7. hi \in Nat \ {0} /\ u \in Nat \ {0} /\ hi = 2 * u
  BY <1>3, <1>6, PowersArePositive, PowerDoubles
<1> HIDE DEF hi, u
<1>8. N \in Nat /\ N = n + hi /\ Digits \in Nat /\ Digits = u + m - 2 /\ Digits <= N /\ m + hi <= N /\ Digits <= (m + hi) - 2 /\ hi \in 0 .. N
  BY <1>1, <1>2, <1>4, <1>5, <1>6, <1>7 DEF N
<1>9. Powers(hi)
  BY <1>3, <1>8 DEF Powers
<1>10. EnoughPowers(Given)
  BY <1>3, <1>9 DEF EnoughPowers, n, hi, a
<1>11. N = Known
  BY DEF N, n, hi, a, Known
<1> QED BY <1>1, <1>2, <1>3, <1>5, <1>7, <1>8, <1>10, <1>11 DEF m, hi, a

(* What is in excess of a double's mantissa, by the leading bit. *)
LEMMA ExcessIs ==
  ASSUME NEW n \in Nat, n < 2 ^ Width, NEW k \in 0 .. Width - 1, 2 ^ k <= n, n < 2 ^ (k + 1)
  PROVE  Excess(n) = IF k < Exact.mant THEN 0 ELSE k - Exact.mant
<1> DEFINE M == Exact.mant
           C == {c \in M .. Width : 2 ^ c <= n}
           T == {0} \union {b - M : b \in C}
           z == IF k < M THEN 0 ELSE k - M
<1>1. /\ M \in Nat /\ Width \in Nat /\ Powers(Known) /\ Known \in Nat /\ Width <= Known
      /\ k \in 0 .. Width - 1 /\ Width - 1 <= Known
  BY SamplingSizes
<1>2. Excess(n) = CHOOSE i \in T : \A j \in T : i >= j
  BY DEF Excess, Max
<1>3. ASSUME NEW c \in C PROVE c \in M .. Width /\ c <= k
  <2>1. c \in M .. Width /\ 2 ^ c <= n
    OBVIOUS
  <2> SUFFICES ASSUME c > k PROVE FALSE
    BY <1>1, <2>1
  <2>2. c \in 0 .. Known /\ k + 1 \in 0 .. Known /\ k + 1 <= c
    BY <1>1, <2>1
  <2>3. 2 ^ (k + 1) <= 2 ^ c /\ 2 ^ (k + 1) \in Nat /\ 2 ^ c \in Nat
    BY <1>1, <2>2, PowersGrow, PowersArePositive
  <2> QED BY <2>1, <2>3
<1>4. k >= M => k \in C
  BY <1>1
<1> HIDE DEF C, M
<1>5. z \in T /\ z \in Int
  BY <1>1, <1>4
<1>6. ASSUME NEW j \in T PROVE j \in Int /\ z >= j
  <2>1. CASE j = 0
    BY <1>1, <2>1
  <2>2. CASE j # 0
    <3>1. PICK c \in C : j = c - M
      BY <2>2
    <3> QED BY <1>1, <1>3, <3>1
  <2> QED BY <2>1, <2>2
<1> HIDE DEF T, z
<1>7. \A i \in T : (\A j \in T : i >= j) => i = z
  BY <1>5, <1>6
<1>8. Excess(n) = z
  BY <1>2, <1>5, <1>6, <1>7
<1> QED BY <1>8 DEF z, M

(* Doubles that need no rounding, and the one that does. *)
LEMMA RoundedStays ==
  ASSUME NEW n \in Nat, NEW q \in Nat, NEW s \in Nat \ {0}, s = 2 ^ Excess(n), n = q * s
  PROVE  Rounded(n) = n
<1>1. 0 \in 0 .. s - 1 /\ n = q * s + 0 /\ q \in Int
  OBVIOUS
<1>2. n \div s = q /\ n % s = 0
  BY <1>1, DivisionIs
<1>3. Rounded(n) = IF 2 * 0 > s \/ (2 * 0 = s /\ q % 2 = 1) THEN (q + 1) * s ELSE q * s
  BY <1>2 DEF Rounded
<1>4. ~(2 * 0 > s) /\ 2 * 0 # s
  OBVIOUS
<1> QED BY <1>3, <1>4

LEMMA MaxThetaRounds == Rounded(max_theta) = 2 ^ Width /\ max_theta \in Nat \ {0} /\ 2 ^ Width \in Nat \ {0}
<1> DEFINE M == Exact.mant
           k == Width - 1
           i == k - M
           s == 2 ^ i
           h == 2 ^ (M + 1)
           w == 2 ^ Width
           n == max_theta
<1>1. M \in Nat /\ Width \in Nat /\ M + 1 < Width /\ Powers(Known) /\ Known \in Nat /\ Width <= Known
  BY SamplingSizes
<1>2. /\ k \in 0 .. Known /\ k \in 0 .. Width - 1 /\ k + 1 = Width /\ Width \in 1 .. Known
      /\ i \in 1 .. Known /\ i \in 0 .. Known /\ M + 1 \in 0 .. Known /\ (M + 1) + i = Width
      /\ M + 1 \in 1 .. Known /\ (M + 1) + i <= Known /\ ~(k < M) /\ Width \in 0 .. Known
      /\ i - 1 \in 0 .. Known
  BY <1>1
<1>3. w \in Nat \ {0} /\ 2 ^ k \in Nat \ {0} /\ w = 2 * 2 ^ k
  BY <1>1, <1>2, PowersArePositive, PowerDoubles
<1>4. n = w - 1
  BY DEF max_theta
<1>5. w = h * s
  <2> HIDE DEF i, M
  <2> QED BY <1>1, <1>2, PowersMultiply
<1>6. s \in Nat \ {0} /\ s = 2 * 2 ^ (i - 1) /\ 2 ^ (i - 1) \in Nat \ {0}
  <2> HIDE DEF i
  <2> QED BY <1>1, <1>2, PowersArePositive, PowerDoubles
<1>7. h \in Nat \ {0} /\ h = 2 * 2 ^ M /\ 2 ^ M \in Nat
  <2>1. M \in 0 .. Known /\ (M + 1) - 1 = M
    BY <1>1
  <2> HIDE DEF M
  <2> QED BY <1>1, <1>2, <2>1, PowersArePositive, PowerDoubles
<1>8. Excess(n) = i
  <2>1. n \in Nat /\ n < w /\ 2 ^ k <= n /\ n < 2 ^ (k + 1)
    BY <1>2, <1>3, <1>4
  <2> HIDE DEF n, k
  <2> QED BY <1>2, <2>1, ExcessIs DEF k
<1> DEFINE j == 2 ^ (i - 1)
           g == 2 ^ M
<1>9. s = 2 ^ Excess(n)
  BY <1>8
<1> HIDE DEF h, s, w, j, g, n, i
<1>10. n = (h - 1) * s + (s - 1) /\ s - 1 \in 0 .. s - 1 /\ h - 1 \in Int /\ n \in Nat
  BY <1>3, <1>4, <1>5, <1>6, <1>7
<1>11. n \div s = h - 1 /\ n % s = s - 1
  BY <1>6, <1>10, DivisionIs
<1>12. 2 * (s - 1) > s \/ (2 * (s - 1) = s /\ (h - 1) % 2 = 1)
  <2>1. s = 2 * j /\ j \in Nat \ {0} /\ h = 2 * g /\ g \in Nat \ {0}
    BY <1>6, <1>7 DEF j, g
  <2>2. CASE j = 1
    <3>1. (2 * g - 1) % 2 = 1
      BY <2>1
    <3> QED BY <2>1, <2>2, <3>1
  <2>3. CASE j # 1
    BY <2>1, <2>3
  <2> QED BY <2>2, <2>3
<1>13. Rounded(n) = ((h - 1) + 1) * s
  BY <1>9, <1>11, <1>12 DEF Rounded
<1>14. Rounded(n) = w
  BY <1>5, <1>7, <1>13
<1>15. n \in Nat \ {0}
  <2>1. 2 ^ k \in Nat \ {0} /\ w = 2 * 2 ^ k
    BY <1>3
  <2> QED BY <1>4, <2>1
<1> QED BY <1>3, <1>14, <1>15 DEF n, w

(* A sketch's threshold comes from its argument. *)
SamplingInv ==
  /\ p \in Patterns(Given)
  /\ phase = "returned" => theta = checked_theta

LEMMA AlwaysSamplingInv == SamplingSpec => []SamplingInv
<1>1. SamplingInit => SamplingInv
  BY DEF SamplingInit, SamplingInv
<1>2. SamplingInv /\ [Construct]_samplingVars => SamplingInv'
  <2> SUFFICES ASSUME SamplingInv, [Construct]_samplingVars PROVE SamplingInv'
    OBVIOUS
  <2>1. CASE UNCHANGED samplingVars
    BY <2>1 DEF SamplingInv, samplingVars, checked_theta, SampledTheta, Positive, AtMostOne, BelowOne, Parts
  <2>2. CASE Construct
    <3>1. p' = p /\ theta' = checked_theta
      BY <2>2 DEF Construct
    <3>2. checked_theta' = checked_theta
      BY <3>1 DEF checked_theta, SampledTheta, Positive, AtMostOne, BelowOne, Parts
    <3> QED BY <3>1, <3>2 DEF SamplingInv
  <2> QED BY <2>1, <2>2
<1> QED BY <1>1, <1>2, PTL DEF SamplingSpec

LEMMA ArgumentIs ==
  ASSUME SamplingInv
  PROVE  /\ Parts \in Int /\ Scale \in Nat \ {0} /\ Scale = 2 ^ Digits
         /\ Parts > 0 => Parts = Magnitude(Given, p)
         /\ Magnitude(Given, p) \in Nat
<1>1. Magnitude(Given, p) \in Nat
  BY SamplingSizes, MagnitudeIs DEF SamplingInv
<1>2. Scale = 2 ^ Digits
  BY DEF Scale, Digits
<1>3. Scale \in Nat \ {0}
  <2>1. Powers(Known) /\ Known \in Nat /\ Digits \in 0 .. Known
    BY SamplingSizes
  <2> QED BY <1>2, <2>1, PowersArePositive
<1>4. Parts = Magnitude(Given, p) \/ Parts = -Magnitude(Given, p)
  BY DEF Parts, Number
<1> QED BY <1>1, <1>2, <1>3, <1>4

(* What the constructor makes of a probability below one, and of one. *)
LEMMA CheckedIs ==
  ASSUME SamplingInv
  PROVE  /\ checked_theta # Rejected =>
              /\ ~IsNaN(Given, p) /\ Parts > 0 /\ Parts <= Scale
              /\ checked_theta = SampledTheta /\ SampledTheta # 0
              /\ Parts < Scale => SampledTheta = (2 ^ Width * Parts) \div Scale
              /\ Parts = Scale => SampledTheta = max_theta
         /\ checked_theta # Rejected <=>
              ~IsNaN(Given, p) /\ Scale <= Parts * 2 ^ Width /\ Parts <= Scale
<1> DEFINE a == Parts
           w == 2 ^ Width
           c == Scale
           t == SampledTheta
<1>1. a \in Int /\ c \in Nat \ {0} /\ w \in Nat \ {0} /\ max_theta \in Nat \ {0}
  BY ArgumentIs, MaxThetaRounds
<1>2. Positive /\ BelowOne => t = (w * a) \div c
  BY MaxThetaRounds DEF SampledTheta
<1>3. ~(Positive /\ BelowOne) => t = max_theta
  BY DEF SampledTheta
<1>4. /\ Positive <=> ~IsNaN(Given, p) /\ a > 0
      /\ AtMostOne <=> ~IsNaN(Given, p) /\ a <= c
      /\ BelowOne <=> ~IsNaN(Given, p) /\ a < c
  BY DEF Positive, AtMostOne, BelowOne
<1>5. checked_theta = IF ~(Positive /\ AtMostOne) \/ t = 0 THEN Rejected ELSE t
  BY DEF checked_theta
<1> HIDE DEF a, w, c, t
<1>6. ASSUME a > 0, a < c PROVE (w * a) \div c \in Nat /\ ((w * a) \div c = 0 <=> w * a < c)
  <2>1. w * a \in Nat
    BY <1>1, <1>6
  <2> DEFINE n == w * a
             q == n \div c
             r == n % c
  <2>2. q \in Nat /\ r \in 0 .. c - 1 /\ n = q * c + r
    <3>1. n \in Nat
      BY <2>1
    <3> HIDE DEF n
    <3> QED BY <1>1, <3>1, Division
  <2> HIDE DEF n, q, r
  <2>3. n < c <=> q = 0
    <3>1. CASE q = 0
      BY <1>1, <2>2, <3>1
    <3>2. CASE q # 0
      <4>1. (q - 1) * c >= 0 /\ (q - 1) * c = q * c - c
        BY <1>1, <2>2, <3>2
      <4> QED BY <1>1, <2>2, <3>2, <4>1
    <3> QED BY <3>1, <3>2
  <2> QED BY <2>2, <2>3 DEF n, q
<1>7. w * a = a * w
  BY <1>1
<1>8. CASE IsNaN(Given, p) \/ a <= 0
  <2>1. checked_theta = Rejected
    BY <1>1, <1>4, <1>5, <1>8
  <2>2. ASSUME a <= 0 PROVE ~(c <= a * w)
    <3>1. (-a) * w >= 0 /\ (-a) * w = -(a * w)
      BY <1>1, <2>2
    <3> QED BY <1>1, <3>1
  <2> QED BY <1>8, <2>1, <2>2 DEF a, w, c
<1>9. CASE ~IsNaN(Given, p) /\ a > 0 /\ a < c
  <2>1. t = (w * a) \div c /\ Positive /\ AtMostOne
    BY <1>1, <1>2, <1>4, <1>9
  <2>2. t \in Nat /\ (t = 0 <=> a * w < c)
    BY <1>6, <1>7, <1>9, <2>1
  <2>3. checked_theta = IF t = 0 THEN Rejected ELSE t
    BY <1>5, <2>1
  <2>4. a * w \in Int
    BY <1>1
  <2>5. checked_theta # Rejected <=> c <= a * w
    BY <1>1, <2>2, <2>3, <2>4 DEF Rejected
  <2>6. a <= c /\ a # c
    BY <1>1, <1>9
  <2> QED BY <1>9, <2>1, <2>3, <2>5, <2>6 DEF a, w, c, t
<1>10. CASE ~IsNaN(Given, p) /\ a = c
  <2>1. a > 0 /\ ~(a < c) /\ a <= c
    BY <1>1, <1>10
  <2>2. t = max_theta /\ Positive /\ AtMostOne
    BY <1>3, <1>4, <1>10, <2>1
  <2>3. checked_theta = t /\ t # 0 /\ t # Rejected
    BY <1>1, <1>5, <2>2 DEF Rejected
  <2>4. c <= a * w
    <3>1. c * (w - 1) >= 0 /\ c * (w - 1) = c * w - c
      BY <1>1
    <3> QED BY <1>1, <1>10, <3>1
  <2> QED BY <1>10, <2>1, <2>2, <2>3, <2>4 DEF a, w, c, t
<1>11. CASE ~IsNaN(Given, p) /\ a > c
  <2>1. ~(a <= c)
    BY <1>1, <1>11
  <2>2. checked_theta = Rejected
    BY <1>4, <1>5, <2>1
  <2> QED BY <1>11, <2>1, <2>2 DEF a, w, c
<1> QED BY <1>1, <1>8, <1>9, <1>10, <1>11

(* The constructor accepts the probabilities its documentation says, for every *)
(* width of a threshold and every pair of formats.                             *)
THEOREM DocumentedRange == SamplingSpec => []AcceptsDocumentedRange
<1>1. SamplingInv => AcceptsDocumentedRange
  <2> SUFFICES ASSUME SamplingInv, phase = "returned"
               PROVE  theta # Rejected <=> ~IsNaN(Given, p) /\ Scale <= Parts * 2 ^ Width /\ Parts <= Scale
    BY DEF AcceptsDocumentedRange
  <2>1. theta = checked_theta
    BY DEF SamplingInv
  <2> QED BY <2>1, CheckedIs
<1> QED BY <1>1, AlwaysSamplingInv, PTL

(* An infinity is no probability. *)
LEMMA BelowOneIsFinite ==
  ASSUME SamplingInv, Parts > 0, Parts < Scale
  PROVE  ~Special(Given, p)
<1> SUFFICES ASSUME Special(Given, p) PROVE FALSE
  OBVIOUS
<1> DEFINE e == Exponent(Given, p)
           m == Mantissa(Given, p)
           n == 2 ^ Given.exp
           l == Given.mant
           b == 2 ^ l
           u == 2 ^ (e - 1)
           g == Magnitude(Given, p)
           i == e - 1
<1>1. /\ Known \in Nat /\ Powers(Known) /\ n \in Nat /\ n >= 4 /\ l \in Nat /\ l + n <= Known
      /\ Digits \in Nat /\ Digits <= (l + n) - 2 /\ Digits <= Known
  BY SamplingSizes
<1>2. e = n - 1 /\ m \in Nat
  <2>1. m \in 0 .. 2 ^ Given.mant - 1 /\ 2 ^ Given.mant \in Nat
    BY SamplingSizes, PatternOf, FormatPowers DEF EnoughPowers, SamplingInv
  <2> QED BY <2>1 DEF Special
<1>3. e # 0 /\ i = n - 2
  BY <1>1, <1>2
<1>4. g = (b + m) * u /\ u \in Nat \ {0} /\ g \in Nat
  BY <1>3, SamplingSizes, MagnitudeIs DEF SamplingInv
<1>5. g < 2 ^ Digits
  BY ArgumentIs
<1> HIDE DEF e, m, n, l, g, i
<1>6. l \in 0 .. Known /\ i \in 0 .. Known /\ l + i <= Known /\ l + i \in 0 .. Known /\ Digits \in 0 .. Known /\ Digits <= l + i
  BY <1>1, <1>3
<1>7. 2 ^ (l + i) = 2 ^ l * 2 ^ i /\ 2 ^ Digits <= 2 ^ (l + i) /\ 2 ^ Digits \in Nat /\ b \in Nat
  BY <1>1, <1>6, PowersMultiply, PowersGrow, PowersArePositive
<1>8. u = 2 ^ i
  BY DEF i
<1> HIDE DEF b, u
<1>9. 2 ^ Digits <= b * u
  BY <1>7, <1>8 DEF b
<1>10. m * u >= 0 /\ (b + m) * u = b * u + m * u /\ m * u \in Nat /\ b * u \in Nat
  BY <1>2, <1>4, <1>7
<1> QED BY <1>4, <1>5, <1>7, <1>9, <1>10

(* A number b * 2^s has quotient t by 2^d, and remainder r. *)
Divided(b, s, d, t, r) == r \in 0 .. 2 ^ d - 1 /\ b * 2 ^ s = t * 2 ^ d + r

(* A threshold has no more bits than the probability that it is made of. *)
LEMMA ThresholdStays ==
  ASSUME NEW d \in Nat, NEW k \in 0 .. Exact.mant, NEW b \in Nat, NEW s \in Nat,
         d <= Known, k + s + 1 <= Known, 2 ^ k <= b, b < 2 ^ (k + 1),
         NEW t \in Nat, NEW r, Divided(b, s, d, t, r), t # 0, t < 2 ^ Width
  PROVE  Rounded(t) = t
<1> DEFINE M == Exact.mant
           R == 2 ^ d
           v == 2 ^ s
           w == 2 ^ Width
<1>1. /\ Known \in Nat /\ Powers(Known) /\ M \in Nat /\ Width \in Nat /\ M + 1 < Width /\ Width <= Known
  BY SamplingSizes
<1>2. d \in 0 .. Known /\ s \in 0 .. Known /\ k \in 0 .. M /\ k \in 0 .. Known /\ k + 1 \in 0 .. Known
  BY <1>1
<1>3. R \in Nat \ {0} /\ v \in Nat \ {0} /\ w \in Nat \ {0} /\ 2 ^ k \in Nat \ {0} /\ 2 ^ (k + 1) \in Nat \ {0}
  <2>1. Width \in 0 .. Known
    BY <1>1
  <2> QED BY <1>1, <1>2, <2>1, PowersArePositive
<1>4. b * v = t * R + r /\ r \in 0 .. R - 1 /\ t < w
  BY DEF Divided
<1>5. ASSUME NEW lo \in Nat, NEW hi \in Nat, NEW z \in Nat PROVE lo * (hi * z) = (lo * hi) * z
  OBVIOUS
<1> HIDE DEF M
<1>6. CASE d <= s
  <2> DEFINE i == s - d
             c == k + i
             e == IF c < M THEN 0 ELSE c - M
             j == i - e
             o == 2 ^ i
  <2>1. /\ i \in 0 .. Known /\ d + i = s /\ d + i <= Known /\ c \in 0 .. Known /\ c + 1 \in 0 .. Known
        /\ k + i <= Known /\ (k + 1) + i <= Known /\ (k + 1) + i = c + 1
        /\ e \in 0 .. Known /\ j \in 0 .. Known /\ j + e = i /\ j + e <= Known
    BY <1>1, <1>2, <1>6
  <2> HIDE DEF i, c, e, j
  <2>2. v = R * o /\ o \in Nat \ {0}
    <3>1. 2 ^ (d + i) = 2 ^ d * 2 ^ i
      BY <1>1, <1>2, <2>1, PowersMultiply
    <3>2. o \in Nat \ {0}
      BY <1>1, <2>1, PowersArePositive
    <3> QED BY <2>1, <3>1, <3>2
  <2>3. 2 ^ (k + i) = 2 ^ k * o /\ 2 ^ ((k + 1) + i) = 2 ^ (k + 1) * o
    <3>1. 2 ^ (k + i) = 2 ^ k * o
      BY <1>1, <1>2, <2>1, PowersMultiply
    <3>2. 2 ^ ((k + 1) + i) = 2 ^ (k + 1) * o
      BY <1>1, <1>2, <2>1, PowersMultiply
    <3> QED BY <3>1, <3>2
  <2>4. 2 ^ i = 2 ^ j * 2 ^ e /\ 2 ^ j \in Nat \ {0} /\ 2 ^ e \in Nat \ {0}
    <3>1. 2 ^ (j + e) = 2 ^ j * 2 ^ e
      BY <1>1, <2>1, PowersMultiply
    <3>2. 2 ^ j \in Nat \ {0} /\ 2 ^ e \in Nat \ {0}
      BY <1>1, <2>1, PowersArePositive
    <3> QED BY <2>1, <3>1, <3>2
  <2> DEFINE lo == 2 ^ k
             hi == 2 ^ (k + 1)
             f == 2 ^ j
             h == 2 ^ e
  <2>5. /\ lo \in Nat /\ hi \in Nat /\ lo <= b /\ b < hi /\ o = f * h /\ f \in Nat /\ h \in Nat \ {0}
    BY <1>3, <2>4
  <2>6. k + i = c /\ 2 ^ c = lo * o /\ 2 ^ (c + 1) = hi * o
    <3>1. k + i = c
      BY DEF c
    <3> QED BY <2>1, <2>3, <3>1
  <2> HIDE DEF R, v, o, lo, hi, f, h, w
  <2>7. t = b * o
    <3>1. b * v = (b * o) * R + 0
      <4>1. R * o = o * R
        BY <1>3, <2>2
      <4> QED BY <1>3, <1>5, <2>2, <4>1
    <3> DEFINE q == b * o
               n == b * v
    <3>2. q \in Nat /\ n \in Nat /\ n = q * R + 0 /\ n = t * R + r /\ 0 \in 0 .. R - 1
      BY <1>3, <1>4, <2>2, <3>1
    <3> HIDE DEF q, n
    <3>3. R \in Nat \ {0} /\ q \in Int /\ t \in Int /\ r \in 0 .. R - 1
      BY <1>3, <1>4, <3>2
    <3>4. n \div R = q
      BY <3>2, <3>3, DivisionIs
    <3>5. n \div R = t
      BY <3>2, <3>3, DivisionIs
    <3> QED BY <3>4, <3>5 DEF q
  <2>8. lo * o <= t /\ t < hi * o /\ lo * o \in Nat
    <3>1. (b - lo) * o >= 0 /\ (b - lo) * o = b * o - lo * o
      BY <2>2, <2>5
    <3>2. (hi - b) * o > 0 /\ (hi - b) * o = hi * o - b * o
      BY <2>2, <2>5
    <3> QED BY <2>2, <2>5, <2>7, <3>1, <3>2
  <2>9. c < Width
    <3> SUFFICES ASSUME Width <= c PROVE FALSE
      BY <1>1, <2>1
    <3>1. Width \in 0 .. Known
      BY <1>1
    <3>2. 2 ^ Width <= 2 ^ c
      BY <1>1, <2>1, <3>1, PowersGrow
    <3> QED BY <1>3, <1>4, <2>6, <2>8, <3>2 DEF w
  <2>10. Excess(t) = e
    <3>1. c \in 0 .. Width - 1 /\ 2 ^ c <= t /\ t < 2 ^ (c + 1) /\ t < 2 ^ Width
      BY <1>1, <1>4, <2>1, <2>6, <2>8, <2>9 DEF w
    <3> QED BY <3>1, ExcessIs DEF e, M
  <2>11. t = (b * f) * h /\ b * f \in Nat
    BY <1>5, <2>5, <2>7
  <2>12. h = 2 ^ Excess(t)
    BY <2>10 DEF h
  <2> DEFINE q == b * f
  <2>13. t = q * h /\ q \in Nat
    BY <2>11
  <2> HIDE DEF q
  <2> QED BY <2>5, <2>12, <2>13, RoundedStays
<1>7. CASE s < d
  <2>1. v <= R
    BY <1>1, <1>2, <1>7, PowersGrow
  <2>2. t <= b
    <3> HIDE DEF v, R
    <3> SUFFICES ASSUME b < t PROVE FALSE
      OBVIOUS
    <3>1. (t - b) * v > 0 /\ (t - b) * v = t * v - b * v
      BY <1>3
    <3>2. t * v <= t * R /\ t * v \in Nat /\ t * R \in Nat
      BY <1>3, <2>1, ProductGrows
    <3>3. b * v \in Nat
      BY <1>3
    <3> QED BY <1>3, <1>4, <3>1, <3>2, <3>3
  <2>3. Powers(Width)
    <3>1. 0 .. Width - 1 \subseteq 0 .. Known - 1
      BY <1>1
    <3> QED BY <1>1, <3>1 DEF Powers
  <2>4. PICK c \in 0 .. Width - 1 : 2 ^ c <= t /\ t < 2 ^ (c + 1)
    BY <1>1, <1>4, <2>3, LeadingBit
  <2>5. c <= M
    <3> SUFFICES ASSUME M < c PROVE FALSE
      BY <1>1
    <3>1. k + 1 <= c /\ c \in 0 .. Known
      BY <1>1, <1>2
    <3>2. 2 ^ (k + 1) <= 2 ^ c /\ 2 ^ c \in Nat
      BY <1>1, <1>2, <3>1, PowersGrow, PowersArePositive
    <3> QED BY <1>3, <2>2, <2>4, <3>2
  <2>6. Excess(t) = 0
    <3>1. Excess(t) = IF c < M THEN 0 ELSE c - M
      BY <1>4, <2>4, ExcessIs DEF M
    <3> QED BY <1>1, <2>5, <3>1
  <2>7. 1 = 2 ^ Excess(t)
    BY <1>1, <2>6 DEF Powers
  <2>8. t = t * 1 /\ 1 \in Nat \ {0}
    OBVIOUS
  <2> QED BY <2>7, <2>8, RoundedStays
<1> QED BY <1>2, <1>6, <1>7

(* The threshold of a probability below one, and the probability reported.    *)
LEMMA ReportedBelowOne ==
  ASSUME SamplingInv, Parts > 0, Parts < Scale, NEW t,
         t = (2 ^ Width * Parts) \div Scale, t # 0
  PROVE  LET got == (Scale * Rounded(t)) \div Rounded(max_theta) IN
         /\ got <= Parts
         /\ (Parts - got) * 2 ^ Width < Scale
         /\ (Parts * 2 ^ Width) % Scale = 0 => got = Parts
<1> DEFINE a == Parts
           c == Scale
           w == 2 ^ Width
           d == Digits - Width
           R == 2 ^ d
           q == a \div R
           r == a % R
           got == (c * Rounded(t)) \div w
<1>1. /\ Known \in Nat /\ Powers(Known) /\ Width \in Nat /\ Digits \in Nat /\ Width <= Digits /\ Digits <= Known
      /\ Given.mant \in Nat /\ Given.mant <= Exact.mant /\ Exact.mant \in Nat
      /\ 2 ^ Given.exp \in Nat /\ Given.mant + 2 ^ Given.exp <= Known
  BY SamplingSizes
<1>2. d \in 0 .. Known /\ d \in Nat /\ Width \in 0 .. Known /\ d + Width = Digits /\ d + Width <= Known
  BY <1>1
<1>3. a \in Nat \ {0} /\ c \in Nat \ {0} /\ a < c /\ c = 2 ^ Digits /\ Parts = Magnitude(Given, p)
  BY ArgumentIs
<1> HIDE DEF d
<1>4. c = R * w /\ R \in Nat \ {0} /\ w \in Nat \ {0}
  BY <1>1, <1>2, <1>3, PowersMultiply, PowersArePositive
<1>5. t = (w * a) \div c
  OBVIOUS
<1> HIDE DEF a, c, w, R
<1>6. q \in Nat /\ r \in 0 .. R - 1 /\ a = q * R + r
  BY <1>3, <1>4, Division
<1> HIDE DEF q, r
<1>7. w * r \in 0 .. c - 1
  <2>1. w * (R - 1 - r) >= 0 /\ w * (R - 1 - r) = w * R - w - w * r /\ w * r >= 0 /\ w * R = R * w
    BY <1>4, <1>6
  <2>2. w * r \in Nat /\ w * R \in Nat
    BY <1>4, <1>6
  <2> QED BY <1>3, <1>4, <2>1, <2>2
<1>8. w * a = q * c + w * r
  <2>1. ASSUME NEW lo \in Nat, NEW hi \in Nat, NEW z \in Nat, NEW i \in Nat
        PROVE  z * (lo * hi + i) = lo * (hi * z) + z * i
    OBVIOUS
  <2> QED BY <1>4, <1>6, <2>1
<1>9. t = q /\ (w * a) % c = w * r
  <2> DEFINE n == w * a
             o == w * r
  <2>1. n \in Nat /\ n = q * c + o /\ o \in 0 .. c - 1 /\ q \in Int
    BY <1>3, <1>4, <1>6, <1>7, <1>8
  <2> HIDE DEF n, o
  <2>2. n \div c = q /\ n % c = o
    BY <1>3, <2>1, DivisionIs
  <2> QED BY <1>5, <2>2 DEF n, o
<1>10. q < w
  <2> SUFFICES ASSUME w <= q PROVE FALSE
    BY <1>4, <1>6
  <2>1. R * w <= R * q /\ R * q = q * R /\ q * R \in Nat
    BY <1>4, <1>6, ProductGrows
  <2> QED BY <1>3, <1>4, <1>6, <2>1
<1>11. Rounded(q) = q
  <2>1. PICK k \in 0 .. Given.mant, b \in Nat, s \in 0 .. 2 ^ Given.exp - 3 : Written(Magnitude(Given, p), k, b, s)
    <3>1. ~Special(Given, p)
      BY BelowOneIsFinite
    <3>2. Magnitude(Given, p) # 0 /\ p \in Patterns(Given)
      BY <1>3 DEF SamplingInv, a
    <3> QED BY <3>1, <3>2, SamplingSizes, NumbersAreWritten
  <2>2. a = b * 2 ^ s /\ 2 ^ k <= b /\ b < 2 ^ (k + 1)
    BY <1>3, <2>1 DEF Written, a
  <2>3. k \in 0 .. Exact.mant /\ s \in Nat /\ d <= Known /\ k + s + 1 <= Known
    BY <1>1, <1>2
  <2>4. Divided(b, s, d, q, r)
    BY <1>6, <2>2 DEF R, Divided
  <2>5. q # 0 /\ q < 2 ^ Width
    BY <1>9, <1>10 DEF w
  <2>6. d \in Nat /\ b \in Nat /\ q \in Nat
    BY <1>2, <1>6, <2>1
  <2> QED BY <2>2, <2>3, <2>4, <2>5, <2>6, ThresholdStays
<1>12. got = q * R
  <2>1. c * q = (q * R) * w + 0
    <3>1. ASSUME NEW lo \in Nat, NEW hi \in Nat, NEW z \in Nat PROVE (lo * hi) * z = (z * lo) * hi + 0
      OBVIOUS
    <3> QED BY <1>4, <1>6, <3>1
  <2> DEFINE n == c * q
             o == q * R
  <2>2. n \in Nat /\ o \in Int /\ n = o * w + 0 /\ 0 \in 0 .. w - 1
    BY <1>3, <1>4, <1>6, <2>1
  <2> HIDE DEF n, o
  <2>3. n \div w = o
    BY <1>4, <2>2, DivisionIs
  <2> QED BY <1>9, <1>11, <2>3 DEF n, o
<1> HIDE DEF got
<1>13. got \in Nat /\ a = got + r
  BY <1>4, <1>6, <1>12
<1>14. got <= a /\ a - got = r
  BY <1>3, <1>6, <1>13
<1>15. r * w < c
  <2>1. r * w = w * r
    BY <1>4, <1>6
  <2> QED BY <1>3, <1>7, <2>1
<1>16. (a * w) % c = 0 => got = a
  <2> SUFFICES ASSUME (a * w) % c = 0 PROVE got = a
    OBVIOUS
  <2>1. a * w = w * a
    BY <1>3, <1>4
  <2>2. w * r = 0
    BY <1>9, <2>1
  <2>3. r = 0
    BY <1>4, <1>6, <2>2
  <2> QED BY <1>3, <1>13, <2>3
<1>17. (a - got) * w < c
  BY <1>14, <1>15
<1>18. Rounded(max_theta) = w
  BY MaxThetaRounds DEF w
<1>19. got = (Scale * Rounded(t)) \div Rounded(max_theta)
  BY <1>18 DEF got, c
<1> QED BY <1>14, <1>16, <1>17, <1>19 DEF a, c, w

(* A sketch that has discarded nothing reports the probability it was given,   *)
(* up to the last digit of a threshold, for every width and pair of formats.   *)
THEOREM ProbabilityReported == SamplingSpec => []ReportsProbability
<1>1. SamplingInv => ReportsProbability
  <2> SUFFICES ASSUME SamplingInv, phase = "returned", theta # Rejected
               PROVE  /\ get_theta <= Parts
                      /\ (Parts - get_theta) * 2 ^ Width < Scale
                      /\ (Parts * 2 ^ Width) % Scale = 0 => get_theta = Parts
    BY DEF ReportsProbability
  <2>1. theta = checked_theta
    BY DEF SamplingInv
  <2>2. /\ Parts > 0 /\ Parts <= Scale /\ theta = SampledTheta /\ theta # 0
        /\ Parts < Scale => theta = (2 ^ Width * Parts) \div Scale
        /\ Parts = Scale => theta = max_theta
    BY <2>1, CheckedIs
  <2>3. get_theta = (Scale * Rounded(theta)) \div Rounded(max_theta)
    BY DEF get_theta
  <2>4. CASE Parts < Scale
    <3>1. theta = (2 ^ Width * Parts) \div Scale
      BY <2>2, <2>4
    <3> QED BY <2>2, <2>3, <2>4, <3>1, ReportedBelowOne
  <2>5. CASE Parts = Scale
    <3>1. Scale \in Nat \ {0} /\ 2 ^ Width \in Nat \ {0} /\ Rounded(theta) = 2 ^ Width /\ Rounded(max_theta) = 2 ^ Width
      BY <2>2, <2>5, ArgumentIs, MaxThetaRounds
    <3> DEFINE w == 2 ^ Width
               n == Scale * w
    <3>2. get_theta = n \div w
      BY <2>3, <3>1
    <3>3. n \in Nat /\ n = Scale * w + 0 /\ 0 \in 0 .. w - 1 /\ Scale \in Int
      BY <3>1
    <3>4. w \in Nat \ {0}
      BY <3>1
    <3> HIDE DEF n, w
    <3>5. n \div w = Scale
      BY <3>3, <3>4, DivisionIs
    <3>6. get_theta = Scale
      BY <3>2, <3>5
    <3>7. (Parts - get_theta) * w < Scale
      <4>1. Parts - get_theta = 0
        BY <2>5, <3>1, <3>6
      <4>2. 0 * w = 0
        BY <3>4
      <4> QED BY <3>1, <4>1, <4>2
    <3> QED BY <2>5, <3>1, <3>6, <3>7 DEF w
  <2> QED BY <2>2, <2>4, <2>5, ArgumentIs
<1> QED BY <1>1, AlwaysSamplingInv, PTL
=============================================================================
