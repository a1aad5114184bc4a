------------------------- MODULE ThetaUpdateProofs -------------------------
(***************************************************************************)
(* Safety of theta_sketch::update for every max_theta, k, survivor budget, *)
(* tuning and batch.                                                       *)
(***************************************************************************)
EXTENDS ThetaUpdate, ThetaPolicyProofs, SequenceTheorems

-----------------------------------------------------------------------------
(* Chunk sizes.                                                            *)

(* The estimate is a positive integer, whatever was measured.              *)
LEMMA SizedPositive ==
  ASSUME NEW remaining \in Nat, NEW prev \in Nat,
         NEW hedged \in [num : Nat, den : Nat \ {0}], theta \in 1 .. MaxTheta
  PROVE  Sized(remaining, prev, hedged) \in Nat \ {0}
<1> DEFINE x == (10 * Budget * MaxTheta * hedged.den)
                  \div (11 * theta * hedged.num)
<1> DEFINE target == IF hedged.num = 0 THEN remaining ELSE Lesser(remaining, x)
<1>1. hedged.num \in Nat /\ hedged.den \in Nat \ {0}
  OBVIOUS
<1>2. ASSUME hedged.num # 0 PROVE x \in Int
  <2>1. 11 * theta \in Nat \ {0}
    BY PolicyAssumption
  <2>2. 11 * theta * hedged.num \in Nat /\ 11 * theta * hedged.num > 0
    <3> DEFINE a == 11 * theta
    <3> HIDE DEF a
    <3>1. a \in Nat \ {0}
      BY <2>1 DEF a
    <3>2. a * hedged.num \in Nat /\ a * hedged.num > 0
      BY <3>1, <1>1, <1>2
    <3> QED BY <3>2 DEF a
  <2>3. 10 * Budget * MaxTheta * hedged.den \in Int
    BY <1>1, UpdateAssumption, PolicyAssumption
  <2> QED BY <2>2, <2>3
<1>3. target \in Int
  <2> HIDE DEF x
  <2> QED BY <1>2 DEF Lesser
<1>4. prev * MaxChunkGrowth \in Nat
  BY UpdateAssumption
<1> DEFINE y == prev * MaxChunkGrowth
<1> DEFINE capped == /\ hedged.num < hedged.den
                     /\ prev # 0
                     /\ target \div MaxChunkGrowth > prev
<1>5. Greater(1, IF capped THEN y ELSE target) \in Nat \ {0}
  <2> HIDE DEF y, capped, target
  <2>1. y \in Nat
    BY <1>4 DEF y
  <2> QED BY <1>3, <2>1 DEF Greater
<1> QED BY <1>5 DEF Sized

(* next_chunk never returns an empty chunk, nor more than what remains.    *)
LEMMA NextChunkBounds ==
  ASSUME NEW remaining \in Nat \ {0}, NEW prev \in Nat,
         NEW dup \in [num : Nat, den : Nat \ {0}], theta \in 1 .. MaxTheta
  PROVE  NextChunk(remaining, prev, dup) \in 1 .. remaining
<1> DEFINE sized == Sized(remaining, prev, Hedged(dup))
<1> DEFINE multiple == ChunkTargetMultiple * K
<1>1. Hedged(dup) \in [num : Nat, den : Nat \ {0}]
  BY DEF Hedged, One
<1>2. sized \in Nat \ {0}
  BY <1>1, SizedPositive
<1>3. multiple \in Nat
  BY UpdateAssumption
<1>4. Greater(Greater(multiple, MinChunkKeys), 2 * prev) \in Nat \ {0}
  <2> HIDE DEF multiple
  <2> QED BY <1>3, UpdateAssumption DEF Greater
<1>5. Lesser(remaining,
             IF theta = MaxTheta
             THEN Lesser(Greater(Greater(multiple, MinChunkKeys), 2 * prev), sized)
             ELSE Greater(sized, MinChunkKeys)) \in 1 .. remaining
  <2> DEFINE d == Greater(Greater(multiple, MinChunkKeys), 2 * prev)
  <2> HIDE DEF d, sized
  <2>1. d \in Nat \ {0}
    BY <1>4 DEF d
  <2>2. Lesser(d, sized) \in Nat \ {0} /\ Greater(sized, MinChunkKeys) \in Nat \ {0}
    BY <2>1, <1>2, UpdateAssumption DEF Lesser, Greater
  <2> QED BY <2>2 DEF Lesser, d
<1> QED BY <1>5 DEF NextChunk

-----------------------------------------------------------------------------
(* The inductive invariant.                                                *)

(* What the host thread knows in each phase: the device buffer it carries, *)
(* that a chunk which reached the install had fitted the budget, and that  *)
(* the counter never exceeds the keys that were screened.                  *)
PhaseInv ==
  /\ pc = "idle" => offset = 0
  /\ pc = "fold" => work = Screened(ChunkKeys, theta)
  /\ pc = "install" => work = hashes \cup Screened(ChunkKeys, theta)
  /\ pc \in {"fold", "install"} =>
       0 < outcome /\ outcome <= Budget /\ outcome <= chunk
  /\ pc = "outcome" => outcome <= chunk
  /\ pc = "outcome" /\ outcome = 0 => Screened(ChunkKeys, theta) = {}
  /\ pc = "outcome" /\ 0 < outcome /\ outcome <= Budget => is_empty = FALSE

IInv ==
  /\ TypeOK
  /\ ChunkFits
  /\ PhaseInv
  /\ Parity
  /\ FirstChunkAtomic
  /\ EmptyIffNothingSeen

(* A chunk inside the batch consists of hashes and is not empty.           *)
LEMMA ChunkIsHashes ==
  ASSUME keys \in Seq(Hashes), offset \in Nat, chunk \in 1 .. (Len(keys) - offset)
  PROVE  /\ ChunkKeys \in SUBSET Hashes
         /\ ChunkKeys # {}
         /\ {keys[i] : i \in Survivors} = Screened(ChunkKeys, theta)
         /\ Cardinality(Survivors) \in Nat
         /\ Cardinality(Survivors) <= chunk
<1>1. Len(keys) \in Nat /\ keys \in [1 .. Len(keys) -> Hashes]
  BY LenProperties
<1>2. InChunk \subseteq 1 .. Len(keys) /\ (offset + 1) \in InChunk
  BY <1>1 DEF InChunk
<1>3. ChunkKeys \in SUBSET Hashes /\ ChunkKeys # {}
  BY <1>1, <1>2 DEF ChunkKeys
<1>4. {keys[i] : i \in Survivors} = Screened(ChunkKeys, theta)
  BY DEF Survivors, Screened, ChunkKeys
<1>5. IsFiniteSet(InChunk) /\ Cardinality(InChunk) = chunk
  <2> DEFINE a == offset + 1
             b == offset + chunk
  <2>1. a \in Int /\ b \in Int /\ ~ (a > b) /\ b - a + 1 = chunk
    BY <1>1
  <2>2. IsFiniteSet(a .. b) /\ Cardinality(a .. b) = IF a > b THEN 0 ELSE b - a + 1
    <3> HIDE DEF a, b
    <3> QED BY <2>1, FS_Interval
  <2> QED BY <2>1, <2>2 DEF InChunk
<1>6. Survivors \in SUBSET InChunk
  BY DEF Survivors
<1> QED BY <1>3, <1>4, <1>5, <1>6, FS_Subset, FS_CardinalityType

(* A chunk without survivors leaves the summary as it is.                  *)
LEMMA NothingSurvives ==
  ASSUME NEW S \in SUBSET Hashes, NEW C \in SUBSET Hashes,
         NEW k \in Nat, NEW p \in Nat, NEW hs, NEW t \in Nat \ {0},
         IsSummary(S, k, p, hs, t), Screened(C, t) = {}
  PROVE  IsSummary(S \cup C, k, p, hs, t)
<1>1. hs \cup Screened(C, t) = hs
  OBVIOUS
<1>2. hs \in SUBSET Hashes /\ Cardinality(hs) <= k
  BY DEF IsSummary
<1>3. Cardinality(hs) \in Nat
  BY <1>2, HashesFinite
<1>4. Retained(hs, k) = hs /\ ThetaAfter(hs, k, t) = t
  BY <1>2, <1>3 DEF Retained, ThetaAfter
<1> QED BY <1>1, <1>4, InstallSummarizes

LEMMA InitIInv == Init => IInv
<1> SUFFICES ASSUME Init PROVE IInv
  OBVIOUS
<1>1. /\ base.hashes \in SUBSET (1 .. MaxTheta) /\ base.theta \in 1 .. MaxTheta
      /\ base.is_empty \in BOOLEAN
      /\ base.hashes \subseteq Below(base.hashes, base.theta)
      /\ Cardinality(base.hashes) <= K
      /\ base \in [hashes : SUBSET (1 .. MaxTheta), theta : 1 .. MaxTheta,
                   is_empty : BOOLEAN]
      /\ base = [hashes |-> base.hashes, theta |-> base.theta,
                 is_empty |-> base.is_empty]
  BY DEF Init, Sketches
<1>2. <<>> \in Seq(Hashes) /\ Len(<<>>) = 0 /\ MaxTheta \in 1 .. MaxTheta
  BY PolicyAssumption
<1>3. TypeOK
  BY <1>1, <1>2 DEF Init, Quiet, TypeOK, One
<1>4. ChunkFits /\ PhaseInv /\ FirstChunkAtomic
  BY DEF Init, Quiet, ChunkFits, PhaseInv, FirstChunkAtomic
<1>5. Parity
  <2>1. base.hashes \cup Absorbed = base.hashes
    BY DEF Init, Absorbed
  <2>2. base.hashes = {h \in base.hashes : 0 < h /\ h < base.theta}
    BY <1>1, PolicyAssumption DEF Below
  <2> QED BY <1>1, <2>1, <2>2 DEF Init, Parity, IsSummary
<1>6. EmptyIffNothingSeen
  BY <1>1 DEF Init, EmptyIffNothingSeen
<1> QED BY <1>3, <1>4, <1>5, <1>6 DEF IInv

-----------------------------------------------------------------------------
(* One lemma per part of the invariant: what a step does to it.            *)

(* Types.  The two delicate variables are duplicate_factor, whose          *)
(* denominator must stay positive, and what install writes.                *)
LEMMA TypeStep ==
  ASSUME TypeOK, ChunkFits, PhaseInv, [Next]_vars
  PROVE  TypeOK'
<1>1. CASE UNCHANGED vars
  BY <1>1 DEF TypeOK, vars
<1>2. ASSUME NEW batch \in Batches, Call(batch) PROVE TypeOK'
  <2>1. batch \in Seq(Hashes) /\ Len(batch) \in Nat
    BY UpdateAssumption
  <2>2. start' \in [hashes : SUBSET (1 .. MaxTheta), theta : 1 .. MaxTheta,
                    is_empty : BOOLEAN]
    BY <1>2 DEF TypeOK, Call
  <2>3. offset' \in 0 .. Len(keys')
    BY <1>2, <2>1 DEF Call, PhaseInv
  <2> QED BY <1>2, <2>1, <2>2, <2>3 DEF TypeOK, Call, sketch
<1> DEFINE Measurable == outcome \in Nat /\ rate \in 1 .. MaxTheta /\ chunk \in Nat \ {0}
<1>3. Measurable => Measured \in [num : Nat, den : Nat \ {0}]
  <2>1. \A m, n \in Nat : m * n \in Nat
    OBVIOUS
  <2>2. \A m, n \in Nat \ {0} : m * n \in Nat \ {0}
    OBVIOUS
  <2> QED BY <2>1, <2>2, PolicyAssumption DEF Measured
<1>4. CASE Size
  <2>1. Len(keys) - offset \in Nat \ {0}
    BY <1>4 DEF Size, TypeOK
  <2>2. NextChunk(Len(keys) - offset, previous, duplicates)
          \in 1 .. (Len(keys) - offset)
    BY <2>1, NextChunkBounds DEF TypeOK
  <2>3. chunk' \in Nat
    BY <1>4, <2>1, <2>2 DEF Size
  <2> QED BY <1>4, <2>3 DEF Size, TypeOK, sketch
<1>5. CASE Screen
  <2>1. keys \in Seq(Hashes) /\ offset \in Nat /\ chunk \in 1 .. (Len(keys) - offset)
    BY <1>5 DEF Screen, TypeOK, ChunkFits
  <2>2. /\ {keys[i] : i \in Survivors} \in SUBSET Hashes
        /\ {keys[i] : i \in Survivors} \in SUBSET (1 .. MaxTheta)
        /\ Cardinality(Survivors) \in Nat
    <3>1. /\ {keys[i] : i \in Survivors} = Screened(ChunkKeys, theta)
          /\ ChunkKeys \in SUBSET Hashes
          /\ Cardinality(Survivors) \in Nat
      BY <2>1, ChunkIsHashes
    <3>2. \A h \in Hashes : h # 0 => h \in 1 .. MaxTheta
      BY PolicyAssumption DEF Hashes
    <3> QED BY <3>1, <3>2 DEF Screened, ScreenHash
  <2>3. Cardinality({keys[i] : i \in Survivors}) \in Nat
    BY <2>2, HashesFinite
  <2>4. outcome' \in Nat
    BY <1>5, <2>2, <2>3 DEF Screen
  <2>5. work' \in SUBSET (1 .. MaxTheta) /\ pc' \in {"outcome", "fold"}
    BY <1>5, <2>2 DEF Screen
  <2> QED BY <1>5, <2>4, <2>5 DEF Screen, TypeOK, sketch
<1>6. CASE Fold
  BY <1>6 DEF Fold, TypeOK, sketch
<1>7. CASE Install
  <2>1. work \in SUBSET Hashes /\ \A h \in work : h \in Nat
    BY PolicyAssumption DEF TypeOK, Hashes
  <2>2. Retained(work, K) \in SUBSET work
    BY DEF Retained, Below
  <2>3. ThetaAfter(work, K, theta) \in 1 .. MaxTheta
    <3>1. CASE Cardinality(work) > K
      <4>1. Nth(work, K) \in work
        BY <2>1, <3>1, NthExists, HashesFinite, UpdateAssumption
      <4> QED BY <3>1, <4>1 DEF ThetaAfter, TypeOK
    <3>2. CASE ~ (Cardinality(work) > K)
      BY <3>2 DEF ThetaAfter, TypeOK
    <3> QED BY <3>1, <3>2
  <2> QED BY <1>7, <2>2, <2>3 DEF Install, InstalledTheta, TypeOK
<1>8. CASE Retry
  <2>1. Measured \in [num : Nat, den : Nat \ {0}]
    BY <1>3, <1>8 DEF Retry, TypeOK, ChunkFits
  <2>2. Len(keys) - offset \in Nat \ {0}
    BY <1>8 DEF Retry, TypeOK, ChunkFits
  <2>3. NextChunk(Len(keys) - offset, previous, Measured)
          \in 1 .. (Len(keys) - offset)
    BY <2>1, <2>2, NextChunkBounds DEF TypeOK
  <2>4. chunk' \in Nat
    BY <1>8, <2>2, <2>3 DEF Retry, RetryChunk, Lesser, TypeOK
  <2> QED BY <1>8, <2>1, <2>4 DEF Retry, TypeOK, sketch
<1>9. CASE Commit
  <2>1. Measured \in [num : Nat, den : Nat \ {0}]
    BY <1>3, <1>9 DEF Commit, TypeOK, ChunkFits
  <2>2. chunk \in 1 .. (Len(keys) - offset)
    BY <1>9 DEF Commit, ChunkFits
  <2>3. ChunkKeys \in SUBSET Hashes
    BY <2>2, ChunkIsHashes DEF TypeOK
  <2>4. offset + chunk \in 0 .. Len(keys)
    BY <2>2 DEF TypeOK
  <2> QED BY <1>9, <2>1, <2>3, <2>4 DEF Commit, MarkSeen, TypeOK
<1>10. ASSUME ForgetLocals, UNCHANGED sketch PROVE TypeOK'
  <2>1. <<>> \in Seq(Hashes) /\ Len(<<>>) = 0 /\ MaxTheta \in 1 .. MaxTheta
    BY PolicyAssumption
  <2> QED BY <1>10, <2>1 DEF ForgetLocals, TypeOK, sketch, One
<1>11. CASE Return \/ Throw
  BY <1>10, <1>11 DEF Return, Throw
<1> QED BY <1>1, <1>2, <1>4, <1>5, <1>6, <1>7, <1>8, <1>9, <1>11 DEF Next, Step

(* The chunk in flight stays inside the batch: next_chunk bounds a new     *)
(* one, and halving an overflowing one leaves at least one key because a   *)
(* single key cannot overflow a budget of one.                             *)
LEMMA ChunkStep ==
  ASSUME TypeOK, ChunkFits, PhaseInv, [Next]_vars
  PROVE  ChunkFits'
<1>1. CASE UNCHANGED vars
  BY <1>1 DEF ChunkFits, vars
<1>2. ASSUME NEW batch \in Batches, Call(batch) PROVE ChunkFits'
  BY <1>2 DEF Call, ChunkFits
<1>3. CASE Size
  <2>1. Len(keys) - offset \in Nat \ {0}
    BY <1>3 DEF Size, TypeOK
  <2>2. NextChunk(Len(keys) - offset, previous, duplicates)
          \in 1 .. (Len(keys) - offset)
    BY <2>1, NextChunkBounds DEF TypeOK
  <2> QED BY <1>3, <2>2 DEF Size, ChunkFits
<1>4. CASE Screen \/ Fold \/ Install
  BY <1>4 DEF Screen, Fold, Install, ChunkFits
<1>5. CASE Retry
  <2>1. chunk \in 1 .. (Len(keys) - offset) /\ Len(keys) - offset \in Nat \ {0}
    BY <1>5 DEF Retry, ChunkFits, TypeOK
  <2>2. NextChunk(Len(keys) - offset, previous, Measured)
          \in 1 .. (Len(keys) - offset)
    <3>1. Measured \in [num : Nat, den : Nat \ {0}]
      BY TypeStep, <1>5 DEF Retry, TypeOK, Next, Step
    <3> QED BY <2>1, <3>1, NextChunkBounds DEF TypeOK
  <2>3. chunk \div 2 >= 1
    BY <1>5, <2>1, UpdateAssumption DEF Retry, PhaseInv, TypeOK
  <2>4. RetryChunk(Measured) \in 1 .. (Len(keys) - offset)
    BY <2>1, <2>2, <2>3 DEF RetryChunk, Lesser
  <2> QED BY <1>5, <2>4 DEF Retry, ChunkFits
<1>6. CASE Commit \/ Return \/ Throw
  BY <1>6 DEF Commit, Return, Throw, ForgetLocals, ChunkFits
<1> QED BY <1>1, <1>2, <1>3, <1>4, <1>5, <1>6 DEF Next, Step

(* A screen yields a count between the distinct survivors and the chunk,   *)
(* and overflows exactly when the count is above the budget.               *)
LEMMA ScreenOutcome ==
  ASSUME TypeOK, ChunkFits, Screen
  PROVE  /\ outcome' \in Nat /\ outcome' <= chunk
         /\ Cardinality(Screened(ChunkKeys, theta)) <= outcome'
         /\ Overflows(outcome') <=> outcome' > Budget
         /\ pc' = "fold" => /\ work' = Screened(ChunkKeys, theta)
                            /\ 0 < outcome' /\ outcome' <= Budget
         /\ pc' = "outcome" => outcome' > Budget \/ outcome' = 0
         /\ pc' \in {"fold", "outcome"}
<1>1. keys \in Seq(Hashes) /\ offset \in Nat /\ chunk \in 1 .. (Len(keys) - offset)
  BY DEF Screen, TypeOK, ChunkFits
<1>2. /\ {keys[i] : i \in Survivors} = Screened(ChunkKeys, theta)
      /\ ChunkKeys \in SUBSET Hashes
      /\ Cardinality(Survivors) \in Nat /\ Cardinality(Survivors) <= chunk
  BY <1>1, ChunkIsHashes
<1>3. Cardinality(Screened(ChunkKeys, theta)) \in Nat
  BY <1>2, HashesFinite DEF Screened
<1>4. PICK n \in Cardinality(Screened(ChunkKeys, theta)) .. Cardinality(Survivors) :
         /\ outcome' = n
         /\ IF Overflows(n) \/ n = 0
            THEN pc' = "outcome" /\ work' = {}
            ELSE pc' = "fold" /\ work' = Screened(ChunkKeys, theta)
  BY <1>2 DEF Screen
<1>5. n \in Nat /\ n <= chunk /\ Cardinality(Screened(ChunkKeys, theta)) <= n
  <2> DEFINE low == Cardinality(Screened(ChunkKeys, theta))
             high == Cardinality(Survivors)
  <2>1. low \in Nat /\ high \in Nat /\ high <= chunk /\ chunk \in Nat /\ n \in low .. high
    BY <1>2, <1>3 DEF TypeOK
  <2> HIDE DEF low, high
  <2>2. n \in Nat /\ n <= chunk /\ low <= n
    BY <2>1
  <2> QED BY <2>2 DEF low
<1>6. Overflows(n) <=> n > Budget
  <2>1. chunk \in Nat /\ Budget \in Nat
    BY UpdateAssumption DEF TypeOK
  <2> QED BY <2>1, <1>5 DEF Overflows, Lesser
<1> QED BY <1>4, <1>5, <1>6, UpdateAssumption

LEMMA PhaseStep ==
  ASSUME TypeOK, ChunkFits, PhaseInv, [Next]_vars
  PROVE  PhaseInv'
<1> USE DEF PhaseInv, ChunkKeys, InChunk
<1>1. CASE UNCHANGED vars
  BY <1>1 DEF vars
<1>2. ASSUME NEW batch \in Batches, Call(batch) PROVE PhaseInv'
  BY <1>2 DEF Call
<1>3. CASE Size
  BY <1>3 DEF Size
<1>4. CASE Screen
  <2>1. /\ outcome' \in Nat /\ outcome' <= chunk
        /\ Cardinality(Screened(ChunkKeys, theta)) <= outcome'
        /\ pc' = "fold" => /\ work' = Screened(ChunkKeys, theta)
                           /\ 0 < outcome' /\ outcome' <= Budget
        /\ pc' = "outcome" => outcome' > Budget \/ outcome' = 0
        /\ pc' \in {"fold", "outcome"}
    BY <1>4, ScreenOutcome
  <2>2. ChunkKeys' = ChunkKeys /\ theta' = theta /\ chunk' = chunk
    BY <1>4 DEF Screen, sketch
  <2>3. outcome' = 0 => Screened(ChunkKeys, theta) = {}
    <3>1. ChunkKeys \in SUBSET Hashes
      BY <1>4, ChunkIsHashes DEF Screen, TypeOK, ChunkFits
    <3>2. /\ IsFiniteSet(Screened(ChunkKeys, theta))
          /\ Cardinality(Screened(ChunkKeys, theta)) \in Nat
      BY <3>1, HashesFinite DEF Screened
    <3> QED BY <2>1, <3>2, FS_EmptySet
  <2> HIDE DEF ChunkKeys
  <2> QED BY <2>1, <2>2, <2>3, UpdateAssumption
<1>5. CASE Fold
  BY <1>5 DEF Fold, sketch
<1>6. CASE Install
  BY <1>6 DEF Install
<1>7. CASE Retry \/ Commit \/ Return \/ Throw
  BY <1>7 DEF Retry, Commit, Return, Throw, ForgetLocals
<1> QED BY <1>1, <1>2, <1>3, <1>4, <1>5, <1>6, <1>7 DEF Next, Step

(* Parity.  Only Screen (when nothing survives) and Install change what    *)
(* counts as absorbed; Commit moves the chunk from one to the other.       *)
LEMMA ParityStep ==
  ASSUME TypeOK, ChunkFits, PhaseInv, Parity, [Next]_vars
  PROVE  Parity'
<1> DEFINE S == base.hashes \cup Absorbed
<1>0. /\ base.hashes \in SUBSET Hashes /\ base.theta \in Nat \ {0}
      /\ seen \in SUBSET Hashes /\ theta \in Nat \ {0} /\ K \in Nat
      /\ IsSummary(S, K, base.theta, hashes, theta)
  BY PolicyAssumption, UpdateAssumption DEF TypeOK, Sketches, Hashes, Parity
<1>1. ASSUME UNCHANGED <<hashes, theta, base>>, Absorbed' = Absorbed
      PROVE  Parity'
  BY <1>0, <1>1 DEF Parity
<1>2. CASE UNCHANGED vars
  BY <1>1, <1>2 DEF vars, Absorbed, ChunkKeys, InChunk
<1>3. ASSUME NEW batch \in Batches, Call(batch) PROVE Parity'
  BY <1>1, <1>3 DEF Call, sketch, Absorbed
<1>4. CASE Size
  BY <1>1, <1>4 DEF Size, sketch, Absorbed
<1>5. CASE Screen
  <2>1. /\ pc' = "outcome" => outcome' > Budget \/ outcome' = 0
        /\ pc' \in {"fold", "outcome"} /\ outcome' \in Nat
    BY <1>5, ScreenOutcome
  <2>2. /\ UNCHANGED <<hashes, theta, base, seen>> /\ ChunkKeys' = ChunkKeys
        /\ Absorbed = seen
    BY <1>5 DEF Screen, sketch, Absorbed, ChunkKeys, InChunk
  <2>3. CASE pc' = "outcome" /\ outcome' = 0
    <3>1. ChunkKeys \in SUBSET Hashes
      BY <1>5, ChunkIsHashes DEF Screen, TypeOK, ChunkFits
    <3>2. Screened(ChunkKeys, theta) = {}
      BY PhaseStep, <2>2, <2>3 DEF PhaseInv
    <3>3. IsSummary(S \cup ChunkKeys, K, base.theta, hashes, theta)
      BY <1>0, <2>2, <3>1, <3>2, NothingSurvives
    <3>4. base.hashes \cup Absorbed' \subseteq S \cup ChunkKeys
          /\ S \cup ChunkKeys \subseteq base.hashes \cup Absorbed'
      BY <2>2, <2>3, UpdateAssumption DEF Absorbed
    <3>5. base'.hashes \cup Absorbed' = S \cup ChunkKeys
      BY <3>4, <2>2
    <3> QED BY <3>3, <3>5, <2>2 DEF Parity
  <2>4. CASE ~ (pc' = "outcome" /\ outcome' = 0)
    <3>1. Absorbed' = seen
      BY <2>1, <2>2, <2>4, UpdateAssumption DEF Absorbed
    <3> QED BY <1>1, <2>2, <3>1
  <2> QED BY <2>3, <2>4
<1>6. CASE Fold
  BY <1>1, <1>6 DEF Fold, sketch, Absorbed
<1>7. CASE Install
  <2>1. /\ work = hashes \cup Screened(ChunkKeys, theta) /\ outcome <= Budget
        /\ Absorbed = seen
    BY <1>7 DEF Install, PhaseInv, Absorbed
  <2>2. ChunkKeys \in SUBSET Hashes
    BY <1>7, ChunkIsHashes DEF Install, TypeOK, ChunkFits
  <2>3. IsSummary(S \cup ChunkKeys, K, base.theta, hashes', theta')
    BY <1>0, <1>7, <2>1, <2>2, InstallSummarizes DEF Install, InstalledTheta
  <2>4. Absorbed' = seen \cup ChunkKeys
    BY <1>7, <2>1 DEF Install, Absorbed, ChunkKeys, InChunk
  <2>5. base'.hashes \cup Absorbed' = S \cup ChunkKeys /\ base' = base
    BY <1>7, <2>1, <2>4 DEF Install
  <2> QED BY <2>3, <2>5 DEF Parity
<1>8. CASE Retry
  <2>1. Absorbed = seen /\ Absorbed' = seen
    BY <1>8, UpdateAssumption DEF Retry, Absorbed, TypeOK
  <2> QED BY <1>1, <1>8, <2>1 DEF Retry, sketch
<1>9. CASE Commit
  <2>1. Absorbed = seen \cup ChunkKeys /\ Absorbed' = seen \cup ChunkKeys
    BY <1>9 DEF Commit, Absorbed
  <2> QED BY <1>1, <1>9, <2>1 DEF Commit
<1>10. CASE Return \/ Throw
  BY <1>1, <1>10 DEF Return, Throw, ForgetLocals, sketch, Absorbed
<1> QED BY <1>2, <1>3, <1>4, <1>5, <1>6, <1>7, <1>8, <1>9, <1>10 DEF Next, Step

(* The first chunk is atomic, and is_empty is exactly "nothing was seen".  *)
LEMMA FlagsStep ==
  ASSUME TypeOK, ChunkFits, PhaseInv, FirstChunkAtomic, EmptyIffNothingSeen,
         [Next]_vars
  PROVE  FirstChunkAtomic' /\ EmptyIffNothingSeen'
<1> USE DEF FirstChunkAtomic, EmptyIffNothingSeen
<1>1. CASE UNCHANGED vars
  BY <1>1 DEF vars
<1>2. ASSUME NEW batch \in Batches, Call(batch)
      PROVE  FirstChunkAtomic' /\ EmptyIffNothingSeen'
  BY <1>2 DEF Call, sketch
<1>3. CASE Size
  BY <1>3 DEF Size, sketch
<1>4. CASE Screen
  <2>1. pc' = "outcome" => outcome' > Budget \/ outcome' = 0
    BY <1>4, ScreenOutcome
  <2>2. pc' \in {"fold", "outcome"}
    BY <1>4, ScreenOutcome
  <2> QED BY <1>4, <2>1, <2>2, UpdateAssumption DEF Screen, sketch
<1>5. CASE Fold
  BY <1>5 DEF Fold, sketch
<1>6. CASE Install
  BY <1>6 DEF Install, PhaseInv
<1>7. CASE Retry
  <2>1. ~ (outcome <= Budget) /\ outcome > 0
    BY <1>7, UpdateAssumption DEF Retry, TypeOK
  <2> QED BY <1>7, <2>1 DEF Retry, sketch
<1>8. CASE Commit
  <2>1. ChunkKeys # {} /\ offset + chunk > 0
    BY <1>8, ChunkIsHashes DEF Commit, TypeOK, ChunkFits
  <2> QED BY <1>8, <2>1 DEF Commit, MarkSeen
<1>9. CASE Return \/ Throw
  BY <1>9 DEF Return, Throw, ForgetLocals, sketch
<1> QED BY <1>1, <1>2, <1>3, <1>4, <1>5, <1>6, <1>7, <1>8, <1>9 DEF Next, Step

LEMMA StepIInv == IInv /\ [Next]_vars => IInv'
  BY TypeStep, ChunkStep, PhaseStep, ParityStep, FlagsStep DEF IInv

LEMMA AlwaysIInv == Spec => []IInv
<1> QED BY InitIInv, StepIInv, PTL DEF Spec

-----------------------------------------------------------------------------
(* Results.                                                                *)

(* theta stays positive, offsets stay in the batch, and duplicate_factor   *)
(* has a positive denominator: sketch_impl.hpp 64-72 and 311-318.          *)
THEOREM TypeCorrect == Spec => []TypeOK
<1> QED BY AlwaysIInv, PTL DEF IInv

(* No chunk is empty or reaches past the batch: sketch_impl.hpp 262-283.   *)
THEOREM ChunksFit == Spec => []ChunkFits
<1> QED BY AlwaysIInv, PTL DEF IInv

(* The sketch always is the summary of what it absorbed; with              *)
(* SummaryUnique it is determined by that set: sketch_impl.hpp 285-336.    *)
THEOREM ParityHolds == Spec => []Parity
<1> QED BY AlwaysIInv, PTL DEF IInv

(* A call without a committed chunk left the sketch alone: theta.hpp       *)
(* 100-102.                                                                *)
THEOREM FirstChunkIsAtomic == Spec => []FirstChunkAtomic
<1> QED BY AlwaysIInv, PTL DEF IInv

(* The empty flag follows the keys seen: sketch_impl.hpp 328-331.          *)
THEOREM EmptyFlagExact == Spec => []EmptyIffNothingSeen
<1> QED BY AlwaysIInv, PTL DEF IInv

(* Retained hashes lie strictly between zero and theta.                    *)
LEMMA RetainedBelowTheta ==
  ASSUME IInv
  PROVE  /\ hashes \in SUBSET Hashes /\ \A h \in hashes : 0 < h /\ h < theta
         /\ IsSummary(hashes, K, theta, hashes, theta)
<1>1. hashes \in SUBSET Hashes /\ theta \in Nat
  BY PolicyAssumption DEF IInv, TypeOK, Hashes
<1>2. hashes = {h \in base.hashes \cup Absorbed : 0 < h /\ h < theta}
      /\ Cardinality(hashes) <= K
  BY DEF IInv, Parity, IsSummary
<1>3. \A h \in hashes : 0 < h /\ h < theta
  BY <1>2
<1>4. hashes = {h \in hashes : 0 < h /\ h < theta}
  BY <1>3
<1> QED BY <1>1, <1>2, <1>3, <1>4 DEF IsSummary

(* theta only tightens, and a hash that was dropped never returns.         *)
THEOREM DiscardsHold == Spec => Discards
<1> DEFINE D == /\ theta' <= theta
                /\ hashes' \cap ((base.hashes \cup seen) \ hashes) = {}
<1>1. ASSUME IInv, IInv', [Next]_vars PROVE D
  <2>1. theta \in Nat /\ theta' \in Nat
    BY <1>1 DEF IInv, TypeOK
  <2>2. theta' <= theta
    <3>1. CASE Install
      <4>1. work \in SUBSET Hashes /\ \A h \in work : h < theta
        <5>1. work = hashes \cup Screened(ChunkKeys, theta)
          BY <1>1, <3>1 DEF Install, IInv, PhaseInv
        <5>2. ChunkKeys \in SUBSET Hashes
          BY <1>1, <3>1, ChunkIsHashes DEF Install, IInv, TypeOK, ChunkFits
        <5>3. hashes \in SUBSET Hashes /\ \A h \in hashes : h < theta
          BY <1>1, RetainedBelowTheta
        <5> QED BY <5>1, <5>2, <5>3 DEF Screened, ScreenHash
      <4> QED BY <4>1, <3>1, <2>1, InstallKeeps, UpdateAssumption
              DEF Install, InstalledTheta
    <3>2. ASSUME theta' = theta PROVE theta' <= theta
      BY <2>1, <3>2
    <3>3. CASE ~ Install
      BY <1>1, <3>2, <3>3
         DEF Next, Step, Call, Size, Screen, Fold, Retry, Commit, Return, Throw,
             sketch, vars
    <3> QED BY <3>1, <3>3
  <2>3. \A h \in hashes' : 0 < h /\ h < theta'
    BY <1>1 DEF IInv, Parity, IsSummary
  <2>4. \A h \in (base.hashes \cup seen) \ hashes : ~ (0 < h /\ h < theta)
    <3>1. hashes = {h \in base.hashes \cup Absorbed : 0 < h /\ h < theta}
      BY <1>1 DEF IInv, Parity, IsSummary
    <3>2. seen \subseteq Absorbed
      BY DEF Absorbed
    <3> QED BY <3>1, <3>2
  <2>5. \A h \in (base.hashes \cup seen) : h \in Nat
    <3>1. base \in Sketches(K) /\ seen \in SUBSET Hashes
      BY <1>1 DEF IInv, TypeOK
    <3>2. base.hashes \in SUBSET (1 .. MaxTheta)
      BY <3>1 DEF Sketches, Below
    <3>3. 1 .. MaxTheta \subseteq Nat /\ Hashes \subseteq Nat
      BY PolicyAssumption DEF Hashes
    <3>4. base.hashes \subseteq Nat
      BY <3>2, <3>3, Zenon
    <3>5. seen \subseteq Nat
      BY <3>1, <3>3, Zenon
    <3> QED BY <3>4, <3>5, Zenon
  <2>6. ASSUME NEW h \in hashes' \cap ((base.hashes \cup seen) \ hashes)
        PROVE  FALSE
    <3>1. h \in Nat /\ 0 < h /\ h < theta' /\ ~ (h < theta)
      BY <2>3, <2>4, <2>5
    <3> QED BY <3>1, <2>1, <2>2
  <2> QED BY <2>2, <2>6
<1>2. IInv /\ IInv' /\ [Next]_vars => [D]_vars
  BY <1>1
<1> QED BY AlwaysIInv, <1>2, PTL DEF Spec, Discards

(* Update implements the sequence of atomic absorptions of ThetaAbsorb.    *)
LEMMA InitRefines == Init => Abstract!Init
<1> SUFFICES ASSUME Init PROVE Abstract!Init
  OBVIOUS
<1>1. base \in Abstract!Sketches(K)
  BY DEF Init, Sketches, Abstract!Sketches, Below, Abstract!Below,
         Cardinality, Abstract!Cardinality
<1>2. Counted = base.hashes
  BY DEF Init, Counted
<1> QED BY <1>1, <1>2 DEF Init, Abstract!Init

LEMMA StepRefines ==
  ASSUME IInv, [Next]_vars
  PROVE  [Abstract!Next]_(Abstract!vars)
<1> USE DEF IInv
<1>1. ASSUME UNCHANGED <<hashes, theta, is_empty>>, Counted' = Counted
      PROVE  [Abstract!Next]_(Abstract!vars)
  BY <1>1 DEF Abstract!vars
<1>2. ASSUME ChunkKeys \in SUBSET Hashes, ChunkKeys # {}, is_empty' = FALSE,
             IsSummary(hashes \cup ChunkKeys, K, theta, hashes', theta'),
             Counted' = Counted \cup ChunkKeys
      PROVE  [Abstract!Next]_(Abstract!vars)
  <2>1. Abstract!Absorb(ChunkKeys)
    BY <1>2 DEF Abstract!Absorb, Abstract!IsSummary, IsSummary,
                Cardinality, Abstract!Cardinality
  <2>2. ChunkKeys \in SUBSET Abstract!Hashes
    BY <1>2 DEF Hashes, Abstract!Hashes
  <2> QED BY <2>1, <2>2 DEF Abstract!Next
<1>3. pc \in {"screen", "fold", "install", "outcome"} =>
        ChunkKeys \in SUBSET Hashes /\ ChunkKeys # {}
  BY ChunkIsHashes DEF TypeOK, ChunkFits
<1>4. CASE UNCHANGED vars
  BY <1>1, <1>4 DEF vars, Counted, ChunkKeys, InChunk
<1>5. ASSUME NEW batch \in Batches, Call(batch)
      PROVE  [Abstract!Next]_(Abstract!vars)
  BY <1>1, <1>5 DEF Call, sketch, Counted
<1>6. CASE Size \/ Fold
  BY <1>1, <1>6 DEF Size, Fold, sketch, Counted
<1>7. CASE Screen
  <2>1. pc' = "outcome" => outcome' > Budget \/ outcome' = 0
    BY <1>7, ScreenOutcome
  <2>2. outcome' \in Nat
    BY <1>7, ScreenOutcome
  <2>3. Counted' = Counted
    BY <1>7, <2>1, <2>2, UpdateAssumption DEF Screen, Counted
  <2> QED BY <1>1, <1>7, <2>3 DEF Screen, sketch
<1>8. CASE Install
  <2>1. IsSummary(hashes \cup ChunkKeys, K, theta, hashes', theta')
    <3>1. work = hashes \cup Screened(ChunkKeys, theta)
      BY <1>8 DEF Install, PhaseInv
    <3>2. hashes \in SUBSET Hashes /\ IsSummary(hashes, K, theta, hashes, theta)
      BY RetainedBelowTheta
    <3>3. theta \in Nat \ {0} /\ theta \in Nat /\ K \in Nat
      BY UpdateAssumption DEF TypeOK
    <3>4. ChunkKeys \in SUBSET Hashes
      BY <1>3, <1>8 DEF Install
    <3> QED BY <1>8, <3>1, <3>2, <3>3, <3>4, InstallSummarizes
            DEF Install, InstalledTheta
  <2>2. Counted' = Counted \cup ChunkKeys
    BY <1>8 DEF Install, PhaseInv, Counted, ChunkKeys, InChunk
  <2> QED BY <1>2, <1>3, <1>8, <2>1, <2>2 DEF Install
<1>9. CASE Retry
  BY <1>1, <1>9, UpdateAssumption DEF Retry, sketch, Counted, TypeOK
<1>10. CASE Commit
  <2>1. CASE outcome = 0
    <3>1. Screened(ChunkKeys, theta) = {}
      BY <1>10, <2>1 DEF Commit, PhaseInv
    <3>2. hashes \in SUBSET Hashes /\ IsSummary(hashes, K, theta, hashes, theta)
      BY RetainedBelowTheta
    <3>3. theta \in Nat \ {0} /\ theta \in Nat /\ K \in Nat
      BY UpdateAssumption DEF TypeOK
    <3>4. ChunkKeys \in SUBSET Hashes /\ ChunkKeys # {}
      BY <1>3, <1>10 DEF Commit
    <3>5. IsSummary(hashes \cup ChunkKeys, K, theta, hashes, theta)
      BY <3>1, <3>2, <3>3, <3>4, NothingSurvives
    <3>6. Counted' = Counted \cup ChunkKeys
      BY <1>10, <2>1 DEF Commit, Counted
    <3> QED BY <1>2, <1>10, <3>4, <3>5, <3>6 DEF Commit, MarkSeen
  <2>2. CASE outcome # 0
    <3>1. 0 < outcome /\ is_empty = FALSE
      BY <1>10, <2>2 DEF Commit, PhaseInv, TypeOK
    <3>2. Counted' = Counted
      BY <1>10, <3>1 DEF Commit, Counted
    <3> QED BY <1>1, <1>10, <3>1, <3>2 DEF Commit, MarkSeen
  <2> QED BY <2>1, <2>2
<1>11. CASE Return \/ Throw
  BY <1>1, <1>11 DEF Return, Throw, ForgetLocals, sketch, Counted
<1> QED BY <1>4, <1>5, <1>6, <1>7, <1>8, <1>9, <1>10, <1>11 DEF Next, Step

(* theta.hpp 94-102: overflow, retry and failure are invisible.            *)
THEOREM UpdateRefinesAbsorb == Spec => AbsorbsAtomically
<1> QED BY InitRefines, StepRefines, AlwaysIInv, PTL
        DEF Spec, AbsorbsAtomically, Abstract!Spec
=============================================================================
