------------------------- MODULE ThetaStreamsProofs -------------------------
(***************************************************************************)
(* The device memory of Theta sketches, for every number of sketches,      *)
(* streams and buffers, every interleaving of the streams' work, and an    *)
(* exception at any allocation or launch.                                  *)
(***************************************************************************)
EXTENDS ThetaStreams, FiniteSetTheorems, SequenceTheorems, WellFoundedInduction, TLAPS

-----------------------------------------------------------------------------
(* Numbers.                                                                *)

(* A nonempty set of naturals has a least element.                         *)
LEMMA LeastNumber ==
  ASSUME NEW T \in SUBSET Nat, T # {}
  PROVE  \E x \in T : \A y \in T : x <= y
<1>1. PICK x \in T : \A y \in T : ~ (<<y, x>> \in OpToRel(<, Nat))
  BY NatLessThanWellFounded, WFMin
<1>2. ASSUME NEW y \in T PROVE x <= y
  <2>1. ~ (<<y, x>> \in OpToRel(<, Nat))
    BY <1>1
  <2>2. <<y, x>> \in Nat \X Nat /\ <<y, x>>[1] = y /\ <<y, x>>[2] = x
    OBVIOUS
  <2>3. ~ (y < x)
    BY <2>1, <2>2 DEF OpToRel
  <2> QED BY <2>3
<1> QED BY <1>2

\* How many elements of D are below b.
Rank(D, b) == Cardinality({d \in D : d < b})

(* The elements of a finite set of naturals have different ranks, from 0   *)
(* on without a gap.                                                       *)
LEMMA Ranks ==
  ASSUME NEW D \in SUBSET Nat, IsFiniteSet(D)
  PROVE  /\ Cardinality(D) \in Nat
         /\ \A b \in D : Rank(D, b) \in 0 .. Cardinality(D) - 1
         /\ \A b, c \in D : Rank(D, b) = Rank(D, c) => b = c
         /\ \A r \in 0 .. Cardinality(D) - 1 : \E b \in D : Rank(D, b) = r
<1>1. Cardinality(D) \in Nat
  BY FS_CardinalityType
<1>2. ASSUME NEW b \in D
      PROVE  IsFiniteSet({d \in D : d < b}) /\ Rank(D, b) \in 0 .. Cardinality(D) - 1
  <2>1. PICK E \in SUBSET D : E = {d \in D : d < b}
    OBVIOUS
  <2>2. IsFiniteSet(E) /\ Cardinality(E) <= Cardinality(D) /\ (Cardinality(D) = Cardinality(E) => D = E)
    BY FS_Subset
  <2>3. Cardinality(E) \in Nat
    BY <2>2, FS_CardinalityType
  <2>4. b \notin E
    BY <2>1
  <2> QED BY <1>1, <2>1, <2>2, <2>3, <2>4 DEF Rank
<1>3. ASSUME NEW b \in D, NEW c \in D, b < c PROVE Rank(D, b) < Rank(D, c)
  <2>1. PICK E, H : E = {d \in D : d < b} /\ H = {d \in D : d < c}
    OBVIOUS
  <2>2. E \in SUBSET H /\ b \in H /\ b \notin E
    <3>1. b \in Nat /\ c \in Nat /\ \A d \in D : d \in Nat
      OBVIOUS
    <3>2. \A d \in D : d < b => d < c
      BY <1>3, <3>1
    <3>3. ~ (b < b)
      BY <3>1
    <3> QED BY <1>3, <2>1, <3>2, <3>3
  <2>3. IsFiniteSet(H) /\ IsFiniteSet(E)
    BY <1>2, <2>1
  <2>4. Cardinality(E) <= Cardinality(H) /\ (Cardinality(H) = Cardinality(E) => H = E)
    BY <2>2, <2>3, FS_Subset
  <2>5. Cardinality(E) \in Nat /\ Cardinality(H) \in Nat
    BY <2>3, FS_CardinalityType
  <2> QED BY <2>1, <2>2, <2>4, <2>5 DEF Rank
<1>4. ASSUME NEW b \in D, NEW c \in D, Rank(D, b) = Rank(D, c) PROVE b = c
  <2>1. b \in Nat /\ c \in Nat
    OBVIOUS
  <2>2. b < c \/ c < b \/ b = c
    BY <2>1
  <2>3. Rank(D, b) \in 0 .. Cardinality(D) - 1 /\ Rank(D, c) \in 0 .. Cardinality(D) - 1
    BY <1>2
  <2> QED BY <1>1, <1>3, <1>4, <2>2, <2>3
<1>5. ASSUME NEW r \in 0 .. Cardinality(D) - 1 PROVE \E b \in D : Rank(D, b) = r
  <2>1. PICK R : R = 0 .. Cardinality(D) - 1
    OBVIOUS
  <2>2. IsFiniteSet(R) /\ Cardinality(R) = Cardinality(D)
    BY <1>1, <2>1, FS_Interval
  <2>3. PICK f : f = [b \in D |-> Rank(D, b)]
    OBVIOUS
  <2>4. f \in [D -> R]
    BY <1>2, <2>1, <2>3
  <2>5. f \in Injection(D, R)
    BY <1>4, <2>3, <2>4 DEF Injection, IsInjective
  <2>6. f \in Surjection(D, R)
    BY <2>2, <2>5, FS_Injection
  <2> QED BY <1>5, <2>1, <2>3, <2>6 DEF Surjection
<1> QED BY <1>1, <1>2, <1>4, <1>5

-----------------------------------------------------------------------------
(* Tasks and queues.                                                       *)

TaskSet ==
  [op : {"work"}, reads : SUBSET Buffer, writes : SUBSET Buffer]
    \cup [op : {"malloc"}, buffer : Buffer, filled : BOOLEAN]
    \cup [op : {"release"}, buffer : Buffer]

Queues == [Stream -> Seq(TaskSet)]

\* The places of stream st in the queues q.
Pos(q, st) == 1 .. Len(q[st])

LEMMA Numbers ==
  /\ Buffer \subseteq Nat /\ IsFiniteSet(Buffer)
  /\ HashBuffer \subseteq Buffer /\ CountBuffer \subseteq Buffer
<1>1. HashBuffer \subseteq Nat /\ CountBuffer \subseteq Nat
  BY StreamsAssumption DEF HashBuffer, CountBuffer
<1>2. IsFiniteSet(HashBuffer) /\ IsFiniteSet(CountBuffer)
  BY StreamsAssumption, FS_Interval DEF HashBuffer, CountBuffer
<1>3. IsFiniteSet(HashBuffer \cup CountBuffer)
  BY <1>2, FS_Union
<1> QED BY <1>1, <1>3 DEF Buffer

LEMMA ReleaseIs ==
  ASSUME NEW b \in Buffer
  PROVE  Release(b) \in TaskSet /\ Release(b).op = "release" /\ Release(b).buffer = b
BY DEF Release, TaskSet

LEMMA QueueFacts ==
  ASSUME NEW q \in Queues, NEW st \in Stream
  PROVE  /\ q[st] \in Seq(TaskSet) /\ Len(q[st]) \in Nat
         /\ \A n \in Pos(q, st) : q[st][n] \in TaskSet
         /\ q[st] = <<>> <=> Pos(q, st) = {}
         /\ q[st] # <<>> => 1 \in Pos(q, st) /\ Head(q[st]) = q[st][1]
<1>1. PICK s \in Seq(TaskSet) : s = q[st]
  BY DEF Queues
<1>2. Len(s) \in Nat /\ \A n \in 1 .. Len(s) : s[n] \in TaskSet
  BY LenProperties, ElementOfSeq
<1>3. s # <<>> => Len(s) \in Nat \ {0}
  BY EmptySeq
<1>4. Len(<<>>) = 0 /\ Head(s) = s[1]
  OBVIOUS
<1> QED BY <1>1, <1>2, <1>3, <1>4 DEF Pos

-----------------------------------------------------------------------------
(* What is done to the queues: r is what q becomes.                        *)

\* The first task of st is done.
Retires(q, r, st) ==
  /\ r \in Queues /\ 1 \in Pos(q, st)
  /\ \A o \in Stream : o # st => r[o] = q[o]
  /\ Len(r[st]) = Len(q[st]) - 1
  /\ \A n \in Pos(r, st) : n + 1 \in Pos(q, st) /\ r[st][n] = q[st][n + 1]

\* Task t is queued on st.
Gains(q, r, st, t) ==
  /\ r \in Queues
  /\ \A o \in Stream : o # st => r[o] = q[o]
  /\ Len(r[st]) = Len(q[st]) + 1
  /\ \A n \in Pos(q, st) : r[st][n] = q[st][n]
  /\ r[st][Len(q[st]) + 1] = t

\* The buffers of B are freed on the streams that bd binds them to.
Frees(q, r, B, bd) ==
  /\ r \in Queues
  /\ \A st \in Stream :
       /\ Len(q[st]) <= Len(r[st])
       /\ \A n \in Pos(q, st) : r[st][n] = q[st][n]
       /\ \A n \in Pos(r, st) : n \notin Pos(q, st) =>
            \E b \in B : bd[b] = st /\ r[st][n] = Release(b)
       /\ \A b \in B : bd[b] = st =>
            \E n \in Pos(r, st) : n \notin Pos(q, st) /\ r[st][n] = Release(b)
       /\ \A n, m \in Pos(r, st) :
            n \notin Pos(q, st) /\ m \notin Pos(q, st) /\ r[st][n] = r[st][m] => n = m

LEMMA TailRetires ==
  ASSUME queue \in Queues, NEW st \in Stream, queue[st] # <<>>,
         queue' = [queue EXCEPT ![st] = Tail(@)]
  PROVE  Retires(queue, queue', st)
<1>1. queue[st] \in Seq(TaskSet) /\ 1 \in Pos(queue, st) /\ Len(queue[st]) \in Nat
  BY QueueFacts
<1>2. PICK q \in Seq(TaskSet) : q = Tail(queue[st])
  BY <1>1, HeadTailProperties
<1>3. Len(q) = Len(queue[st]) - 1 /\ \A n \in 1 .. Len(q) : q[n] = queue[st][n + 1]
  BY <1>1, <1>2, HeadTailProperties
<1>4. queue' = [queue EXCEPT ![st] = q]
  BY <1>2
<1>5. queue' \in Queues /\ queue'[st] = q
  BY <1>4 DEF Queues
<1>6. \A o \in Stream : o # st => queue'[o] = queue[o]
  BY <1>4 DEF Queues
<1>7. \A n \in 1 .. Len(q) : n + 1 \in Pos(queue, st)
  BY <1>1, <1>3 DEF Pos
<1> QED BY <1>1, <1>3, <1>5, <1>6, <1>7 DEF Retires, Pos

LEMMA BehindQueues ==
  ASSUME queue \in Queues, NEW st \in Stream, NEW t \in TaskSet, queue' = Behind(st, t)
  PROVE  Gains(queue, queue', st, t)
<1>1. queue[st] \in Seq(TaskSet) /\ Len(queue[st]) \in Nat
  BY QueueFacts
<1>2. PICK q \in Seq(TaskSet) : q = Append(queue[st], t)
  BY <1>1, AppendProperties
<1>3. /\ Len(q) = Len(queue[st]) + 1 /\ q[Len(queue[st]) + 1] = t
      /\ \A n \in Pos(queue, st) : q[n] = queue[st][n]
  BY <1>1, <1>2, AppendProperties DEF Pos
<1>4. queue' = [queue EXCEPT ![st] = q]
  BY <1>2 DEF Behind
<1>5. queue' \in Queues /\ queue'[st] = q
  BY <1>4 DEF Queues
<1>6. \A o \in Stream : o # st => queue'[o] = queue[o]
  BY <1>4 DEF Queues
<1> QED BY <1>3, <1>5, <1>6 DEF Gains

LEMMA DestroyFrees ==
  ASSUME queue \in Queues, NEW B \in SUBSET Buffer, Destroy(B)
  PROVE  Frees(queue, queue', B, bound)
<1> DEFINE D(st) == {b \in B : bound[b] = st}
           Pick(st, i) == CHOOSE b \in D(st) : Cardinality({d \in D(st) : d < b}) = i - 1
           R(st) == [i \in 1 .. Cardinality(D(st)) |-> Release(Pick(st, i))]
<1>1. queue' = [st \in Stream |-> queue[st] \o R(st)]
  BY DEF Destroy
<1>3. ASSUME NEW st \in Stream
      PROVE  \E r \in Seq(TaskSet) :
               /\ r = R(st) /\ Len(r) \in Nat
               /\ \A i \in 1 .. Len(r) : \E b \in D(st) : r[i] = Release(b) /\ Rank(D(st), b) = i - 1
               /\ \A b \in D(st) : \E i \in 1 .. Len(r) : r[i] = Release(b)
  <2>1. PICK E : E = D(st)
    OBVIOUS
  <2>2. E \in SUBSET Nat /\ IsFiniteSet(E) /\ E \subseteq Buffer
    BY <2>1, Numbers, FS_Subset
  <2>3. /\ Cardinality(E) \in Nat
        /\ \A b \in E : Rank(E, b) \in 0 .. Cardinality(E) - 1
        /\ \A b, c \in E : Rank(E, b) = Rank(E, c) => b = c
        /\ \A k \in 0 .. Cardinality(E) - 1 : \E b \in E : Rank(E, b) = k
    BY <2>2, Ranks
  <2>4. \A i \in 1 .. Cardinality(E) :
          Pick(st, i) \in E /\ Rank(E, Pick(st, i)) = i - 1
    <3> SUFFICES ASSUME NEW i \in 1 .. Cardinality(E)
                 PROVE  Pick(st, i) \in E /\ Rank(E, Pick(st, i)) = i - 1
      OBVIOUS
    <3>1. i - 1 \in 0 .. Cardinality(E) - 1
      BY <2>3
    <3>2. \E b \in E : Cardinality({d \in E : d < b}) = i - 1
      BY <2>3, <3>1 DEF Rank
    <3>3. Pick(st, i) = CHOOSE b \in E : Cardinality({d \in E : d < b}) = i - 1
      BY <2>1
    <3> HIDE DEF Pick
    <3> QED BY <3>2, <3>3 DEF Rank
  <2> HIDE DEF Pick
  <2>5. PICK r : r = [i \in 1 .. Cardinality(E) |-> Release(Pick(st, i))]
    OBVIOUS
  <2>6. \A i \in 1 .. Cardinality(E) : r[i] = Release(Pick(st, i)) /\ r[i] \in TaskSet
    BY <2>2, <2>4, <2>5, ReleaseIs
  <2>7. r \in [1 .. Cardinality(E) -> TaskSet]
    BY <2>5, <2>6
  <2>8. r \in Seq(TaskSet)
    BY <2>3, <2>7
  <2>9. Len(r) = Cardinality(E)
    BY <2>3, <2>7, <2>8, LenProperties
  <2>10. ASSUME NEW b \in E PROVE \E i \in 1 .. Len(r) : r[i] = Release(b)
    <3>1. PICK i \in 1 .. Cardinality(E) : i - 1 = Rank(E, b)
      <4>1. Rank(E, b) + 1 \in 1 .. Cardinality(E) /\ (Rank(E, b) + 1) - 1 = Rank(E, b)
        BY <2>3
      <4> QED BY <4>1
    <3>2. Pick(st, i) = b
      BY <2>3, <2>4, <3>1
    <3> QED BY <2>6, <2>9, <3>1, <3>2
  <2>11. r = R(st)
    BY <2>1, <2>5
  <2>12. ASSUME NEW i \in 1 .. Len(r)
         PROVE  \E b \in D(st) : r[i] = Release(b) /\ Rank(D(st), b) = i - 1
    BY <2>1, <2>4, <2>6, <2>9
  <2>13. \A b \in D(st) : \E i \in 1 .. Len(r) : r[i] = Release(b)
    BY <2>1, <2>10
  <2>14. Len(r) \in Nat
    BY <2>3, <2>9
  <2> HIDE DEF D
  <2> QED BY <2>8, <2>11, <2>12, <2>13, <2>14
<1> HIDE DEF R, Pick
<1>4. ASSUME NEW st \in Stream
      PROVE  /\ queue'[st] \in Seq(TaskSet)
             /\ Len(queue[st]) <= Len(queue'[st])
             /\ \A n \in Pos(queue, st) : queue'[st][n] = queue[st][n]
             /\ \A n \in Pos(queue', st) : n \notin Pos(queue, st) =>
                  \E b \in B : bound[b] = st /\ queue'[st][n] = Release(b)
             /\ \A b \in B : bound[b] = st =>
                  \E n \in Pos(queue', st) : n \notin Pos(queue, st) /\ queue'[st][n] = Release(b)
             /\ \A n, m \in Pos(queue', st) :
                  n \notin Pos(queue, st) /\ m \notin Pos(queue, st) /\ queue'[st][n] = queue'[st][m] => n = m
  <2>1. PICK r \in Seq(TaskSet) :
               /\ r = R(st) /\ Len(r) \in Nat
               /\ \A i \in 1 .. Len(r) : \E b \in D(st) : r[i] = Release(b) /\ Rank(D(st), b) = i - 1
               /\ \A b \in D(st) : \E i \in 1 .. Len(r) : r[i] = Release(b)
    BY <1>3
  <2>2. PICK l \in Nat : l = Len(queue[st])
    BY QueueFacts
  <2>3. queue[st] \in Seq(TaskSet)
    BY QueueFacts
  <2>4. PICK q \in Seq(TaskSet) : q = queue[st] \o r
    BY <2>3, ConcatProperties
  <2>5. /\ Len(q) = l + Len(r)
        /\ \A i \in 1 .. l + Len(r) : q[i] = IF i <= l THEN queue[st][i] ELSE r[i - l]
    BY <2>2, <2>3, <2>4, ConcatProperties
  <2>6. queue'[st] = q
    BY <1>1, <2>1, <2>4
  <2>7. \A n \in 1 .. l : q[n] = queue[st][n]
    BY <2>1, <2>5
  <2>8. ASSUME NEW n \in 1 .. Len(q), n \notin 1 .. l
        PROVE  n - l \in 1 .. Len(r) /\ q[n] = r[n - l]
    BY <2>1, <2>5, <2>8
  <2>9. ASSUME NEW n \in 1 .. Len(q), n \notin 1 .. l
        PROVE  \E b \in B : bound[b] = st /\ q[n] = Release(b)
    <3>1. PICK b \in D(st) : r[n - l] = Release(b)
      BY <2>1, <2>8, <2>9
    <3> QED BY <2>8, <2>9, <3>1
  <2>10. ASSUME NEW b \in B, bound[b] = st
         PROVE  \E n \in 1 .. Len(q) : n \notin 1 .. l /\ q[n] = Release(b)
    <3>1. PICK i \in 1 .. Len(r) : r[i] = Release(b)
      BY <2>1, <2>10
    <3>2. l + i \in 1 .. Len(q) /\ l + i \notin 1 .. l /\ (l + i) - l = i
      BY <2>1, <2>5
    <3> QED BY <2>8, <3>1, <3>2
  <2>11. ASSUME NEW n \in 1 .. Len(q), NEW m \in 1 .. Len(q), n \notin 1 .. l, m \notin 1 .. l,
                q[n] = q[m]
         PROVE  n = m
    <3>1. PICK b \in D(st) : r[n - l] = Release(b) /\ Rank(D(st), b) = (n - l) - 1
      BY <2>1, <2>8, <2>11
    <3>2. PICK c \in D(st) : r[m - l] = Release(c) /\ Rank(D(st), c) = (m - l) - 1
      BY <2>1, <2>8, <2>11
    <3>3. Release(b) = Release(c)
      BY <2>8, <2>11, <3>1, <3>2
    <3>4. b = c
      <4>1. b \in Buffer /\ c \in Buffer
        OBVIOUS
      <4> QED BY <3>3, <4>1, ReleaseIs
    <3>5. (n - l) - 1 = (m - l) - 1
      BY <3>1, <3>2, <3>4
    <3> QED BY <3>5
  <2>12. l <= Len(q)
    BY <2>1, <2>5
  <2> QED BY SMTT(60), <2>2, <2>6, <2>7, <2>9, <2>10, <2>11, <2>12 DEF Pos
<1>5. queue' \in Queues
  BY <1>1, <1>4 DEF Queues
<1> QED BY <1>4, <1>5 DEF Frees

-----------------------------------------------------------------------------
(* What the rest of a program may rely on.                                 *)

(* names: the scratch buffers there are.  filled: what is written, or will *)
(* be by what is queued.  work: whether some of it may be pending.         *)
(* rebound: the scratch buffer that is bound to the sketch's stream.       *)
Account ==
  [names : SUBSET Name, filled : SUBSET (Sketch \cup Name),
   work : {"pending", "done"}, rebound : SUBSET Name]

Blank == [names |-> {}, filled |-> {}, work |-> "done", rebound |-> {}]

\* Instruction i is in order in account x and leads to account y.
Permits(i, x, y) ==
  CASE i.op = "alloc" ->
         /\ i.name \in Name \ x.names /\ x.rebound = {} /\ i.filled \in BOOLEAN
         /\ y.names = x.names \cup {i.name} /\ y.rebound = {}
         /\ y.filled \subseteq x.filled \cup {n \in {i.name} : i.filled}
         /\ y.work = "pending"
    [] i.op = "run" ->
         /\ i.reads \subseteq x.filled /\ i.writes \subseteq x.names /\ x.rebound = {}
         /\ y.names = x.names /\ y.rebound = {}
         /\ y.filled \subseteq x.filled \cup i.writes
         /\ y.work = "pending"
    [] i.op = "sync" ->
         /\ y.names = x.names /\ y.rebound = x.rebound /\ y.filled \subseteq x.filled
         /\ y.rebound # {} => y.work = "done"
    [] i.op = "free" ->
         /\ i.name \in x.names /\ x.rebound = {}
         /\ y.names = x.names \ {i.name} /\ y.rebound = {}
         /\ y.filled \subseteq x.filled \ {i.name}
         /\ x.work = "pending" => y.work = "pending"
    [] i.op = "rebind" ->
         /\ i.name \in x.names /\ x.rebound = {} /\ x.work = "done"
         /\ y.names = x.names /\ y.rebound = {i.name} /\ y.work = "done"
         /\ y.filled \subseteq x.filled
    [] i.op = "commit" ->
         /\ i.name = None \/ i.name \in x.names \cap x.filled
         /\ x.rebound = {i.name} \ {None} /\ x.work = "done"
         /\ y.names = x.names \ {i.name} /\ y.rebound = {}
         /\ y.filled \subseteq x.filled \ (Sketch \cup {i.name})
    [] OTHER -> FALSE

IsProgram(p) == \E S : p \in Seq(S)

\* Program p leads from account x to account y, if the triples of L do.
Leads(L, p, x, y) ==
  /\ IsProgram(p) /\ x \in Account /\ y \in Account
  /\ p = <<>> => x = y
  /\ p # <<>> /\ Head(p).op # "either" =>
       \E z : Permits(Head(p), x, z) /\ <<Tail(p), z, y>> \in L
  /\ p # <<>> /\ Head(p).op = "either" =>
       \A c \in Head(p).programs : IsProgram(c) /\ <<c \o Tail(p), x, y>> \in L

Closed(L) == \A p, x, y : <<p, x, y>> \in L => Leads(L, p, x, y)

\* Program p, in order all along, leads from account x to account y.
Earns(p, x, y) == \E L : Closed(L) /\ <<p, x, y>> \in L

(* Programs are sequences.                                                 *)
LEMMA Joined ==
  ASSUME NEW p, NEW c, IsProgram(p), IsProgram(c)
  PROVE  /\ IsProgram(p \o c) /\ p \o <<>> = p /\ <<>> \o p = p
         /\ p \o c = <<>> <=> p = <<>> /\ c = <<>>
         /\ p # <<>> => /\ IsProgram(Tail(p))
                       /\ Head(p \o c) = Head(p) /\ Tail(p \o c) = Tail(p) \o c
         /\ \A d : IsProgram(d) => (p \o c) \o d = p \o (c \o d)
<1>1. PICK S : p \in Seq(S) /\ c \in Seq(S)
  <2>1. PICK P, C : p \in Seq(P) /\ c \in Seq(C)
    BY DEF IsProgram
  <2>2. p \in Seq(P \cup C) /\ c \in Seq(P \cup C)
    BY <2>1, SeqMonotonic
  <2> QED BY <2>2
<1>2. p \o c \in Seq(S) /\ IsProgram(p \o c)
  BY <1>1, ConcatProperties DEF IsProgram
<1>3. p \o <<>> = p /\ <<>> \o p = p
  BY <1>1, ConcatEmptySeq
<1>4. p \o c = <<>> <=> p = <<>> /\ c = <<>>
  BY <1>1, ConcatEqualIffEmpty
<1>5. ASSUME p # <<>>
      PROVE  IsProgram(Tail(p)) /\ Head(p \o c) = Head(p) /\ Tail(p \o c) = Tail(p) \o c
  <2>1. /\ Tail(p) \in Seq(S) /\ Len(Tail(p)) = Len(p) - 1 /\ Len(p) \in Nat /\ Len(c) \in Nat
        /\ \A n \in 1 .. Len(Tail(p)) : Tail(p)[n] = p[n + 1]
    BY <1>1, <1>5, HeadTailProperties, LenProperties
  <2>2. Len(p) # 0
    BY <1>1, <1>5, EmptySeq
  <2>3. PICK r \in Seq(S) : r = p \o c
    BY <1>2
  <2>4. /\ Len(r) = Len(p) + Len(c)
        /\ \A n \in 1 .. Len(p) + Len(c) : r[n] = IF n <= Len(p) THEN p[n] ELSE c[n - Len(p)]
    BY <1>1, <2>3, ConcatProperties
  <2>5. r # <<>>
    BY <1>4, <1>5, <2>3
  <2>6. Head(r) = Head(p)
    BY <2>1, <2>2, <2>4
  <2>7. PICK u \in Seq(S) : u = Tail(p) \o c
    BY <1>1, <2>1, ConcatProperties
  <2>8. /\ Len(u) = Len(p) - 1 + Len(c)
        /\ \A n \in 1 .. Len(p) - 1 + Len(c) :
              u[n] = IF n <= Len(p) - 1 THEN Tail(p)[n] ELSE c[n - (Len(p) - 1)]
    BY <1>1, <2>1, <2>7, ConcatProperties
  <2>9. /\ Tail(r) \in Seq(S) /\ Len(Tail(r)) = Len(r) - 1
        /\ \A n \in 1 .. Len(Tail(r)) : Tail(r)[n] = r[n + 1]
    BY <2>5, HeadTailProperties
  <2>10. \A n \in 1 .. Len(u) : u[n] = Tail(r)[n]
    <3>1. PICK t, k, l, m : t = Tail(p) /\ k = Len(p) /\ l = Len(c) /\ m = Tail(r)
      OBVIOUS
    <3>2. k \in Nat /\ l \in Nat /\ Len(r) = k + l /\ Len(u) = k - 1 + l /\ Len(m) = k + l - 1
      BY <2>1, <2>4, <2>8, <2>9, <3>1
    <3>3. \A n \in 1 .. k - 1 : t[n] = p[n + 1]
      BY <2>1, <3>1
    <3>4. \A n \in 1 .. k + l : r[n] = IF n <= k THEN p[n] ELSE c[n - k]
      BY <2>4, <3>1
    <3>5. \A n \in 1 .. k - 1 + l : u[n] = IF n <= k - 1 THEN t[n] ELSE c[n - (k - 1)]
      BY <2>8, <3>1
    <3>6. \A n \in 1 .. k - 1 + l : m[n] = r[n + 1]
      <4>1. 1 .. k - 1 + l = 1 .. Len(m)
        BY <3>2
      <4> QED BY <2>9, <3>1, <4>1
    <3>7. ASSUME NEW n \in 1 .. k - 1 + l PROVE u[n] = m[n]
      <4>1. r[n + 1] = IF n + 1 <= k THEN p[n + 1] ELSE c[(n + 1) - k]
        BY <3>2, <3>4
      <4>2. CASE n <= k - 1
        BY <3>2, <3>3, <3>5, <3>6, <4>1, <4>2
      <4>3. CASE ~ (n <= k - 1)
        <5>1. n - (k - 1) = (n + 1) - k /\ ~ (n + 1 <= k)
          BY <3>2, <4>3
        <5> QED BY <3>5, <3>6, <4>1, <4>3, <5>1
      <4> QED BY <4>2, <4>3
    <3> QED BY <3>1, <3>2, <3>7
  <2>11. Len(u) = Len(Tail(r))
    BY <2>1, <2>4, <2>8, <2>9
  <2>12. u = Tail(r)
    BY <2>9, <2>10, <2>11, SeqEqual
  <2> QED BY <2>1, <2>3, <2>6, <2>7, <2>12 DEF IsProgram
<1>6. ASSUME NEW d, IsProgram(d) PROVE (p \o c) \o d = p \o (c \o d)
  <2>1. PICK T : d \in Seq(T)
    BY <1>6 DEF IsProgram
  <2>2. p \in Seq(S \cup T) /\ c \in Seq(S \cup T) /\ d \in Seq(S \cup T)
    BY <1>1, <2>1, SeqMonotonic
  <2> QED BY <2>2, ConcatAssociative
<1> QED BY <1>2, <1>3, <1>4, <1>5, <1>6

LEMMA OneInstruction ==
  ASSUME NEW i
  PROVE  IsProgram(<<>>) /\ IsProgram(<<i>>) /\ <<i>> # <<>> /\ Head(<<i>>) = i /\ Tail(<<i>>) = <<>>
<1>1. <<i>> \in Seq({i}) /\ <<>> \in Seq({i})
  OBVIOUS
<1>2. IsProgram(<<>>) /\ IsProgram(<<i>>)
  BY <1>1 DEF IsProgram
<1>3. Len(<<i>>) = 1 /\ Head(<<i>>) = i /\ <<i>> # <<>>
  OBVIOUS
<1>4. Tail(<<i>>) = <<>>
  OBVIOUS
<1> QED BY <1>2, <1>3, <1>4

LEMMA JoinedThrice ==
  ASSUME NEW p, NEW c, NEW d, IsProgram(p), IsProgram(c), IsProgram(d)
  PROVE  (p \o c) \o d = p \o (c \o d)
BY Joined

LEMMA Triples ==
  ASSUME NEW a, NEW b, NEW c, NEW d, NEW e, NEW f, <<a, b, c>> = <<d, e, f>>
  PROVE  a = d /\ b = e /\ c = f
OBVIOUS

(* The empty program.                                                      *)
LEMMA EarnsNothing ==
  ASSUME NEW x \in Account
  PROVE  Earns(<<>>, x, x)
<1>1. PICK L : L = {<<<<>>, x, x>>}
  OBVIOUS
<1>2. ASSUME NEW p, NEW u, NEW v, <<p, u, v>> \in L PROVE p = <<>> /\ u = x /\ v = x
  <2>1. PICK e : e = <<>>
    OBVIOUS
  <2>2. <<p, u, v>> = <<e, x, x>>
    BY <1>1, <1>2, <2>1
  <2>3. p = e /\ u = x /\ v = x
    BY <2>2, Triples
  <2> QED BY <2>1, <2>3
<1>3. IsProgram(<<>>)
  BY OneInstruction
<1>4. Leads(L, <<>>, x, x)
  BY <1>3 DEF Leads
<1>5. Closed(L)
  BY <1>2, <1>4 DEF Closed
<1>6. <<<<>>, x, x>> \in L
  BY <1>1
<1> QED BY <1>5, <1>6 DEF Earns

(* One instruction.                                                        *)
LEMMA EarnsOne ==
  ASSUME NEW i, NEW x \in Account, NEW y \in Account, Permits(i, x, y)
  PROVE  Earns(<<i>>, x, y)
<1>1. PICK L : L = {<<<<i>>, x, y>>, <<<<>>, y, y>>}
  OBVIOUS
<1>2. i.op # "either"
  BY DEF Permits
<1>3. <<<<i>>, x, y>> \in L /\ <<<<>>, y, y>> \in L
  BY <1>1
<1>4. ASSUME NEW p, NEW u, NEW v, <<p, u, v>> \in L
      PROVE  \/ p = <<i>> /\ u = x /\ v = y
             \/ p = <<>> /\ u = y /\ v = y
  <2>1. <<p, u, v>> = <<<<i>>, x, y>> \/ <<p, u, v>> = <<<<>>, y, y>>
    BY <1>1, <1>4
  <2> QED BY <2>1, Triples
<1>5. Leads(L, <<i>>, x, y) /\ Leads(L, <<>>, y, y)
  BY <1>2, <1>3, OneInstruction DEF Leads
<1>6. Closed(L)
  BY <1>4, <1>5 DEF Closed
<1> QED BY <1>3, <1>6 DEF Earns

(* One program behind another.                                             *)
LEMMA EarnsBoth ==
  ASSUME NEW p, NEW c, NEW x, NEW y, NEW z, Earns(p, x, y), Earns(c, y, z)
  PROVE  Earns(p \o c, x, z)
<1>1. PICK K : Closed(K) /\ <<p, x, y>> \in K
  BY DEF Earns
<1>2. PICK M : Closed(M) /\ <<c, y, z>> \in M
  BY DEF Earns
<1>3. IsProgram(c) /\ z \in Account
  BY <1>2 DEF Closed, Leads
<1>4. PICK L : L = {<<t[1] \o c, t[2], z>> : t \in {k \in K : k = <<k[1], k[2], y>>}} \cup M
  OBVIOUS
<1>5. ASSUME NEW r, NEW u, <<r, u, y>> \in K PROVE <<r \o c, u, z>> \in L
  <2>1. PICK k \in K : k = <<r, u, y>>
    BY <1>5
  <2>2. k[1] = r /\ k[2] = u
    BY <2>1
  <2> QED BY <1>4, <2>1, <2>2
<1>6. ASSUME NEW q, NEW u, NEW v, <<q, u, v>> \in L
      PROVE  \/ <<q, u, v>> \in M
             \/ v = z /\ \E r : q = r \o c /\ <<r, u, y>> \in K
  <2>1. CASE <<q, u, v>> \notin M
    <3>1. PICK k \in K : k = <<k[1], k[2], y>> /\ <<q, u, v>> = <<k[1] \o c, k[2], z>>
      BY <1>4, <1>6, <2>1
    <3>2. q = k[1] \o c /\ u = k[2] /\ v = z
      BY <3>1
    <3> QED BY <3>1, <3>2
  <2> QED BY <2>1
<1>7. ASSUME NEW r, NEW u, <<r, u, y>> \in K PROVE Leads(L, r \o c, u, z)
  <2>1. Leads(K, r, u, y)
    BY <1>1, <1>7 DEF Closed
  <2>2. IsProgram(r) /\ u \in Account
    BY <2>1 DEF Leads
  <2>3. CASE r = <<>>
    <3>1. u = y /\ r \o c = c
      BY <1>3, <2>1, <2>3, Joined DEF Leads
    <3>2. Leads(M, c, y, z)
      BY <1>2 DEF Closed
    <3>3. M \subseteq L
      BY <1>4
    <3> QED BY <3>1, <3>2, <3>3 DEF Leads
  <2>4. CASE r # <<>>
    <3>1. /\ IsProgram(r \o c) /\ r \o c # <<>> /\ IsProgram(Tail(r))
          /\ Head(r \o c) = Head(r) /\ Tail(r \o c) = Tail(r) \o c
      BY <1>3, <2>2, <2>4, Joined
    <3>2. CASE Head(r).op # "either"
      <4>1. PICK w : Permits(Head(r), u, w) /\ <<Tail(r), w, y>> \in K
        BY <2>1, <2>4, <3>2 DEF Leads
      <4>2. <<Tail(r) \o c, w, z>> \in L
        BY <1>5, <4>1
      <4> QED BY <1>3, <2>2, <3>1, <3>2, <4>1, <4>2 DEF Leads
    <3>3. CASE Head(r).op = "either"
      <4>1. ASSUME NEW d \in Head(r).programs
            PROVE  IsProgram(d) /\ <<d \o Tail(r \o c), u, z>> \in L
        <5>1. IsProgram(d) /\ <<d \o Tail(r), u, y>> \in K
          BY <2>1, <2>4, <3>3 DEF Leads
        <5>2. <<(d \o Tail(r)) \o c, u, z>> \in L
          BY <1>5, <5>1
        <5>3. (d \o Tail(r)) \o c = d \o (Tail(r) \o c)
          <6>1. PICK t : t = Tail(r) /\ IsProgram(t)
            BY <3>1
          <6>2. IsProgram(d) /\ IsProgram(t) /\ IsProgram(c)
            BY <1>3, <5>1, <6>1
          <6>3. (d \o t) \o c = d \o (t \o c)
            BY <6>2, JoinedThrice
          <6> QED BY <6>1, <6>3
        <5> QED BY <3>1, <5>1, <5>2, <5>3
      <4> QED BY <1>3, <2>2, <3>1, <3>3, <4>1 DEF Leads
    <3> QED BY <3>2, <3>3
  <2> QED BY <2>3, <2>4
<1>8. ASSUME NEW q, NEW u, NEW v, <<q, u, v>> \in M PROVE Leads(L, q, u, v)
  <2>1. Leads(M, q, u, v)
    BY <1>2, <1>8 DEF Closed
  <2>2. M \subseteq L
    BY <1>4
  <2> QED BY <2>1, <2>2 DEF Leads
<1>9. Closed(L)
  <2> SUFFICES ASSUME NEW q, NEW u, NEW v, <<q, u, v>> \in L PROVE Leads(L, q, u, v)
    BY DEF Closed
  <2>1. CASE <<q, u, v>> \in M
    BY <1>8, <2>1
  <2>2. CASE <<q, u, v>> \notin M
    <3>1. v = z /\ \E r : q = r \o c /\ <<r, u, y>> \in K
      BY <1>6, <2>2
    <3>2. PICK r : q = r \o c /\ <<r, u, y>> \in K
      BY <3>1
    <3> QED BY <1>7, <3>1, <3>2
  <2> QED BY <2>1, <2>2
<1>10. <<p \o c, x, z>> \in L
  BY <1>1, <1>5
<1> QED BY <1>9, <1>10 DEF Earns

(* A choice of programs that all lead there.                               *)
LEMMA EarnsEither ==
  ASSUME NEW P, NEW x \in Account, NEW y \in Account, \A p \in P : Earns(p, x, y)
  PROVE  Earns(<<Either(P)>>, x, y)
<1>1. PICK F : F = [p \in P |-> CHOOSE L : Closed(L) /\ <<p, x, y>> \in L]
  OBVIOUS
<1>2. ASSUME NEW p \in P PROVE Closed(F[p]) /\ <<p, x, y>> \in F[p]
  <2>1. \E L : Closed(L) /\ <<p, x, y>> \in L
    BY DEF Earns
  <2> QED BY <1>1, <2>1
<1>3. PICK e : e = <<Either(P)>>
  OBVIOUS
<1>4. PICK w, U : w = <<e, x, y>> /\ U = UNION {F[p] : p \in P}
  OBVIOUS
<1> DEFINE L == U \cup {w}
<1>5. \A p \in P : F[p] \subseteq L
  BY <1>4
<1>11. \A t \in U : \E p \in P : t \in F[p]
  BY <1>4
<1>12. w \in L /\ \A t \in L : t = w \/ t \in U
  OBVIOUS
<1> HIDE DEF L
<1>6. ASSUME NEW q, NEW u, NEW v, <<q, u, v>> \in L
      PROVE  \/ \E p \in P : <<q, u, v>> \in F[p]
             \/ q = e /\ u = x /\ v = y
  <2>1. PICK t : t = <<q, u, v>>
    OBVIOUS
  <2>2. t = w \/ \E p \in P : t \in F[p]
    BY <1>6, <1>11, <1>12, <2>1
  <2> QED BY <1>4, <2>1, <2>2, Triples
<1>7. ASSUME NEW p \in P, NEW q, NEW u, NEW v, <<q, u, v>> \in F[p] PROVE Leads(L, q, u, v)
  <2>1. Leads(F[p], q, u, v)
    BY <1>2, <1>7 DEF Closed
  <2>2. F[p] \subseteq L
    BY <1>5
  <2> QED BY <2>1, <2>2 DEF Leads
<1>8. Leads(L, e, x, y)
  <2>1. ASSUME NEW p \in P PROVE IsProgram(p) /\ <<p \o <<>>, x, y>> \in L
    <3>1. IsProgram(p)
      BY <1>2 DEF Closed, Leads
    <3>2. p \o <<>> = p
      BY <3>1, Joined
    <3> QED BY <1>2, <1>5, <3>1, <3>2
  <2>2. PICK i : i = Either(P)
    OBVIOUS
  <2>3. i.op = "either" /\ i.programs = P
    BY <2>2 DEF Either
  <2>4. IsProgram(<<i>>) /\ <<i>> # <<>> /\ Head(<<i>>) = i /\ Tail(<<i>>) = <<>>
    BY OneInstruction
  <2>5. Leads(L, <<i>>, x, y)
    BY <2>1, <2>3, <2>4 DEF Leads
  <2> QED BY <1>3, <2>2, <2>5
<1>9. Closed(L)
  <2> SUFFICES ASSUME NEW q, NEW u, NEW v, <<q, u, v>> \in L PROVE Leads(L, q, u, v)
    BY DEF Closed
  <2>1. CASE \E p \in P : <<q, u, v>> \in F[p]
    BY <1>7, <2>1
  <2>2. CASE q = e /\ u = x /\ v = y
    BY <1>8, <2>2
  <2> QED BY <1>6, <2>1, <2>2
<1>10. <<e, x, y>> \in L
  BY <1>4, <1>12
<1> QED BY <1>3, <1>9, <1>10 DEF Earns

(* What the first instruction leaves.                                      *)
LEMMA Spent ==
  ASSUME NEW p, NEW x, NEW y, Earns(p, x, y)
  PROVE  /\ IsProgram(p) /\ x \in Account /\ y \in Account
         /\ p = <<>> => x = y
         /\ p # <<>> /\ Head(p).op # "either" =>
              \E z : Permits(Head(p), x, z) /\ Earns(Tail(p), z, y)
         /\ p # <<>> /\ Head(p).op = "either" =>
              \A c \in Head(p).programs : Earns(c \o Tail(p), x, y)
<1>1. PICK L : Closed(L) /\ <<p, x, y>> \in L
  BY DEF Earns
<1>2. Leads(L, p, x, y)
  BY <1>1 DEF Closed
<1>3. \A c, u : <<c, u, y>> \in L => Earns(c, u, y)
  BY <1>1 DEF Earns
<1> QED BY <1>2, <1>3 DEF Leads

-----------------------------------------------------------------------------
(* The programs of the calls are in order.                                 *)

Acc(w, N, F) == [names |-> N, filled |-> F, work |-> w, rebound |-> {}]

WorkState == {"pending", "done"}
Fillable == Sketch \cup Name

LEMMA AccIs ==
  ASSUME NEW w, NEW N, NEW F
  PROVE  /\ w \in WorkState /\ N \in SUBSET Name /\ F \in SUBSET Fillable => Acc(w, N, F) \in Account
         /\ Acc(w, N, F).names = N /\ Acc(w, N, F).filled = F
         /\ Acc(w, N, F).work = w /\ Acc(w, N, F).rebound = {}
BY DEF Acc, Account, WorkState, Fillable

LEMMA EarnsAlloc ==
  ASSUME NEW w \in WorkState, NEW N \in SUBSET Name, NEW F \in SUBSET Fillable, NEW n \in Name \ N
  PROVE  /\ Earns(<<Alloc(n)>>, Acc(w, N, F), Acc("pending", N \cup {n}, F))
         /\ Earns(<<MakeCountBuffer(n)>>, Acc(w, N, F), Acc("pending", N \cup {n}, F \cup {n}))
<1>1. PICK x \in Account : x = Acc(w, N, F) /\ x.names = N /\ x.filled = F /\ x.rebound = {}
  BY AccIs
<1>2. PICK y \in Account :
        y = Acc("pending", N \cup {n}, F) /\ y.names = N \cup {n} /\ y.filled = F
          /\ y.work = "pending" /\ y.rebound = {}
  BY AccIs DEF WorkState
<1>3. PICK z \in Account :
        z = Acc("pending", N \cup {n}, F \cup {n}) /\ z.names = N \cup {n} /\ z.filled = F \cup {n}
          /\ z.work = "pending" /\ z.rebound = {}
  BY AccIs DEF WorkState, Fillable
<1>4. /\ Alloc(n).op = "alloc" /\ Alloc(n).name = n /\ Alloc(n).filled = FALSE
      /\ MakeCountBuffer(n).op = "alloc" /\ MakeCountBuffer(n).name = n
      /\ MakeCountBuffer(n).filled = TRUE
  BY DEF Alloc, MakeCountBuffer
<1>5. PICK i, j : i = Alloc(n) /\ j = MakeCountBuffer(n)
  OBVIOUS
<1>6. Permits(i, x, y)
  BY <1>1, <1>2, <1>4, <1>5 DEF Permits
<1>7. Permits(j, x, z)
  BY <1>1, <1>3, <1>4, <1>5 DEF Permits
<1> QED BY <1>1, <1>2, <1>3, <1>5, <1>6, <1>7, EarnsOne

LEMMA EarnsRun ==
  ASSUME NEW w \in WorkState, NEW N \in SUBSET Name, NEW F \in SUBSET Fillable,
         NEW R \in SUBSET F, NEW W \in SUBSET N
  PROVE  Earns(<<Run(R, W)>>, Acc(w, N, F), Acc("pending", N, F \cup W))
<1>1. PICK x \in Account : x = Acc(w, N, F) /\ x.names = N /\ x.filled = F /\ x.rebound = {}
  BY AccIs
<1>2. PICK y \in Account :
        y = Acc("pending", N, F \cup W) /\ y.names = N /\ y.filled = F \cup W
          /\ y.work = "pending" /\ y.rebound = {}
  <2>1. F \cup W \in SUBSET Fillable /\ "pending" \in WorkState
    BY DEF WorkState, Fillable
  <2>2. PICK G \in SUBSET Fillable : G = F \cup W
    BY <2>1
  <2>3. PICK y : y = Acc("pending", N, G)
    OBVIOUS
  <2>4. y \in Account /\ y.names = N /\ y.filled = G /\ y.work = "pending" /\ y.rebound = {}
    BY <2>1, <2>3, AccIs
  <2> QED BY <2>2, <2>3, <2>4
<1>3. PICK i : i = Run(R, W)
  OBVIOUS
<1>4. i.op = "run" /\ i.reads = R /\ i.writes = W
  BY <1>3 DEF Run
<1>5. Permits(i, x, y)
  BY <1>1, <1>2, <1>4 DEF Permits
<1> QED BY <1>1, <1>2, <1>3, <1>5, EarnsOne

LEMMA EarnsSync ==
  ASSUME NEW w \in WorkState, NEW N \in SUBSET Name, NEW F \in SUBSET Fillable, NEW G \in SUBSET F
  PROVE  Earns(<<Sync>>, Acc(w, N, F), Acc("done", N, G))
<1>1. PICK x \in Account : x = Acc(w, N, F) /\ x.names = N /\ x.filled = F /\ x.rebound = {}
  BY AccIs
<1>2. PICK y \in Account :
        y = Acc("done", N, G) /\ y.names = N /\ y.filled = G /\ y.work = "done" /\ y.rebound = {}
  BY AccIs DEF WorkState
<1>3. PICK i : i = Sync
  OBVIOUS
<1>4. i.op = "sync"
  BY <1>3 DEF Sync
<1>5. Permits(i, x, y)
  BY <1>1, <1>2, <1>4 DEF Permits
<1> QED BY <1>1, <1>2, <1>3, <1>5, EarnsOne

LEMMA EarnsFree ==
  ASSUME NEW w \in WorkState, NEW N \in SUBSET Name, NEW F \in SUBSET Fillable,
         NEW n \in N, NEW G \in SUBSET (F \ {n})
  PROVE  Earns(<<Free(n)>>, Acc(w, N, F), Acc(w, N \ {n}, G))
<1>1. PICK x \in Account :
        x = Acc(w, N, F) /\ x.names = N /\ x.filled = F /\ x.work = w /\ x.rebound = {}
  <2>1. PICK x : x = Acc(w, N, F)
    OBVIOUS
  <2>2. x \in Account /\ x.names = N /\ x.filled = F /\ x.work = w /\ x.rebound = {}
    BY <2>1, AccIs
  <2> QED BY <2>1, <2>2
<1>2. PICK y \in Account :
        y = Acc(w, N \ {n}, G) /\ y.names = N \ {n} /\ y.filled = G /\ y.work = w /\ y.rebound = {}
  <2>1. PICK M \in SUBSET Name : M = N \ {n}
    OBVIOUS
  <2>2. G \in SUBSET Fillable
    OBVIOUS
  <2>3. PICK y : y = Acc(w, M, G)
    OBVIOUS
  <2>4. y \in Account /\ y.names = M /\ y.filled = G /\ y.work = w /\ y.rebound = {}
    BY <2>2, <2>3, AccIs
  <2> QED BY <2>1, <2>3, <2>4
<1>3. PICK i : i = Free(n)
  OBVIOUS
<1>4. i.op = "free" /\ i.name = n
  BY <1>3 DEF Free
<1>5. Permits(i, x, y)
  BY <1>1, <1>2, <1>4 DEF Permits
<1> QED BY <1>1, <1>2, <1>3, <1>5, EarnsOne

LEMMA EarnsCommitNone ==
  ASSUME NEW N \in SUBSET Name, NEW F \in SUBSET Fillable
  PROVE  Earns(<<Commit(None)>>, Acc("done", N, F), Acc("done", N, F \ Sketch))
<1>1. PICK x \in Account :
        x = Acc("done", N, F) /\ x.names = N /\ x.filled = F /\ x.work = "done" /\ x.rebound = {}
  BY AccIs DEF WorkState
<1>2. PICK y \in Account :
        y = Acc("done", N, F \ Sketch) /\ y.names = N /\ y.filled = F \ Sketch /\ y.rebound = {}
  <2>1. PICK G \in SUBSET Fillable : G = F \ Sketch
    OBVIOUS
  <2>2. "done" \in WorkState
    BY DEF WorkState
  <2>3. PICK y : y = Acc("done", N, G)
    OBVIOUS
  <2>4. y \in Account /\ y.names = N /\ y.filled = G /\ y.rebound = {}
    BY <2>2, <2>3, AccIs
  <2> QED BY <2>1, <2>3, <2>4
<1>3. PICK i : i = Commit(None)
  OBVIOUS
<1>4. i.op = "commit" /\ i.name = None
  BY <1>3 DEF Commit
<1>5. None \notin N /\ None \notin F
  BY StreamsAssumption DEF Fillable
<1>6. N \ {None} = N /\ F \ Sketch \subseteq F \ (Sketch \cup {None})
  BY <1>5
<1>7. Permits(i, x, y)
  BY <1>1, <1>2, <1>4, <1>6 DEF Permits
<1> QED BY <1>1, <1>2, <1>3, <1>7, EarnsOne

LEMMA EarnsCommit ==
  ASSUME NEW N \in SUBSET Name, NEW F \in SUBSET Fillable, NEW n \in N \cap F
  PROVE  \E y \in Account :
           /\ Earns(<<Rebind(n)>>, Acc("done", N, F), y)
           /\ Earns(<<Commit(n)>>, y, Acc("done", N \ {n}, F \ (Sketch \cup {n})))
<1>1. PICK x \in Account :
        x = Acc("done", N, F) /\ x.names = N /\ x.filled = F /\ x.work = "done" /\ x.rebound = {}
  BY AccIs DEF WorkState
<1>2. PICK y \in Account :
        y.names = N /\ y.filled = F /\ y.work = "done" /\ y.rebound = {n}
  <2>1. [names |-> N, filled |-> F, work |-> "done", rebound |-> {n}] \in Account
    BY DEF Account, Fillable
  <2> QED BY <2>1
<1>3. PICK z \in Account :
        z = Acc("done", N \ {n}, F \ (Sketch \cup {n})) /\ z.names = N \ {n}
          /\ z.filled = F \ (Sketch \cup {n}) /\ z.rebound = {}
  <2>1. /\ N \ {n} \in SUBSET Name /\ F \ (Sketch \cup {n}) \in SUBSET Fillable
        /\ "done" \in WorkState
    BY DEF WorkState
  <2>2. PICK M \in SUBSET Name, G \in SUBSET Fillable : M = N \ {n} /\ G = F \ (Sketch \cup {n})
    BY <2>1
  <2>3. PICK z : z = Acc("done", M, G)
    OBVIOUS
  <2>4. z \in Account /\ z.names = M /\ z.filled = G /\ z.rebound = {}
    BY <2>1, <2>3, AccIs
  <2> QED BY <2>2, <2>3, <2>4
<1>4. PICK i, j : i = Rebind(n) /\ j = Commit(n)
  OBVIOUS
<1>5. i.op = "rebind" /\ i.name = n /\ j.op = "commit" /\ j.name = n
  BY <1>4 DEF Rebind, Commit
<1>6. n # None
  BY StreamsAssumption
<1>7. Permits(i, x, y)
  BY <1>1, <1>2, <1>5 DEF Permits
<1>8. {n} \ {None} = {n}
  BY <1>6
<1>9. Permits(j, y, z)
  BY <1>2, <1>3, <1>5, <1>8 DEF Permits
<1> QED BY <1>1, <1>3, <1>4, <1>7, <1>9, EarnsOne

(* A tuple of instructions is one behind the other.                        *)
LEMMA Appended ==
  ASSUME NEW S, NEW a, NEW e, NEW t,
         a \in Seq(S) /\ e \in S /\ t \in Seq(S) /\ Len(t) = Len(a) + 1,
         (\A n \in 1 .. Len(a) : t[n] = a[n]) /\ t[Len(a) + 1] = e
  PROVE  a \o <<e>> = t
<1>1. PICK u : u = <<e>>
  OBVIOUS
<1>2. u \in Seq(S) /\ Len(u) = 1 /\ u[1] = e
  BY <1>1
<1>3. PICK l \in Nat : l = Len(a)
  BY LenProperties
<1>4. PICK r : r = a \o u
  OBVIOUS
<1>5. /\ r \in Seq(S) /\ Len(r) = l + 1
      /\ \A n \in 1 .. l + 1 : r[n] = IF n <= l THEN a[n] ELSE u[n - l]
  <2>1. /\ a \o u \in Seq(S) /\ Len(a \o u) = Len(a) + Len(u)
        /\ \A n \in 1 .. Len(a) + Len(u) :
              (a \o u)[n] = IF n <= Len(a) THEN a[n] ELSE u[n - Len(a)]
    BY <1>2, ConcatProperties
  <2>2. /\ r \in Seq(S) /\ Len(r) = Len(a) + Len(u)
        /\ \A n \in 1 .. Len(a) + Len(u) : r[n] = IF n <= Len(a) THEN a[n] ELSE u[n - Len(a)]
    BY <1>4, <2>1
  <2> QED BY <1>2, <1>3, <2>2
<1>6. \A n \in 1 .. l + 1 : r[n] = t[n]
  <2> SUFFICES ASSUME NEW n \in 1 .. l + 1 PROVE r[n] = t[n]
    OBVIOUS
  <2>1. CASE n <= l
    BY <1>3, <1>5, <2>1
  <2>2. CASE n = l + 1
    <3>1. n - l = 1 /\ ~ (n <= l)
      BY <2>2
    <3> QED BY <1>2, <1>3, <1>5, <2>2, <3>1
  <2> QED BY <2>1, <2>2
<1>7. Len(r) = Len(t) /\ \A n \in 1 .. Len(r) : r[n] = t[n]
  BY <1>3, <1>5, <1>6
<1>8. r = t
  BY <1>5, <1>7, SeqEqual
<1> QED BY <1>1, <1>4, <1>8

LEMMA Tuples ==
  ASSUME NEW h, NEW i, NEW j, NEW k
  PROVE  /\ <<h>> \o <<i>> = <<h, i>>
         /\ <<h, i>> \o <<j>> = <<h, i, j>>
         /\ <<h, i, j>> \o <<k>> = <<h, i, j, k>>
<1>1. PICK S : S = {h, i, j, k}
  OBVIOUS
<1>2. PICK a, b, c, d : a = <<h>> /\ b = <<h, i>> /\ c = <<h, i, j>> /\ d = <<h, i, j, k>>
  OBVIOUS
<1>3. a \in Seq(S) /\ b \in Seq(S) /\ c \in Seq(S) /\ d \in Seq(S)
  BY <1>1, <1>2
<1>4. /\ Len(a) = 1 /\ a[1] = h
      /\ Len(b) = 2 /\ b[1] = h /\ b[2] = i
  BY <1>2
<1>5. /\ Len(c) = 3 /\ c[1] = h /\ c[2] = i /\ c[3] = j
      /\ Len(d) = 4 /\ d[1] = h /\ d[2] = i /\ d[3] = j /\ d[4] = k
  BY <1>2
<1>6. i \in S /\ j \in S /\ k \in S
  BY <1>1
<1>7. a \o <<i>> = b
  <2>1. /\ Len(b) = Len(a) + 1 /\ b[Len(a) + 1] = i
        /\ \A n \in 1 .. Len(a) : b[n] = a[n]
    BY <1>4
  <2> QED BY <1>3, <1>6, <2>1, Appended
<1>8. b \o <<j>> = c
  <2>1. /\ Len(c) = Len(b) + 1 /\ c[Len(b) + 1] = j
        /\ \A n \in 1 .. Len(b) : c[n] = b[n]
    BY <1>4, <1>5
  <2> QED BY <1>3, <1>6, <2>1, Appended
<1>9. c \o <<k>> = d
  <2>1. /\ Len(d) = Len(c) + 1 /\ d[Len(c) + 1] = k
        /\ \A n \in 1 .. Len(c) : d[n] = c[n]
    BY <1>5
  <2> QED BY <1>3, <1>6, <2>1, Appended
<1> QED BY <1>2, <1>7, <1>8, <1>9

LEMMA EarnsTuple ==
  ASSUME NEW h, NEW i, NEW j, NEW k, NEW v, NEW w, NEW x, NEW y, NEW z,
         Earns(<<h>>, v, w), Earns(<<i>>, w, x)
  PROVE  /\ Earns(<<h, i>>, v, x)
         /\ Earns(<<j>>, x, y) => Earns(<<h, i, j>>, v, y)
         /\ Earns(<<j>>, x, y) /\ Earns(<<k>>, y, z) => Earns(<<h, i, j, k>>, v, z)
<1>1. PICK p, q, r : p = <<h, i>> /\ q = <<h, i, j>> /\ r = <<h, i, j, k>>
  OBVIOUS
<1>2. <<h>> \o <<i>> = p /\ p \o <<j>> = q /\ q \o <<k>> = r
  BY <1>1, Tuples
<1>3. Earns(p, v, x)
  BY <1>2, EarnsBoth
<1>4. Earns(<<j>>, x, y) => Earns(q, v, y)
  BY <1>2, <1>3, EarnsBoth
<1>5. Earns(<<j>>, x, y) /\ Earns(<<k>>, y, z) => Earns(r, v, z)
  BY <1>2, <1>4, EarnsBoth
<1> QED BY <1>1, <1>3, <1>4, <1>5

LEMMA ReadCountEarns ==
  ASSUME NEW w \in WorkState, NEW N \in SUBSET Name, NEW F \in SUBSET Fillable, NEW n \in F
  PROVE  Earns(ReadCount(n), Acc(w, N, F), Acc("done", N, F))
<1>1. Earns(<<Run({n}, {})>>, Acc(w, N, F), Acc("pending", N, F))
  <2>1. F \cup {} = F /\ {n} \in SUBSET F /\ {} \in SUBSET N
    OBVIOUS
  <2>2. Earns(<<Run({n}, {})>>, Acc(w, N, F), Acc("pending", N, F \cup {}))
    BY <2>1, EarnsRun
  <2> QED BY <2>1, <2>2
<1>2. Earns(<<Sync>>, Acc("pending", N, F), Acc("done", N, F))
  BY EarnsSync DEF WorkState
<1>3. PICK i, j : i = Run({n}, {}) /\ j = Sync
  OBVIOUS
<1>4. Earns(<<i, j>>, Acc(w, N, F), Acc("done", N, F))
  BY <1>1, <1>2, <1>3, EarnsTuple
<1> QED BY <1>3, <1>4 DEF ReadCount

LEMMA CompactEarns ==
  ASSUME NEW w \in WorkState, NEW N \in SUBSET Name, NEW F \in SUBSET Fillable,
         NEW R \in SUBSET F, NEW n \in Name \ (N \cup F), NEW c \in Name \ (N \cup F), n # c
  PROVE  Earns(Compact(R, n, c), Acc(w, N, F), Acc("done", N \cup {n}, F \cup {n}))
<1>1. Earns(<<Alloc(n)>>, Acc(w, N, F), Acc("pending", N \cup {n}, F))
  BY EarnsAlloc
<1>2. PICK M \in SUBSET Name : M = N \cup {n}
  OBVIOUS
<1>3. c \in Name \ M
  BY <1>2
<1>4. PICK K \in SUBSET Name, H \in SUBSET Fillable : K = M \cup {c} /\ H = F \cup {c}
  BY DEF Fillable
<1>5. Earns(<<MakeCountBuffer(c)>>, Acc("pending", M, F), Acc("pending", K, H))
  BY <1>3, <1>4, EarnsAlloc DEF WorkState
<1>6. PICK J \in SUBSET Fillable : J = H \cup {n, c}
  BY DEF Fillable
<1>7. Earns(<<Run(R, {n, c})>>, Acc("pending", K, H), Acc("pending", K, J))
  <2>1. R \in SUBSET H /\ {n, c} \in SUBSET K
    BY <1>2, <1>4
  <2> QED BY <1>6, <2>1, EarnsRun DEF WorkState
<1>8. PICK h, i, j : h = Alloc(n) /\ i = MakeCountBuffer(c) /\ j = Run(R, {n, c})
  OBVIOUS
<1>9. Earns(<<h, i, j>>, Acc(w, N, F), Acc("pending", K, J))
  BY <1>1, <1>2, <1>5, <1>7, <1>8, EarnsTuple
<1>10. Earns(ReadCount(c), Acc("pending", K, J), Acc("done", K, J))
  BY <1>6, ReadCountEarns DEF WorkState
<1>11. Earns(<<Free(c)>>, Acc("done", K, J), Acc("done", N \cup {n}, F \cup {n}))
  <2>1. c \in K /\ F \cup {n} \in SUBSET (J \ {c}) /\ K \ {c} = N \cup {n}
    BY <1>2, <1>3, <1>4, <1>6
  <2>2. Earns(<<Free(c)>>, Acc("done", K, J), Acc("done", K \ {c}, F \cup {n}))
    BY <2>1, EarnsFree DEF WorkState
  <2> QED BY <2>1, <2>2
<1>12. Earns(<<h, i, j>> \o ReadCount(c), Acc(w, N, F), Acc("done", K, J))
  BY <1>9, <1>10, EarnsBoth
<1>13. Earns((<<h, i, j>> \o ReadCount(c)) \o <<Free(c)>>, Acc(w, N, F),
             Acc("done", N \cup {n}, F \cup {n}))
  BY <1>11, <1>12, EarnsBoth
<1> QED BY <1>8, <1>13 DEF Compact

LEMMA CommitEarns ==
  ASSUME NEW N \in SUBSET Name, NEW F \in SUBSET Fillable, NEW n \in N \cap F,
         NEW M, NEW G, M = N \ {n}, G = F \ (Sketch \cup {n})
  PROVE  /\ \A w \in WorkState :
              Earns(<<Sync, Rebind(n), Commit(n)>>, Acc(w, N, F), Acc("done", M, G))
         /\ \A m \in M : \A w \in WorkState :
              Earns(<<Sync, Rebind(n), Commit(n), Free(m)>>, Acc(w, N, F),
                    Acc("done", M \ {m}, G \ {m}))
<1>1. \A w \in WorkState : Earns(<<Sync>>, Acc(w, N, F), Acc("done", N, F))
  BY EarnsSync
<1>2. PICK y \in Account :
        Earns(<<Rebind(n)>>, Acc("done", N, F), y) /\ Earns(<<Commit(n)>>, y, Acc("done", M, G))
  BY EarnsCommit
<1>3. \A m \in M : Earns(<<Free(m)>>, Acc("done", M, G), Acc("done", M \ {m}, G \ {m}))
  <2>1. M \in SUBSET Name /\ G \in SUBSET Fillable /\ \A m \in M : G \ {m} \in SUBSET (G \ {m})
    OBVIOUS
  <2> QED BY <2>1, EarnsFree DEF WorkState
<1>4. PICK h, i, j : h = Sync /\ i = Rebind(n) /\ j = Commit(n)
  OBVIOUS
<1>5. ASSUME NEW w \in WorkState
      PROVE  Earns(<<h, i, j>>, Acc(w, N, F), Acc("done", M, G))
  BY <1>1, <1>2, <1>4, EarnsTuple
<1>6. ASSUME NEW w \in WorkState, NEW m \in M
      PROVE  Earns(<<h, i, j, Free(m)>>, Acc(w, N, F), Acc("done", M \ {m}, G \ {m}))
  <2>1. PICK k : k = Free(m)
    OBVIOUS
  <2>2. Earns(<<k>>, Acc("done", M, G), Acc("done", M \ {m}, G \ {m}))
    BY <1>3, <2>1
  <2>3. Earns(<<h, i, j, k>>, Acc(w, N, F), Acc("done", M \ {m}, G \ {m}))
    BY <1>1, <1>2, <1>4, <2>2, EarnsTuple
  <2> QED BY <2>1, <2>3
<1> QED BY <1>4, <1>5, <1>6

LEMMA CopyEarns ==
  ASSUME NEW w \in WorkState, NEW N \in SUBSET Name, NEW F \in SUBSET Fillable,
         NEW R \in SUBSET F, NEW n \in Name \ (N \cup F)
  PROVE  Earns(<<Alloc(n), Run(R, {n})>>, Acc(w, N, F), Acc("pending", N \cup {n}, F \cup {n}))
<1>1. Earns(<<Alloc(n)>>, Acc(w, N, F), Acc("pending", N \cup {n}, F))
  BY EarnsAlloc
<1>2. PICK M \in SUBSET Name : M = N \cup {n}
  OBVIOUS
<1>3. {n} \in SUBSET M
  BY <1>2
<1>4. Earns(<<Run(R, {n})>>, Acc("pending", M, F), Acc("pending", M, F \cup {n}))
  BY <1>3, EarnsRun DEF WorkState
<1>5. PICK i, j : i = Alloc(n) /\ j = Run(R, {n})
  OBVIOUS
<1>6. Earns(<<i, j>>, Acc(w, N, F), Acc("pending", M, F \cup {n}))
  BY <1>1, <1>2, <1>4, <1>5, EarnsTuple
<1> QED BY <1>2, <1>5, <1>6

LEMMA InstallEarns ==
  ASSUME NEW w \in WorkState, NEW N \in SUBSET Name, NEW F \in SUBSET Fillable,
         NEW n \in N \cap F, "next" \notin N \cup F
  PROVE  Earns(Install(n), Acc(w, N, F), Acc("done", N \ {n}, F \ (Sketch \cup {n})))
<1>1. PICK x, y : x = Acc(w, N, F) /\ y = Acc("done", N \ {n}, F \ (Sketch \cup {n}))
  OBVIOUS
<1>2. x \in Account /\ y \in Account
  <2>1. /\ N \ {n} \in SUBSET Name /\ F \ (Sketch \cup {n}) \in SUBSET Fillable
        /\ "done" \in WorkState
    BY DEF WorkState
  <2> QED BY <1>1, <2>1, AccIs
<1>3. Earns(<<Sync, Commit(None), Free(n)>>, x, y)
  <2>1. Earns(<<Sync>>, x, Acc("done", N, F))
    BY <1>1, EarnsSync
  <2>2. Earns(<<Commit(None)>>, Acc("done", N, F), Acc("done", N, F \ Sketch))
    BY EarnsCommitNone
  <2>3. Earns(<<Free(n)>>, Acc("done", N, F \ Sketch), y)
    <3>1. PICK H \in SUBSET Fillable : H = F \ Sketch
      OBVIOUS
    <3>2. F \ (Sketch \cup {n}) \in SUBSET (H \ {n})
      BY <3>1
    <3> QED BY <1>1, <3>1, <3>2, EarnsFree DEF WorkState
  <2>4. PICK h, i, j : h = Sync /\ i = Commit(None) /\ j = Free(n)
    OBVIOUS
  <2>5. Earns(<<h, i, j>>, x, y)
    BY <2>1, <2>2, <2>3, <2>4, EarnsTuple
  <2> QED BY <2>4, <2>5
<1>4. Earns(<<Sync, Rebind(n), Commit(n)>>, x, y)
  BY <1>1, CommitEarns
<1>5. PICK P \in SUBSET Name, H \in SUBSET Fillable : P = N \cup {"next"} /\ H = F \cup {"next"}
  BY DEF Name, Fillable
<1>6. Earns(<<Alloc("next"), Run({n}, {"next"})>>, x, Acc("pending", P, H))
  <2>1. {n} \in SUBSET F /\ "next" \in Name \ (N \cup F)
    BY DEF Name
  <2>2. PICK k \in Name \ (N \cup F) : k = "next"
    BY <2>1
  <2>3. Earns(<<Alloc(k), Run({n}, {k})>>, x, Acc("pending", P, H))
    BY <1>1, <1>5, <2>1, <2>2, CopyEarns
  <2> QED BY <2>2, <2>3
<1>7. Earns(<<Run({n}, {})>>, Acc("pending", P, H), Acc("pending", P, H))
  <2>1. H \cup {} = H /\ {n} \in SUBSET H /\ {} \in SUBSET P
    BY <1>5
  <2>2. Earns(<<Run({n}, {})>>, Acc("pending", P, H), Acc("pending", P, H \cup {}))
    BY <2>1, EarnsRun DEF WorkState
  <2> QED BY <2>1, <2>2
<1>8. Earns(<<Sync, Rebind("next"), Commit("next"), Free(n)>>, Acc("pending", P, H), y)
  <2>1. PICK k, M, G : k = "next" /\ M = P \ {k} /\ G = H \ (Sketch \cup {k})
    OBVIOUS
  <2>2. k \in P \cap H /\ n \in M
    BY <1>5, <2>1
  <2>3. Earns(<<Sync, Rebind(k), Commit(k), Free(n)>>, Acc("pending", P, H),
              Acc("done", M \ {n}, G \ {n}))
    BY <2>1, <2>2, CommitEarns DEF WorkState
  <2>4. M \ {n} = N \ {n} /\ G \ {n} = F \ (Sketch \cup {n})
    BY <1>5, <2>1
  <2> QED BY <1>1, <2>1, <2>3, <2>4
<1>9. PICK b, c, d, e, p :
        /\ b = <<Alloc("next"), Run({n}, {"next"})>>
        /\ c = <<Run({n}, {})>>
        /\ d = <<Sync, Rebind("next"), Commit("next"), Free(n)>>
        /\ e = <<Sync, Commit(None), Free(n)>>
        /\ p = <<Sync, Rebind(n), Commit(n)>>
  OBVIOUS
<1>10. Earns(b \o d, x, y)
  BY <1>6, <1>8, <1>9, EarnsBoth
<1>11. Earns(b \o c, x, Acc("pending", P, H))
  BY <1>6, <1>7, <1>9, EarnsBoth
<1>12. Earns((b \o c) \o d, x, y)
  BY <1>8, <1>9, <1>11, EarnsBoth
<1>13. Earns(<<Either({e, p, b \o d, (b \o c) \o d})>>, x, y)
  <2>1. PICK A : A = {e, p, b \o d, (b \o c) \o d}
    OBVIOUS
  <2>2. \A a \in A : Earns(a, x, y)
    BY <1>3, <1>4, <1>9, <1>10, <1>12, <2>1
  <2>3. Earns(<<Either(A)>>, x, y)
    BY <1>2, <2>2, EarnsEither
  <2> QED BY <2>1, <2>3
<1> QED BY <1>1, <1>9, <1>13 DEF Install

LEMMA InstallNothingEarns ==
  ASSUME NEW w \in WorkState, NEW F \in SUBSET Sketch
  PROVE  Earns(InstallNothing, Acc(w, {}, F), Blank)
<1>1. F \in SUBSET Fillable /\ {} \in SUBSET Name /\ F \ Sketch = {}
  BY DEF Fillable
<1>2. Earns(<<Sync>>, Acc(w, {}, F), Acc("done", {}, F))
  BY <1>1, EarnsSync
<1>3. Earns(<<Commit(None)>>, Acc("done", {}, F), Acc("done", {}, {}))
  <2>1. Earns(<<Commit(None)>>, Acc("done", {}, F), Acc("done", {}, F \ Sketch))
    BY <1>1, EarnsCommitNone
  <2> QED BY <1>1, <2>1
<1>4. PICK i, j : i = Sync /\ j = Commit(None)
  OBVIOUS
<1>5. Earns(<<i, j>>, Acc(w, {}, F), Acc("done", {}, {}))
  BY <1>2, <1>3, <1>4, EarnsTuple
<1>6. Acc("done", {}, {}) = Blank
  BY DEF Acc, Blank
<1> QED BY <1>4, <1>5, <1>6 DEF InstallNothing

\* The names of a program's buffers, besides the ones that stand for sketches.
LEMMA MergeEarns ==
  ASSUME NEW w \in WorkState, NEW N \in SUBSET Name, NEW F \in SUBSET Fillable,
         NEW f \in F, NEW g \in F,
         {"merged", "combined", "distinct"} \cap (N \cup F) = {}
  PROVE  Earns(MergeUnique(f, g), Acc(w, N, F),
               Acc("done", N \cup {"combined"}, F \cup {"combined"}))
<1>1. PICK m, c, d : m = "merged" /\ c = "combined" /\ d = "distinct"
  OBVIOUS
<1>2. /\ m \in Name \ (N \cup F) /\ c \in Name \ (N \cup F) /\ d \in Name \ (N \cup F)
      /\ m # c /\ m # d /\ c # d
  BY <1>1 DEF Name
<1>3. PICK P \in SUBSET Name, H \in SUBSET Fillable : P = N \cup {m} /\ H = F \cup {m}
  BY <1>2 DEF Fillable
<1>4. Earns(<<Alloc(m), Run({f, g}, {m})>>, Acc(w, N, F), Acc("pending", P, H))
  <2>1. {f, g} \in SUBSET F
    OBVIOUS
  <2> QED BY <1>2, <1>3, <2>1, CopyEarns
<1>5. PICK Q \in SUBSET Name, J \in SUBSET Fillable : Q = P \cup {c} /\ J = H \cup {c}
  BY <1>2 DEF Fillable
<1>6. Earns(Compact({m}, c, d), Acc("pending", P, H), Acc("done", Q, J))
  <2>1. {m} \in SUBSET H /\ c \in Name \ (P \cup H) /\ d \in Name \ (P \cup H)
    BY <1>2, <1>3
  <2> QED BY <1>2, <1>5, <2>1, CompactEarns DEF WorkState
<1>7. Earns(<<Free(m)>>, Acc("done", Q, J), Acc("done", N \cup {c}, F \cup {c}))
  <2>1. m \in Q /\ F \cup {c} \in SUBSET (J \ {m}) /\ Q \ {m} = N \cup {c}
    BY <1>2, <1>3, <1>5
  <2>2. Earns(<<Free(m)>>, Acc("done", Q, J), Acc("done", Q \ {m}, F \cup {c}))
    BY <2>1, EarnsFree DEF WorkState
  <2> QED BY <2>1, <2>2
<1>8. Earns(<<Alloc(m), Run({f, g}, {m})>> \o Compact({m}, c, d), Acc(w, N, F), Acc("done", Q, J))
  BY <1>4, <1>6, EarnsBoth
<1>9. Earns((<<Alloc(m), Run({f, g}, {m})>> \o Compact({m}, c, d)) \o <<Free(m)>>, Acc(w, N, F),
            Acc("done", N \cup {c}, F \cup {c}))
  BY <1>7, <1>8, EarnsBoth
<1> QED BY <1>1, <1>9 DEF MergeUnique

LEMMA ScreenEarns ==
  ASSUME NEW w \in WorkState, NEW F \in SUBSET Sketch
  PROVE  Earns(ScreenKeys, Acc(w, {}, F), Acc("done", {"screened"}, F \cup {"screened"}))
<1>1. PICK n, c : n = "screened" /\ c = "survivors"
  OBVIOUS
<1>2. n \in Name /\ c \in Name /\ n # c /\ n \notin F /\ c \notin F
  BY <1>1, StreamsAssumption DEF Name
<1>3. PICK N \in SUBSET Name, K \in SUBSET Name : N = {n} /\ K = {n, c}
  BY <1>2
<1>4. PICK H \in SUBSET Fillable, J \in SUBSET Fillable : H = F \cup {c} /\ J = F \cup {n, c}
  BY <1>2 DEF Fillable
<1>5. Earns(<<Alloc(n)>>, Acc(w, {}, F), Acc("pending", N, F))
  <2>1. PICK E \in SUBSET Name : E = {}
    OBVIOUS
  <2>2. n \in Name \ E /\ F \in SUBSET Fillable
    BY <1>2, <2>1 DEF Fillable
  <2>3. Earns(<<Alloc(n)>>, Acc(w, E, F), Acc("pending", E \cup {n}, F))
    BY <2>2, EarnsAlloc
  <2>4. E \cup {n} = N
    BY <1>3, <2>1
  <2> QED BY <2>1, <2>3, <2>4
<1>6. Earns(<<MakeCountBuffer(c)>>, Acc("pending", N, F), Acc("pending", K, H))
  <2>1. c \in Name \ N /\ F \in SUBSET Fillable /\ N \cup {c} = K
    BY <1>2, <1>3 DEF Fillable
  <2>2. Earns(<<MakeCountBuffer(c)>>, Acc("pending", N, F), Acc("pending", N \cup {c}, F \cup {c}))
    BY <2>1, EarnsAlloc DEF WorkState
  <2> QED BY <1>4, <2>1, <2>2
<1>7. Earns(<<Run({c}, {n, c})>>, Acc("pending", K, H), Acc("pending", K, J))
  <2>1. {c} \in SUBSET H /\ {n, c} \in SUBSET K /\ H \cup {n, c} = J
    BY <1>3, <1>4
  <2>2. Earns(<<Run({c}, {n, c})>>, Acc("pending", K, H), Acc("pending", K, H \cup {n, c}))
    BY <2>1, EarnsRun DEF WorkState
  <2> QED BY <2>1, <2>2
<1>8. Earns(ReadCount(c), Acc("pending", K, J), Acc("done", K, J))
  <2>1. c \in J
    BY <1>4
  <2> QED BY <2>1, ReadCountEarns DEF WorkState
<1>9. Earns(<<Free(c)>>, Acc("done", K, J), Acc("done", N, F \cup {n}))
  <2>1. c \in K /\ F \cup {n} \in SUBSET (J \ {c}) /\ K \ {c} = N
    BY <1>2, <1>3, <1>4
  <2>2. Earns(<<Free(c)>>, Acc("done", K, J), Acc("done", K \ {c}, F \cup {n}))
    BY <2>1, EarnsFree DEF WorkState
  <2> QED BY <2>1, <2>2
<1>10. PICK h, i, j : h = Alloc(n) /\ i = MakeCountBuffer(c) /\ j = Run({c}, {n, c})
  OBVIOUS
<1>11. Earns(<<h, i, j>>, Acc(w, {}, F), Acc("pending", K, J))
  BY <1>5, <1>6, <1>7, <1>10, EarnsTuple
<1>12. Earns(<<h, i, j>> \o ReadCount(c), Acc(w, {}, F), Acc("done", K, J))
  BY <1>8, <1>11, EarnsBoth
<1>13. Earns((<<h, i, j>> \o ReadCount(c)) \o <<Free(c)>>, Acc(w, {}, F), Acc("done", N, F \cup {n}))
  BY <1>9, <1>12, EarnsBoth
<1> QED BY <1>1, <1>3, <1>10, <1>13 DEF ScreenKeys

LEMMA SortEarns ==
  ASSUME NEW w \in WorkState, NEW F \in SUBSET Sketch
  PROVE  Earns(SortUnique, Acc(w, {"screened"}, F \cup {"screened"}),
               Acc("done", {"incoming"}, F \cup {"incoming"}))
<1>1. PICK n, a, c, d : n = "screened" /\ a = "alternate" /\ c = "incoming" /\ d = "distinct"
  OBVIOUS
<1>2. /\ n \in Name /\ a \in Name /\ c \in Name /\ d \in Name
      /\ n # a /\ n # c /\ n # d /\ a # c /\ a # d /\ c # d
      /\ n \notin F /\ a \notin F /\ c \notin F /\ d \notin F
  BY <1>1, StreamsAssumption DEF Name
<1>3. PICK N \in SUBSET Name, K \in SUBSET Name, Q \in SUBSET Name, P \in SUBSET Name :
        N = {n} /\ K = {n, a} /\ Q = {n, a, c} /\ P = {n, c}
  BY <1>2
<1>4. PICK G \in SUBSET Fillable, H \in SUBSET Fillable, J \in SUBSET Fillable :
        G = F \cup {n} /\ H = F \cup {n, a} /\ J = F \cup {n, a, c}
  BY <1>2 DEF Fillable
<1>5. PICK T \in SUBSET Fillable : T = F \cup {n, c}
  BY <1>2 DEF Fillable
<1>6. Earns(<<Alloc(a)>>, Acc(w, N, G), Acc("pending", K, G))
  <2>1. a \in Name \ N /\ N \cup {a} = K
    BY <1>2, <1>3
  <2>2. Earns(<<Alloc(a)>>, Acc(w, N, G), Acc("pending", N \cup {a}, G))
    BY <2>1, EarnsAlloc
  <2> QED BY <2>1, <2>2
<1>7. Earns(<<Run({n}, {n, a})>>, Acc("pending", K, G), Acc("pending", K, H))
  <2>1. {n} \in SUBSET G /\ {n, a} \in SUBSET K /\ G \cup {n, a} = H
    BY <1>3, <1>4
  <2>2. Earns(<<Run({n}, {n, a})>>, Acc("pending", K, G), Acc("pending", K, G \cup {n, a}))
    BY <2>1, EarnsRun DEF WorkState
  <2> QED BY <2>1, <2>2
<1>8. PICK i, j : i = Alloc(a) /\ j = Run({n}, {n, a})
  OBVIOUS
<1>9. Earns(<<i, j>>, Acc(w, N, G), Acc("pending", K, H))
  BY <1>6, <1>7, <1>8, EarnsTuple
<1>10. Earns(Compact({a}, c, d), Acc("pending", K, H), Acc("done", Q, J))
  <2>1. {a} \in SUBSET H /\ c \in Name \ (K \cup H) /\ d \in Name \ (K \cup H)
    BY <1>2, <1>3, <1>4
  <2>2. K \cup {c} = Q /\ H \cup {c} = J
    BY <1>3, <1>4
  <2>3. Earns(Compact({a}, c, d), Acc("pending", K, H), Acc("done", K \cup {c}, H \cup {c}))
    BY <1>2, <2>1, CompactEarns DEF WorkState
  <2> QED BY <2>2, <2>3
<1>11. Earns(<<Free(a)>>, Acc("done", Q, J), Acc("done", P, T))
  <2>1. a \in Q /\ T \in SUBSET (J \ {a}) /\ Q \ {a} = P
    BY <1>2, <1>3, <1>4, <1>5
  <2>2. Earns(<<Free(a)>>, Acc("done", Q, J), Acc("done", Q \ {a}, T))
    BY <2>1, EarnsFree DEF WorkState
  <2> QED BY <2>1, <2>2
<1>12. Earns(<<Free(n)>>, Acc("done", P, T), Acc("done", {c}, F \cup {c}))
  <2>1. n \in P /\ F \cup {c} \in SUBSET (T \ {n}) /\ P \ {n} = {c}
    BY <1>2, <1>3, <1>5
  <2>2. Earns(<<Free(n)>>, Acc("done", P, T), Acc("done", P \ {n}, F \cup {c}))
    BY <2>1, EarnsFree DEF WorkState
  <2> QED BY <2>1, <2>2
<1>13. PICK e, f : e = Free(a) /\ f = Free(n)
  OBVIOUS
<1>14. Earns(<<e, f>>, Acc("done", Q, J), Acc("done", {c}, F \cup {c}))
  BY <1>11, <1>12, <1>13, EarnsTuple
<1>15. Earns(<<i, j>> \o Compact({a}, c, d), Acc(w, N, G), Acc("done", Q, J))
  BY <1>9, <1>10, EarnsBoth
<1>16. Earns((<<i, j>> \o Compact({a}, c, d)) \o <<e, f>>, Acc(w, N, G), Acc("done", {c}, F \cup {c}))
  BY <1>14, <1>15, EarnsBoth
<1> QED BY <1>1, <1>3, <1>4, <1>8, <1>13, <1>16 DEF SortUnique

(* Installing the only scratch buffer there is ends the account.           *)
LEMMA InstallLast ==
  ASSUME NEW w \in WorkState, NEW F \in SUBSET Sketch, NEW n \in Name \ {"next"}
  PROVE  Earns(Install(n), Acc(w, {n}, F \cup {n}), Blank)
<1>1. PICK N \in SUBSET Name, H \in SUBSET Fillable : N = {n} /\ H = F \cup {n}
  BY DEF Fillable
<1>2. n \in N \cap H /\ "next" \notin N \cup H
  BY <1>1, StreamsAssumption DEF Name
<1>3. Earns(Install(n), Acc(w, N, H), Acc("done", N \ {n}, H \ (Sketch \cup {n})))
  BY <1>2, InstallEarns
<1>4. N \ {n} = {} /\ H \ (Sketch \cup {n}) = {}
  BY <1>1
<1>5. Acc("done", {}, {}) = Blank
  BY DEF Acc, Blank
<1> QED BY <1>1, <1>3, <1>4, <1>5

(* Installing one of two buffers, and the end of the other.                *)
LEMMA InstallThenFree ==
  ASSUME NEW w \in WorkState, NEW F \in SUBSET Sketch,
         NEW n \in Name \ {"next"}, NEW m \in Name \ {"next"}, n # m
  PROVE  \E y : /\ Earns(Install(n), Acc(w, {m, n}, F \cup {m, n}), y)
               /\ Earns(<<Free(m)>>, y, Blank)
<1>1. PICK N \in SUBSET Name, H \in SUBSET Fillable : N = {m, n} /\ H = F \cup {m, n}
  BY DEF Fillable
<1>2. n \in N \cap H /\ "next" \notin N \cup H
  BY <1>1, StreamsAssumption DEF Name
<1>3. Earns(Install(n), Acc(w, N, H), Acc("done", N \ {n}, H \ (Sketch \cup {n})))
  BY <1>2, InstallEarns
<1>4. PICK P \in SUBSET Name, G \in SUBSET Fillable : P = N \ {n} /\ G = H \ (Sketch \cup {n})
  OBVIOUS
<1>5. m \in P /\ {} \in SUBSET (G \ {m}) /\ P \ {m} = {}
  BY <1>1, <1>4
<1>6. Earns(<<Free(m)>>, Acc("done", P, G), Acc("done", P \ {m}, {}))
  BY <1>5, EarnsFree DEF WorkState
<1>7. Acc("done", {}, {}) = Blank
  BY DEF Acc, Blank
<1> QED BY <1>1, <1>3, <1>4, <1>5, <1>6, <1>7

\* The sketches that hold a buffer.
Holders == {q \in Sketch : held[q] # None}

\* A call may rely on the sketches' buffers, and on nothing else.
Start == Acc("pending", {}, Holders)

LEMMA UpdateEarns ==
  ASSUME NEW s \in Sketch
  PROVE  Earns(UpdateProgram(s), Start, Blank)
<1>1. PICK F \in SUBSET Sketch : F = Holders
  BY DEF Holders
<1>2. PICK n, c, m : n = "screened" /\ c = "incoming" /\ m = "combined"
  OBVIOUS
<1>3. PICK x, y, z :
        x = Acc("pending", {}, F) /\ y = Acc("done", {n}, F \cup {n}) /\ z = Acc("done", {c}, F \cup {c})
  OBVIOUS
<1>4. Earns(ScreenKeys, x, y)
  BY <1>2, <1>3, ScreenEarns DEF WorkState
<1>5. Earns(SortUnique, y, z)
  BY <1>2, <1>3, SortEarns DEF WorkState
<1>6. /\ n \in Name /\ c \in Name \ {"next"} /\ m \in Name \ {"next"} /\ c # m
      /\ {n} \in SUBSET Name /\ {c} \in SUBSET Name
      /\ F \cup {n} \in SUBSET Fillable /\ F \cup {c} \in SUBSET Fillable
      /\ "done" \in WorkState
  BY <1>2 DEF Name, Fillable, WorkState
<1>7. y \in Account /\ Blank \in Account
  BY <1>3, <1>6, AccIs DEF Blank, Account
<1>8. Earns(<<Free(n)>>, y, Blank)
  <2>1. PICK N \in SUBSET Name, H \in SUBSET Fillable : N = {n} /\ H = F \cup {n}
    BY <1>6
  <2>2. n \in N /\ {} \in SUBSET (H \ {n}) /\ N \ {n} = {}
    BY <2>1
  <2>3. Earns(<<Free(n)>>, Acc("done", N, H), Acc("done", N \ {n}, {}))
    BY <1>6, <2>2, EarnsFree
  <2>4. Acc("done", {}, {}) = Blank
    BY DEF Acc, Blank
  <2> QED BY <1>3, <2>1, <2>2, <2>3, <2>4
<1>9. PICK p : p = IF held[s] = None THEN Install(c)
                   ELSE (MergeUnique(s, c) \o Install(m)) \o <<Free(c)>>
  OBVIOUS
<1>10. Earns(p, z, Blank)
  <2>1. CASE held[s] = None
    <3>1. Earns(Install(c), z, Blank)
      BY <1>3, <1>6, InstallLast
    <3> QED BY <1>9, <2>1, <3>1
  <2>2. CASE held[s] # None
    <3>1. PICK N \in SUBSET Name, H \in SUBSET Fillable : N = {c} /\ H = F \cup {c}
      BY <1>6
    <3>2. s \in H /\ c \in H /\ {"merged", "combined", "distinct"} \cap (N \cup H) = {}
      BY <1>1, <1>2, <2>2, <3>1, StreamsAssumption DEF Holders, Name
    <3>3. Earns(MergeUnique(s, c), z, Acc("done", N \cup {"combined"}, H \cup {"combined"}))
      BY <1>3, <1>6, <3>1, <3>2, MergeEarns
    <3>4. N \cup {"combined"} = {c, m} /\ H \cup {"combined"} = F \cup {c, m}
      BY <1>2, <3>1
    <3>5. PICK u : Earns(Install(m), Acc("done", {c, m}, F \cup {c, m}), u) /\ Earns(<<Free(c)>>, u, Blank)
      BY <1>6, InstallThenFree
    <3>6. Earns(MergeUnique(s, c) \o Install(m), z, u)
      BY <3>3, <3>4, <3>5, EarnsBoth
    <3>7. Earns((MergeUnique(s, c) \o Install(m)) \o <<Free(c)>>, z, Blank)
      BY <3>5, <3>6, EarnsBoth
    <3> QED BY <1>9, <2>2, <3>7
  <2> QED BY <2>1, <2>2
<1>11. Earns(SortUnique \o p, y, Blank)
  BY <1>5, <1>10, EarnsBoth
<1>12. Earns(<<Either({<<Free(n)>>, SortUnique \o p})>>, y, Blank)
  <2>1. PICK A : A = {<<Free(n)>>, SortUnique \o p}
    OBVIOUS
  <2>2. \A a \in A : Earns(a, y, Blank)
    BY <1>8, <1>11, <2>1
  <2>3. Earns(<<Either(A)>>, y, Blank)
    BY <1>7, <2>2, EarnsEither
  <2> QED BY <2>1, <2>3
<1>13. Earns(ScreenKeys \o <<Either({<<Free(n)>>, SortUnique \o p})>>, x, Blank)
  BY <1>4, <1>12, EarnsBoth
<1>14. UpdateProgram(s) = ScreenKeys \o <<Either({<<Free(n)>>, SortUnique \o p})>>
  BY <1>2, <1>9 DEF UpdateProgram
<1> QED BY <1>1, <1>3, <1>13, <1>14 DEF Start

LEMMA NothingEarns == Earns(InstallNothing, Start, Blank)
BY InstallNothingEarns DEF Start, Holders, WorkState

LEMMA ReadEarns ==
  ASSUME NEW s \in Sketch
  PROVE  Earns(ReadProgram(s), Start, Blank)
<1>1. PICK F \in SUBSET Sketch : F = Holders
  BY DEF Holders
<1>2. PICK N \in SUBSET Name, H \in SUBSET Fillable : N = {} /\ H = F
  BY DEF Fillable
<1>3. Acc("done", {}, {}) = Blank /\ {} \in SUBSET H /\ "pending" \in WorkState
  BY DEF Acc, Blank, WorkState
<1>4. Earns(<<Sync>>, Acc("pending", N, H), Acc("done", N, {}))
  BY <1>3, EarnsSync
<1>5. CASE held[s] = None
  BY <1>1, <1>2, <1>3, <1>4, <1>5 DEF ReadProgram, Start
<1>6. CASE held[s] # None
  <2>1. {s} \in SUBSET H /\ {} \in SUBSET N /\ H \cup {} = H
    BY <1>1, <1>2, <1>6 DEF Holders
  <2>2. Earns(<<Run({s}, {})>>, Acc("pending", N, H), Acc("pending", N, H \cup {}))
    BY <1>3, <2>1, EarnsRun
  <2>3. PICK i, j : i = Run({s}, {}) /\ j = Sync
    OBVIOUS
  <2>4. Earns(<<i, j>>, Acc("pending", N, H), Acc("done", N, {}))
    BY <1>4, <2>1, <2>2, <2>3, EarnsTuple
  <2> QED BY <1>1, <1>2, <1>3, <1>6, <2>3, <2>4 DEF ReadProgram, Start
<1> QED BY <1>5, <1>6

(* A result is compacted out of combined, and installed.                   *)
LEMMA RetainEarns ==
  ASSUME NEW s \in Sketch, NEW o \in Sketch
  PROVE  Earns(RetainProgram(s, o), Start, Blank)
<1>1. PICK F \in SUBSET Sketch : F = Holders
  BY DEF Holders
<1>2. CASE held[s] = None
  BY <1>2, NothingEarns DEF RetainProgram
<1>3. CASE held[s] # None
  <2>1. PICK N \in SUBSET Name, H \in SUBSET Fillable, R \in SUBSET F,
             n \in {"output"}, d \in {"selected"} :
          N = {} /\ H = F /\ R = {s} \cup {q \in {o} : held[q] # None}
    BY <1>1, <1>3 DEF Fillable, Holders
  <2>2. /\ n \in Name \ (N \cup H) /\ d \in Name \ (N \cup H) /\ n # d /\ n \in Name \ {"next"}
        /\ R \in SUBSET H
    BY <2>1, StreamsAssumption DEF Name
  <2>3. Earns(Compact(R, n, d), Acc("pending", N, H), Acc("done", N \cup {n}, H \cup {n}))
    BY <2>2, CompactEarns DEF WorkState
  <2>4. N \cup {n} = {n}
    BY <2>1
  <2>5. Earns(Install(n), Acc("done", {n}, F \cup {n}), Blank)
    BY <2>2, InstallLast DEF WorkState
  <2>6. Earns(Compact(R, n, d) \o Install(n), Acc("pending", N, H), Blank)
    BY <2>1, <2>3, <2>4, <2>5, EarnsBoth
  <2>7. RetainProgram(s, o) = Compact(R, n, d) \o Install(n)
    BY <1>3, <2>1 DEF RetainProgram
  <2> QED BY <1>1, <2>1, <2>6, <2>7 DEF Start
<1> QED BY <1>2, <1>3

LEMMA MergeProgramEarns ==
  ASSUME NEW s \in Sketch, NEW o \in Sketch
  PROVE  Earns(MergeProgram(s, o), Start, Blank)
<1>1. PICK F \in SUBSET Sketch : F = Holders
  BY DEF Holders
<1>2. CASE held[s] = None /\ held[o] = None
  BY <1>2, NothingEarns DEF MergeProgram
<1>3. CASE ~ (held[s] = None /\ held[o] = None)
  <2>1. PICK c, n, d : c = "combined" /\ n = "output" /\ d = "selected"
    OBVIOUS
  <2>2. /\ c \in Name /\ n \in Name /\ d \in Name /\ c # n /\ c # d /\ n # d
        /\ c \notin F /\ n \notin F /\ d \notin F /\ c \in Name \ {"next"} /\ n \in Name \ {"next"}
    BY <2>1, StreamsAssumption DEF Name
  <2>3. PICK N \in SUBSET Name, H \in SUBSET Fillable : N = {} /\ H = F
    BY DEF Fillable
  <2>4. PICK P \in SUBSET Name, G \in SUBSET Fillable : P = {c} /\ G = F \cup {c}
    BY <2>2 DEF Fillable
  <2>5. PICK p : p = IF held[s] = None THEN CopyOnly(o)
                     ELSE IF held[o] = None THEN CopyOnly(s) ELSE MergeUnique(s, o)
    OBVIOUS
  <2>6. \E w \in WorkState : Earns(p, Acc("pending", N, H), Acc(w, P, G))
    <3>1. N \cup {c} = P /\ H \cup {c} = G /\ c \in Name \ (N \cup H)
      BY <2>2, <2>3, <2>4
    <3>2. ASSUME NEW q \in F PROVE Earns(CopyOnly(q), Acc("pending", N, H), Acc("pending", P, G))
      <4>1. {q} \in SUBSET H
        BY <2>3
      <4>2. Earns(<<Alloc(c), Run({q}, {c})>>, Acc("pending", N, H),
                  Acc("pending", N \cup {c}, H \cup {c}))
        BY <3>1, <4>1, CopyEarns DEF WorkState
      <4> QED BY <2>1, <3>1, <4>2 DEF CopyOnly
    <3>3. CASE held[s] = None
      <4>1. o \in F
        BY <1>1, <1>3, <3>3 DEF Holders
      <4> QED BY <2>5, <3>2, <3>3, <4>1 DEF WorkState
    <3>4. CASE held[s] # None /\ held[o] = None
      <4>1. s \in F
        BY <1>1, <3>4 DEF Holders
      <4> QED BY <2>5, <3>2, <3>4, <4>1 DEF WorkState
    <3>5. CASE held[s] # None /\ held[o] # None
      <4>1. s \in H /\ o \in H /\ {"merged", "combined", "distinct"} \cap (N \cup H) = {}
        BY <1>1, <2>3, <3>5, StreamsAssumption DEF Holders, Name
      <4>2. Earns(MergeUnique(s, o), Acc("pending", N, H),
                  Acc("done", N \cup {"combined"}, H \cup {"combined"}))
        BY <4>1, MergeEarns DEF WorkState
      <4> QED BY <2>1, <2>5, <3>1, <3>5, <4>2 DEF WorkState
    <3> QED BY <3>3, <3>4, <3>5
  <2>7. PICK w \in WorkState : Earns(p, Acc("pending", N, H), Acc(w, P, G))
    BY <2>6
  <2>8. Earns(Compact({c}, n, d), Acc(w, P, G), Acc("done", {c, n}, F \cup {c, n}))
    <3>1. {c} \in SUBSET G /\ n \in Name \ (P \cup G) /\ d \in Name \ (P \cup G)
      BY <2>2, <2>4
    <3>2. P \cup {n} = {c, n} /\ G \cup {n} = F \cup {c, n}
      BY <2>4
    <3>3. Earns(Compact({c}, n, d), Acc(w, P, G), Acc("done", P \cup {n}, G \cup {n}))
      BY <2>2, <3>1, CompactEarns
    <3> QED BY <3>2, <3>3
  <2>9. PICK u : Earns(Install(n), Acc("done", {c, n}, F \cup {c, n}), u) /\ Earns(<<Free(c)>>, u, Blank)
    BY <2>2, InstallThenFree DEF WorkState
  <2>10. Earns(p \o Compact({c}, n, d), Acc("pending", N, H), Acc("done", {c, n}, F \cup {c, n}))
    BY <2>7, <2>8, EarnsBoth
  <2>11. Earns((p \o Compact({c}, n, d)) \o Install(n), Acc("pending", N, H), u)
    BY <2>9, <2>10, EarnsBoth
  <2>12. Earns(((p \o Compact({c}, n, d)) \o Install(n)) \o <<Free(c)>>, Acc("pending", N, H), Blank)
    BY <2>9, <2>11, EarnsBoth
  <2>13. MergeProgram(s, o) = ((p \o Compact({c}, n, d)) \o Install(n)) \o <<Free(c)>>
    BY <1>3, <2>1, <2>5 DEF MergeProgram
  <2> QED BY <1>1, <2>3, <2>12, <2>13 DEF Start
<1> QED BY <1>2, <1>3

LEMMA LoadEarns == Earns(LoadProgram, Start, Blank)
<1>1. PICK F \in SUBSET Sketch : F = Holders
  BY DEF Holders
<1>2. PICK N \in SUBSET Name, H \in SUBSET Fillable, n \in {"image"} : N = {} /\ H = F
  BY DEF Fillable
<1>3. n \in Name \ (N \cup H) /\ n \in Name \ {"next"}
  BY <1>2, StreamsAssumption DEF Name
<1>4. Earns(<<Sync>>, Acc("pending", N, H), Acc("done", N, H))
  BY EarnsSync DEF WorkState
<1>5. Earns(InstallNothing, Acc("done", N, H), Blank)
  BY <1>2, InstallNothingEarns DEF WorkState
<1>6. Earns(<<Alloc(n), Run({}, {n})>> \o Install(n), Acc("done", N, H), Blank)
  <2>1. {} \in SUBSET H /\ N \cup {n} = {n}
    BY <1>2
  <2>2. Earns(<<Alloc(n), Run({}, {n})>>, Acc("done", N, H), Acc("pending", N \cup {n}, H \cup {n}))
    BY <1>3, <2>1, CopyEarns DEF WorkState
  <2>3. Earns(Install(n), Acc("pending", {n}, F \cup {n}), Blank)
    BY <1>3, InstallLast DEF WorkState
  <2> QED BY <1>2, <2>1, <2>2, <2>3, EarnsBoth
<1>7. PICK A : A = {InstallNothing, <<Alloc(n), Run({}, {n})>> \o Install(n)}
  OBVIOUS
<1>8. Earns(<<Either(A)>>, Acc("done", N, H), Blank)
  <2>1. Acc("done", N, H) \in Account /\ Blank \in Account
    BY AccIs DEF WorkState, Blank, Account
  <2>2. \A a \in A : Earns(a, Acc("done", N, H), Blank)
    BY <1>5, <1>6, <1>7
  <2> QED BY <2>1, <2>2, EarnsEither
<1>9. PICK i, j : i = Sync /\ j = Either(A)
  OBVIOUS
<1>10. Earns(<<i, j>>, Acc("pending", N, H), Blank)
  BY <1>4, <1>8, <1>9, EarnsTuple
<1>11. LoadProgram = <<i, j>>
  BY <1>2, <1>7, <1>9 DEF LoadProgram
<1> QED BY <1>1, <1>2, <1>10, <1>11 DEF Start

-----------------------------------------------------------------------------
(* What is queued is in order.                                             *)

Mallocs(t, b)  == t.op = "malloc" /\ t.buffer = b
Releases(t, b) == t.op = "release" /\ t.buffer = b
Writes(t, b)   == t.op = "work" /\ b \in t.writes
Reads(t, b)    == t.op = "work" /\ b \in t.reads
Fills(t, b)    == Writes(t, b) \/ (Mallocs(t, b) /\ t.filled)

MallocQueued(q, b)  == \E st \in Stream : \E n \in Pos(q, st) : Mallocs(q[st][n], b)
ReleaseQueued(q, b) == \E st \in Stream : \E n \in Pos(q, st) : Releases(q[st][n], b)

\* Task n of stream st comes before every release of b, on the same stream.
Ahead(q, st, n, b) ==
  \A o \in Stream : \A m \in Pos(q, o) : Releases(q[o][m], b) => o = st /\ n < m

\* A buffer is allocated once, and only if it is not.
MallocOnce(q, lv) ==
  \A st \in Stream : \A n \in Pos(q, st) : \A b \in Buffer : Mallocs(q[st][n], b) =>
    /\ b \notin lv
    /\ \A o \in Stream : \A m \in Pos(q, o) : Mallocs(q[o][m], b) => o = st /\ m = n

\* A buffer that is or will be allocated has an owner, or will be released.
Accounted(q, lv, O) ==
  \A b \in Buffer : b \in lv \/ MallocQueued(q, b) => b \in O \/ ReleaseQueued(q, b)

\* A buffer with an owner is or will be allocated.
Backed(q, lv, O) == \A b \in Buffer : b \in O => b \in lv \/ MallocQueued(q, b)

\* A buffer is released behind what allocates and writes it.
TouchFirst(q) ==
  \A st \in Stream : \A n \in Pos(q, st) : \A b \in Buffer :
    Mallocs(q[st][n], b) \/ Writes(q[st][n], b) => Ahead(q, st, n, b)

\* Of the buffers with an owner, only those in Y are still to be allocated
\* or written, on stream c.
TouchOwn(q, O, Y, c) ==
  \A st \in Stream : \A n \in Pos(q, st) : \A b \in Buffer :
    (Mallocs(q[st][n], b) \/ Writes(q[st][n], b)) /\ b \in O => b \in Y /\ st = c

\* What is written or released is allocated by then.
Present(q, lv) ==
  \A st \in Stream : \A n \in Pos(q, st) : \A b \in Buffer :
    Writes(q[st][n], b) \/ Releases(q[st][n], b) =>
      b \in lv \/ \E m \in Pos(q, st) : m < n /\ Mallocs(q[st][m], b)

\* A buffer is released once, and only if it has no owner.
ReleaseOnce(q, O) ==
  \A st \in Stream : \A n \in Pos(q, st) : \A b \in Buffer : Releases(q[st][n], b) =>
    /\ b \notin O
    /\ \A o \in Stream : \A m \in Pos(q, o) : Releases(q[o][m], b) => o = st /\ m = n

InOrder(q, lv, O, Y, c) ==
  /\ MallocOnce(q, lv) /\ Accounted(q, lv, O) /\ Backed(q, lv, O)
  /\ TouchFirst(q) /\ TouchOwn(q, O, Y, c) /\ Present(q, lv) /\ ReleaseOnce(q, O)

\* Work is queued on the streams of W only.
WorkOn(q, W) == \A st \in Stream : \A n \in Pos(q, st) : q[st][n].op = "work" => st \in W

\* What is read is written by then, and released later.
ReadsFilled(q, wr) ==
  \A st \in Stream : \A n \in Pos(q, st) : \A b \in Buffer : Reads(q[st][n], b) =>
    /\ Ahead(q, st, n, b)
    /\ b \in wr \/ \E m \in Pos(q, st) : m < n /\ Fills(q[st][m], b)

\* What is queued on c, if not done already, writes b.
WillBeFilled(q, wr, c, b) == b \in wr \/ \E n \in Pos(q, c) : Fills(q[c][n], b)

LEMMA TaskKinds ==
  ASSUME NEW t
  PROVE  /\ \A b, d : Mallocs(t, b) /\ Mallocs(t, d) => b = d
         /\ \A b, d : Releases(t, b) /\ Releases(t, d) => b = d
         /\ \A b, d : Mallocs(t, b) => ~ Writes(t, d) /\ ~ Releases(t, d) /\ ~ Reads(t, d)
         /\ \A b, d : Releases(t, b) =>
              ~ Writes(t, d) /\ ~ Mallocs(t, d) /\ ~ Reads(t, d) /\ ~ Fills(t, d)
         /\ t.op = "work" => \A b : ~ Mallocs(t, b) /\ ~ Releases(t, b) /\ (Fills(t, b) <=> Writes(t, b))
         /\ \A b : Fills(t, b) => Mallocs(t, b) \/ Writes(t, b)
         /\ \A b : Mallocs(t, b) \/ Releases(t, b) => t.op # "work"
         /\ \A b : Writes(t, b) \/ Reads(t, b) => t.op = "work"
BY DEF Mallocs, Releases, Writes, Reads, Fills

-----------------------------------------------------------------------------
(* A task is done.                                                         *)

\* r is q without the first k[st] tasks of every stream st.
Shifted(q, r, st, k) ==
  /\ k \in [Stream -> {0, 1}] /\ k[st] = 1 /\ 1 \in Pos(q, st)
  /\ \A o \in Stream : k[o] = 1 => o = st
  /\ \A o \in Stream : \A n \in Pos(r, o) :
       n \in Nat \ {0} /\ n + k[o] \in Pos(q, o) /\ r[o][n] = q[o][n + k[o]]
  /\ \A o \in Stream : \A m \in Pos(q, o) :
       /\ m \in Nat \ {0}
       /\ m > k[o] => m - k[o] \in Pos(r, o) /\ r[o][m - k[o]] = q[o][m]
       /\ ~ (m > k[o]) => o = st /\ m = 1

LEMMA Shifting ==
  ASSUME NEW q \in Queues, NEW r \in Queues, NEW st \in Stream, Retires(q, r, st)
  PROVE  \E k : Shifted(q, r, st, k)
<1>1. PICK k : k = [o \in Stream |-> IF o = st THEN 1 ELSE 0]
  OBVIOUS
<1>2. /\ k \in [Stream -> {0, 1}] /\ k[st] = 1
      /\ \A o \in Stream : (k[o] = 1 => o = st) /\ (o # st => k[o] = 0)
  BY <1>1
<1>3. \A o \in Stream : Len(q[o]) \in Nat /\ Len(r[o]) \in Nat
  BY QueueFacts
<1>4. ASSUME NEW o \in Stream, NEW n \in Pos(r, o)
      PROVE  n \in Nat \ {0} /\ n + k[o] \in Pos(q, o) /\ r[o][n] = q[o][n + k[o]]
  <2>1. n \in Nat \ {0}
    BY <1>3 DEF Pos
  <2>2. CASE o = st
    BY <1>2, <2>1, <2>2 DEF Retires
  <2>3. CASE o # st
    BY <1>2, <2>1, <2>3 DEF Retires, Pos
  <2> QED BY <2>1, <2>2, <2>3
<1>5. ASSUME NEW o \in Stream, NEW m \in Pos(q, o)
      PROVE  /\ m \in Nat \ {0}
             /\ m > k[o] => m - k[o] \in Pos(r, o) /\ r[o][m - k[o]] = q[o][m]
             /\ ~ (m > k[o]) => o = st /\ m = 1
  <2>1. m \in Nat \ {0}
    BY <1>3 DEF Pos
  <2>2. CASE o = st
    <3>1. CASE m > 1
      <4>1. m - 1 \in Pos(r, st) /\ (m - 1) + 1 = m
        BY <1>3, <2>1, <2>2, <3>1 DEF Retires, Pos
      <4>2. r[st][m - 1] = q[st][(m - 1) + 1]
        BY <4>1 DEF Retires
      <4> QED BY <1>2, <2>1, <2>2, <3>1, <4>1, <4>2
    <3>2. CASE ~ (m > 1)
      BY <1>2, <2>1, <2>2, <3>2
    <3> QED BY <3>1, <3>2
  <2>3. CASE o # st
    <3>1. k[o] = 0 /\ r[o] = q[o] /\ m > 0 /\ m - 0 = m
      BY <1>2, <2>1, <2>3 DEF Retires
    <3> QED BY <2>1, <3>1 DEF Pos
  <2> QED BY <2>2, <2>3
<1>6. 1 \in Pos(q, st)
  BY DEF Retires
<1> QED BY <1>2, <1>4, <1>5, <1>6 DEF Shifted

(* What was ahead of the releases still is, and so on.                     *)
LEMMA ShiftedAhead ==
  ASSUME NEW q, NEW r, NEW st \in Stream, NEW k, Shifted(q, r, st, k),
         NEW o \in Stream, NEW n \in Pos(r, o), NEW b, Ahead(q, o, n + k[o], b)
  PROVE  Ahead(r, o, n, b)
<1> SUFFICES ASSUME NEW p \in Stream, NEW m \in Pos(r, p), Releases(r[p][m], b)
             PROVE  p = o /\ n < m
  BY DEF Ahead
<1>1. m + k[p] \in Pos(q, p) /\ Releases(q[p][m + k[p]], b) /\ m \in Nat /\ n \in Nat
  BY DEF Shifted
<1>2. p = o /\ n + k[o] < m + k[p]
  BY <1>1 DEF Ahead
<1>3. k[o] \in {0, 1}
  BY DEF Shifted
<1> QED BY <1>1, <1>2, <1>3

LEMMA ShiftedFacts ==
  ASSUME NEW q, NEW r, NEW st \in Stream, NEW k, Shifted(q, r, st, k), NEW b
  PROVE  /\ MallocQueued(q, b) => Mallocs(q[st][1], b) \/ MallocQueued(r, b)
         /\ MallocQueued(r, b) => MallocQueued(q, b)
         /\ ReleaseQueued(q, b) => Releases(q[st][1], b) \/ ReleaseQueued(r, b)
<1>1. ASSUME NEW o \in Stream, NEW m \in Pos(q, o)
      PROVE  (o = st /\ m = 1) \/ \E n \in Pos(r, o) : r[o][n] = q[o][m]
  BY DEF Shifted
<1>2. ASSUME NEW o \in Stream, NEW n \in Pos(r, o) PROVE \E m \in Pos(q, o) : r[o][n] = q[o][m]
  BY DEF Shifted
<1>3. MallocQueued(q, b) => Mallocs(q[st][1], b) \/ MallocQueued(r, b)
  BY <1>1 DEF MallocQueued
<1>4. MallocQueued(r, b) => MallocQueued(q, b)
  BY <1>2 DEF MallocQueued
<1>5. ReleaseQueued(q, b) => Releases(q[st][1], b) \/ ReleaseQueued(r, b)
  BY <1>1 DEF ReleaseQueued
<1> QED BY <1>3, <1>4, <1>5

(* What holds on, whatever task is done.                                   *)
LEMMA TaskDone ==
  ASSUME NEW q, NEW r, NEW st \in Stream, NEW k, Shifted(q, r, st, k),
         NEW lv, NEW O, NEW Y, NEW c, InOrder(q, lv, O, Y, c)
  PROVE  /\ TouchFirst(r) /\ TouchOwn(r, O, Y, c) /\ ReleaseOnce(r, O)
         /\ MallocOnce(r, lv)
<1>0. \A o \in Stream : k[o] \in {0, 1}
  BY DEF Shifted
<1>1. TouchFirst(r)
  <2> SUFFICES ASSUME NEW o \in Stream, NEW n \in Pos(r, o), NEW b \in Buffer,
                      Mallocs(r[o][n], b) \/ Writes(r[o][n], b)
               PROVE  Ahead(r, o, n, b)
    BY DEF TouchFirst
  <2>1. n + k[o] \in Pos(q, o) /\ r[o][n] = q[o][n + k[o]]
    BY DEF Shifted
  <2>2. Ahead(q, o, n + k[o], b)
    BY <2>1 DEF InOrder, TouchFirst
  <2> QED BY <2>2, ShiftedAhead
<1>2. TouchOwn(r, O, Y, c)
  BY DEF InOrder, TouchOwn, Shifted
<1>3. ReleaseOnce(r, O)
  <2> SUFFICES ASSUME NEW o \in Stream, NEW n \in Pos(r, o), NEW b \in Buffer, Releases(r[o][n], b)
               PROVE  /\ b \notin O
                      /\ \A p \in Stream : \A m \in Pos(r, p) : Releases(r[p][m], b) => p = o /\ m = n
    BY DEF ReleaseOnce
  <2>1. n \in Nat \ {0} /\ n + k[o] \in Pos(q, o) /\ Releases(q[o][n + k[o]], b)
    BY DEF Shifted
  <2>2. /\ b \notin O
        /\ \A p \in Stream : \A m \in Pos(q, p) : Releases(q[p][m], b) => p = o /\ m = n + k[o]
    BY <2>1 DEF InOrder, ReleaseOnce
  <2>3. ASSUME NEW p \in Stream, NEW m \in Pos(r, p), Releases(r[p][m], b) PROVE p = o /\ m = n
    <3>1. m \in Nat \ {0} /\ m + k[p] \in Pos(q, p) /\ Releases(q[p][m + k[p]], b)
      BY <2>3 DEF Shifted
    <3>2. p = o /\ m + k[p] = n + k[o]
      BY <2>2, <3>1
    <3> QED BY <1>0, <2>1, <3>1, <3>2
  <2> QED BY <2>2, <2>3
<1>4. MallocOnce(r, lv)
  <2> SUFFICES ASSUME NEW o \in Stream, NEW n \in Pos(r, o), NEW b \in Buffer, Mallocs(r[o][n], b)
               PROVE  /\ b \notin lv
                      /\ \A p \in Stream : \A m \in Pos(r, p) : Mallocs(r[p][m], b) => p = o /\ m = n
    BY DEF MallocOnce
  <2>1. n \in Nat \ {0} /\ n + k[o] \in Pos(q, o) /\ Mallocs(q[o][n + k[o]], b)
    BY DEF Shifted
  <2>2. /\ b \notin lv
        /\ \A p \in Stream : \A m \in Pos(q, p) : Mallocs(q[p][m], b) => p = o /\ m = n + k[o]
    BY <2>1 DEF InOrder, MallocOnce
  <2>3. ASSUME NEW p \in Stream, NEW m \in Pos(r, p), Mallocs(r[p][m], b) PROVE p = o /\ m = n
    <3>1. m \in Nat \ {0} /\ m + k[p] \in Pos(q, p) /\ Mallocs(q[p][m + k[p]], b)
      BY <2>3 DEF Shifted
    <3>2. p = o /\ m + k[p] = n + k[o]
      BY <2>2, <3>1
    <3> QED BY <1>0, <2>1, <3>1, <3>2
  <2> QED BY <2>2, <2>3
<1> QED BY <1>1, <1>2, <1>3, <1>4

(* An allocation is done.                                                  *)
LEMMA MallocDone ==
  ASSUME NEW q \in Queues, NEW r \in Queues, NEW st \in Stream, Retires(q, r, st),
         NEW lv, NEW O, NEW Y, NEW c, InOrder(q, lv, O, Y, c),
         NEW a \in Buffer, Mallocs(q[st][1], a)
  PROVE  a \notin lv /\ InOrder(r, lv \cup {a}, O, Y, c)
<1>1. PICK k : Shifted(q, r, st, k)
  BY Shifting
<1>2. /\ \A b : Mallocs(q[st][1], b) => b = a
      /\ \A b : ~ Writes(q[st][1], b) /\ ~ Releases(q[st][1], b)
  BY TaskKinds
<1>3. a \notin lv
  BY <1>1 DEF InOrder, MallocOnce, Shifted
<1>4. \A o \in Stream : k[o] \in {0, 1}
  BY <1>1 DEF Shifted
<1>5. MallocOnce(r, lv \cup {a})
  <2>1. ASSUME NEW o \in Stream, NEW n \in Pos(r, o), Mallocs(r[o][n], a) PROVE FALSE
    <3>1. n \in Nat \ {0} /\ n + k[o] \in Pos(q, o) /\ Mallocs(q[o][n + k[o]], a)
      BY <1>1, <2>1 DEF Shifted
    <3>2. 1 \in Pos(q, st) /\ k[st] = 1
      BY <1>1 DEF Shifted
    <3>3. st = o /\ 1 = n + k[o]
      BY <3>1, <3>2 DEF InOrder, MallocOnce
    <3> QED BY <3>1, <3>2, <3>3
  <2>2. MallocOnce(r, lv)
    BY <1>1, TaskDone
  <2> QED BY <2>1, <2>2 DEF MallocOnce
<1>6. Accounted(r, lv \cup {a}, O)
  <2> SUFFICES ASSUME NEW b \in Buffer, b \in lv \cup {a} \/ MallocQueued(r, b)
               PROVE  b \in O \/ ReleaseQueued(r, b)
    BY DEF Accounted
  <2>1. MallocQueued(q, a)
    BY <1>1 DEF MallocQueued, Shifted
  <2>2. b \in lv \/ MallocQueued(q, b)
    BY <1>1, <2>1, ShiftedFacts
  <2>3. b \in O \/ ReleaseQueued(q, b)
    BY <2>2 DEF InOrder, Accounted
  <2> QED BY <1>1, <1>2, <2>3, ShiftedFacts
<1>7. Backed(r, lv \cup {a}, O)
  <2> SUFFICES ASSUME NEW b \in Buffer, b \in O PROVE b \in lv \cup {a} \/ MallocQueued(r, b)
    BY DEF Backed
  <2>1. b \in lv \/ MallocQueued(q, b)
    BY DEF InOrder, Backed
  <2> QED BY <1>1, <1>2, <2>1, ShiftedFacts
<1>8. TouchFirst(r) /\ TouchOwn(r, O, Y, c) /\ ReleaseOnce(r, O)
  BY <1>1, TaskDone
<1>10. Present(r, lv \cup {a})
  <2> SUFFICES ASSUME NEW o \in Stream, NEW n \in Pos(r, o), NEW b \in Buffer,
                      Writes(r[o][n], b) \/ Releases(r[o][n], b), b \notin lv \cup {a}
               PROVE  \E m \in Pos(r, o) : m < n /\ Mallocs(r[o][m], b)
    BY DEF Present
  <2>1. n \in Nat \ {0} /\ n + k[o] \in Pos(q, o) /\ r[o][n] = q[o][n + k[o]]
    BY <1>1 DEF Shifted
  <2>2. PICK m \in Pos(q, o) : m < n + k[o] /\ Mallocs(q[o][m], b)
    BY <2>1 DEF InOrder, Present
  <2>3. m > k[o]
    <3>1. SUFFICES ASSUME ~ (m > k[o]) PROVE FALSE
      OBVIOUS
    <3>2. o = st /\ m = 1
      BY <1>1, <3>1 DEF Shifted
    <3> QED BY <1>2, <2>2, <3>2
  <2>4. m \in Nat /\ m - k[o] \in Pos(r, o) /\ r[o][m - k[o]] = q[o][m]
    BY <1>1, <2>3 DEF Shifted
  <2>5. m - k[o] < n
    BY <1>4, <2>1, <2>2, <2>4
  <2> QED BY <2>2, <2>4, <2>5
<1> QED BY <1>3, <1>5, <1>6, <1>7, <1>8, <1>10 DEF InOrder

(* A kernel or a copy is done.                                             *)
LEMMA WorkDone ==
  ASSUME NEW q \in Queues, NEW r \in Queues, NEW st \in Stream, Retires(q, r, st),
         NEW lv, NEW O, NEW Y, NEW c, InOrder(q, lv, O, Y, c), q[st][1].op = "work"
  PROVE  /\ \A b \in Buffer : Writes(q[st][1], b) => b \in lv
         /\ InOrder(r, lv, O, Y, c)
<1>1. PICK k : Shifted(q, r, st, k)
  BY Shifting
<1>2. \A b : ~ Mallocs(q[st][1], b) /\ ~ Releases(q[st][1], b)
  BY TaskKinds
<1>3. \A o \in Stream : k[o] \in {0, 1}
  BY <1>1 DEF Shifted
<1>4. ASSUME NEW b \in Buffer, Writes(q[st][1], b) PROVE b \in lv
  <2>1. 1 \in Pos(q, st) /\ \A m \in Pos(q, st) : m \in Nat \ {0}
    BY <1>1 DEF Shifted
  <2>2. b \in lv \/ \E m \in Pos(q, st) : m < 1 /\ Mallocs(q[st][m], b)
    BY <1>4, <2>1 DEF InOrder, Present
  <2> QED BY <2>1, <2>2
<1>5. Accounted(r, lv, O)
  <2> SUFFICES ASSUME NEW b \in Buffer, b \in lv \/ MallocQueued(r, b)
               PROVE  b \in O \/ ReleaseQueued(r, b)
    BY DEF Accounted
  <2>1. b \in lv \/ MallocQueued(q, b)
    BY <1>1, ShiftedFacts
  <2>2. b \in O \/ ReleaseQueued(q, b)
    BY <2>1 DEF InOrder, Accounted
  <2> QED BY <1>1, <1>2, <2>2, ShiftedFacts
<1>6. Backed(r, lv, O)
  <2> SUFFICES ASSUME NEW b \in Buffer, b \in O PROVE b \in lv \/ MallocQueued(r, b)
    BY DEF Backed
  <2>1. b \in lv \/ MallocQueued(q, b)
    BY DEF InOrder, Backed
  <2> QED BY <1>1, <1>2, <2>1, ShiftedFacts
<1>7. Present(r, lv)
  <2> SUFFICES ASSUME NEW o \in Stream, NEW n \in Pos(r, o), NEW b \in Buffer,
                      Writes(r[o][n], b) \/ Releases(r[o][n], b), b \notin lv
               PROVE  \E m \in Pos(r, o) : m < n /\ Mallocs(r[o][m], b)
    BY DEF Present
  <2>1. n \in Nat \ {0} /\ n + k[o] \in Pos(q, o) /\ r[o][n] = q[o][n + k[o]]
    BY <1>1 DEF Shifted
  <2>2. PICK m \in Pos(q, o) : m < n + k[o] /\ Mallocs(q[o][m], b)
    BY <2>1 DEF InOrder, Present
  <2>3. m > k[o]
    <3>1. SUFFICES ASSUME ~ (m > k[o]) PROVE FALSE
      OBVIOUS
    <3>2. o = st /\ m = 1
      BY <1>1, <3>1 DEF Shifted
    <3> QED BY <1>2, <2>2, <3>2
  <2>4. m \in Nat /\ m - k[o] \in Pos(r, o) /\ r[o][m - k[o]] = q[o][m]
    BY <1>1, <2>3 DEF Shifted
  <2>5. m - k[o] < n
    BY <1>3, <2>1, <2>2, <2>4
  <2> QED BY <2>2, <2>4, <2>5
<1>8. TouchFirst(r) /\ TouchOwn(r, O, Y, c) /\ ReleaseOnce(r, O) /\ MallocOnce(r, lv)
  BY <1>1, TaskDone
<1> QED BY <1>4, <1>5, <1>6, <1>7, <1>8 DEF InOrder

(* A buffer is released.                                                   *)
LEMMA ReleaseDone ==
  ASSUME NEW q \in Queues, NEW r \in Queues, NEW st \in Stream, Retires(q, r, st),
         NEW lv, NEW O, NEW Y, NEW c, InOrder(q, lv, O, Y, c),
         NEW a \in Buffer, Releases(q[st][1], a)
  PROVE  a \in lv /\ a \notin O /\ InOrder(r, lv \ {a}, O, Y, c)
<1>1. PICK k : Shifted(q, r, st, k)
  BY Shifting
<1>2. /\ \A b : Releases(q[st][1], b) => b = a
      /\ \A b : ~ Mallocs(q[st][1], b)
  BY TaskKinds
<1>3. 1 \in Pos(q, st) /\ k[st] = 1 /\ \A o \in Stream : k[o] \in {0, 1}
  BY <1>1 DEF Shifted
<1>4. \A o \in Stream : \A m \in Pos(q, o) : m \in Nat \ {0}
  BY <1>1 DEF Shifted
<1>5. a \in lv
  <2>1. a \in lv \/ \E m \in Pos(q, st) : m < 1 /\ Mallocs(q[st][m], a)
    BY <1>3 DEF InOrder, Present
  <2> QED BY <1>4, <2>1
<1>6. a \notin O
  BY <1>3 DEF InOrder, ReleaseOnce
<1>7. ASSUME NEW o \in Stream, NEW n \in Pos(q, o), Mallocs(q[o][n], a) \/ Writes(q[o][n], a)
      PROVE  FALSE
  <2>1. Ahead(q, o, n, a)
    BY <1>7 DEF InOrder, TouchFirst
  <2>2. n < 1
    BY <1>3, <2>1 DEF Ahead
  <2> QED BY <1>4, <2>2
<1>8. ASSUME NEW o \in Stream, NEW n \in Pos(r, o)
      PROVE  ~ Mallocs(r[o][n], a) /\ ~ Writes(r[o][n], a) /\ ~ Releases(r[o][n], a)
  <2>1. n \in Nat \ {0} /\ n + k[o] \in Pos(q, o) /\ r[o][n] = q[o][n + k[o]]
    BY <1>1 DEF Shifted
  <2>2. Releases(q[o][n + k[o]], a) => o = st /\ n + k[o] = 1
    BY <1>3, <2>1 DEF InOrder, ReleaseOnce
  <2> QED BY <1>3, <1>7, <2>1, <2>2
<1>9. ~ MallocQueued(r, a)
  BY <1>8 DEF MallocQueued
<1>10. Accounted(r, lv \ {a}, O)
  <2> SUFFICES ASSUME NEW b \in Buffer, b \in lv \ {a} \/ MallocQueued(r, b)
               PROVE  b \in O \/ ReleaseQueued(r, b)
    BY DEF Accounted
  <2>1. b # a
    BY <1>9
  <2>2. b \in lv \/ MallocQueued(q, b)
    BY <1>1, ShiftedFacts
  <2>3. b \in O \/ ReleaseQueued(q, b)
    BY <2>2 DEF InOrder, Accounted
  <2> QED BY <1>1, <1>2, <2>1, <2>3, ShiftedFacts
<1>11. Backed(r, lv \ {a}, O)
  <2> SUFFICES ASSUME NEW b \in Buffer, b \in O PROVE b \in lv \ {a} \/ MallocQueued(r, b)
    BY DEF Backed
  <2>1. b \in lv \/ MallocQueued(q, b)
    BY DEF InOrder, Backed
  <2> QED BY <1>1, <1>2, <1>6, <2>1, ShiftedFacts
<1>12. Present(r, lv \ {a})
  <2> SUFFICES ASSUME NEW o \in Stream, NEW n \in Pos(r, o), NEW b \in Buffer,
                      Writes(r[o][n], b) \/ Releases(r[o][n], b), b \notin lv \ {a}
               PROVE  \E m \in Pos(r, o) : m < n /\ Mallocs(r[o][m], b)
    BY DEF Present
  <2>1. n \in Nat \ {0} /\ n + k[o] \in Pos(q, o) /\ r[o][n] = q[o][n + k[o]]
    BY <1>1 DEF Shifted
  <2>2. b # a /\ b \notin lv
    BY <1>8
  <2>3. PICK m \in Pos(q, o) : m < n + k[o] /\ Mallocs(q[o][m], b)
    BY <2>1, <2>2 DEF InOrder, Present
  <2>4. m > k[o]
    <3>1. SUFFICES ASSUME ~ (m > k[o]) PROVE FALSE
      OBVIOUS
    <3>2. o = st /\ m = 1
      BY <1>1, <3>1 DEF Shifted
    <3> QED BY <1>2, <2>3, <3>2
  <2>5. m \in Nat /\ m - k[o] \in Pos(r, o) /\ r[o][m - k[o]] = q[o][m]
    BY <1>1, <2>4 DEF Shifted
  <2>6. m - k[o] < n
    BY <1>3, <2>1, <2>3, <2>5
  <2> QED BY <2>3, <2>5, <2>6
<1>13. TouchFirst(r) /\ TouchOwn(r, O, Y, c) /\ ReleaseOnce(r, O) /\ MallocOnce(r, lv)
  BY <1>1, TaskDone
<1>14. MallocOnce(r, lv \ {a})
  BY <1>13 DEF MallocOnce
<1> QED BY <1>5, <1>6, <1>10, <1>11, <1>12, <1>13, <1>14 DEF InOrder

(* What is read, after a task that is no release is done; wr is what has   *)
(* been written by then.                                                   *)
LEMMA ReadsAfterFill ==
  ASSUME NEW q \in Queues, NEW r \in Queues, NEW st \in Stream, Retires(q, r, st),
         NEW wr, NEW ww, wr \subseteq ww, \A b \in Buffer : Fills(q[st][1], b) => b \in ww
  PROVE  /\ ReadsFilled(q, wr) => ReadsFilled(r, ww)
         /\ \A o \in Stream : \A b \in Buffer : WillBeFilled(q, wr, o, b) => WillBeFilled(r, ww, o, b)
<1>1. PICK k : Shifted(q, r, st, k)
  BY Shifting
<1>2. \A o \in Stream : k[o] \in {0, 1}
  BY <1>1 DEF Shifted
<1>3. ASSUME NEW o \in Stream, NEW m \in Pos(q, o), NEW b \in Buffer, Fills(q[o][m], b), b \notin ww
      PROVE  m \in Nat /\ m - k[o] \in Pos(r, o) /\ r[o][m - k[o]] = q[o][m]
  <2>1. m > k[o]
    <3>1. SUFFICES ASSUME ~ (m > k[o]) PROVE FALSE
      OBVIOUS
    <3>2. o = st /\ m = 1
      BY <1>1, <3>1 DEF Shifted
    <3> QED BY <1>3, <3>2
  <2> QED BY <1>1, <2>1 DEF Shifted
<1>4. ASSUME ReadsFilled(q, wr) PROVE ReadsFilled(r, ww)
  <2> SUFFICES ASSUME NEW o \in Stream, NEW n \in Pos(r, o), NEW b \in Buffer, Reads(r[o][n], b)
               PROVE  /\ Ahead(r, o, n, b)
                      /\ b \in ww \/ \E m \in Pos(r, o) : m < n /\ Fills(r[o][m], b)
    BY DEF ReadsFilled
  <2>1. n \in Nat \ {0} /\ n + k[o] \in Pos(q, o) /\ r[o][n] = q[o][n + k[o]]
    BY <1>1 DEF Shifted
  <2>2. /\ Ahead(q, o, n + k[o], b)
        /\ b \in wr \/ \E m \in Pos(q, o) : m < n + k[o] /\ Fills(q[o][m], b)
    BY <1>4, <2>1 DEF ReadsFilled
  <2>3. Ahead(r, o, n, b)
    BY <1>1, <2>2, ShiftedAhead
  <2>4. ASSUME b \notin ww PROVE \E m \in Pos(r, o) : m < n /\ Fills(r[o][m], b)
    <3>1. PICK m \in Pos(q, o) : m < n + k[o] /\ Fills(q[o][m], b)
      BY <2>2, <2>4
    <3>2. m \in Nat /\ m - k[o] \in Pos(r, o) /\ r[o][m - k[o]] = q[o][m]
      BY <1>3, <2>4, <3>1
    <3>3. m - k[o] < n
      BY <1>2, <2>1, <3>1, <3>2
    <3> QED BY <3>1, <3>2, <3>3
  <2> QED BY <2>3, <2>4
<1>5. ASSUME NEW o \in Stream, NEW b \in Buffer, WillBeFilled(q, wr, o, b)
      PROVE  WillBeFilled(r, ww, o, b)
  <2>1. CASE b \in ww
    BY <2>1 DEF WillBeFilled
  <2>2. CASE b \notin ww
    <3>1. PICK m \in Pos(q, o) : Fills(q[o][m], b)
      BY <1>5, <2>2 DEF WillBeFilled
    <3>2. m - k[o] \in Pos(r, o) /\ r[o][m - k[o]] = q[o][m]
      BY <1>3, <2>2, <3>1
    <3> QED BY <3>1, <3>2 DEF WillBeFilled
  <2> QED BY <2>1, <2>2
<1> QED BY <1>4, <1>5

(* The same after a release of a, which nothing that is queued reads.      *)
LEMMA ReadsAfterRelease ==
  ASSUME NEW q \in Queues, NEW r \in Queues, NEW st \in Stream, Retires(q, r, st),
         NEW wr, ReadsFilled(q, wr), NEW a \in Buffer, Releases(q[st][1], a)
  PROVE  ReadsFilled(r, wr \ {a})
<1>1. PICK k : Shifted(q, r, st, k)
  BY Shifting
<1>2. \A o \in Stream : k[o] \in {0, 1}
  BY <1>1 DEF Shifted
<1> SUFFICES ASSUME NEW o \in Stream, NEW n \in Pos(r, o), NEW b \in Buffer, Reads(r[o][n], b)
             PROVE  /\ Ahead(r, o, n, b)
                    /\ b \in wr \ {a} \/ \E m \in Pos(r, o) : m < n /\ Fills(r[o][m], b)
  BY DEF ReadsFilled
<1>3. n \in Nat \ {0} /\ n + k[o] \in Pos(q, o) /\ r[o][n] = q[o][n + k[o]]
  BY <1>1 DEF Shifted
<1>4. /\ Ahead(q, o, n + k[o], b)
      /\ b \in wr \/ \E m \in Pos(q, o) : m < n + k[o] /\ Fills(q[o][m], b)
  BY <1>3 DEF ReadsFilled
<1>5. Ahead(r, o, n, b)
  BY <1>1, <1>4, ShiftedAhead
<1>6. b # a
  <2>1. SUFFICES ASSUME b = a PROVE FALSE
    OBVIOUS
  <2>2. 1 \in Pos(q, st)
    BY <1>1 DEF Shifted
  <2>3. n + k[o] < 1
    BY <1>4, <2>1, <2>2 DEF Ahead
  <2> QED BY <1>2, <1>3, <2>3
<1>7. ASSUME b \notin wr PROVE \E m \in Pos(r, o) : m < n /\ Fills(r[o][m], b)
  <2>1. PICK m \in Pos(q, o) : m < n + k[o] /\ Fills(q[o][m], b)
    BY <1>4, <1>7
  <2>2. m > k[o]
    <3>1. SUFFICES ASSUME ~ (m > k[o]) PROVE FALSE
      OBVIOUS
    <3>2. o = st /\ m = 1
      BY <1>1, <3>1 DEF Shifted
    <3>3. ~ Fills(q[st][1], b)
      BY TaskKinds
    <3> QED BY <2>1, <3>2, <3>3
  <2>3. m \in Nat /\ m - k[o] \in Pos(r, o) /\ r[o][m - k[o]] = q[o][m]
    BY <1>1, <2>2 DEF Shifted
  <2>4. m - k[o] < n
    BY <1>2, <1>3, <2>1, <2>3
  <2> QED BY <2>1, <2>3, <2>4
<1> QED BY <1>5, <1>6, <1>7

LEMMA WillBeFilledAfterRelease ==
  ASSUME NEW q \in Queues, NEW r \in Queues, NEW st \in Stream, Retires(q, r, st),
         NEW wr, NEW a \in Buffer, Releases(q[st][1], a),
         NEW o \in Stream, NEW b \in Buffer, b # a, WillBeFilled(q, wr, o, b)
  PROVE  WillBeFilled(r, wr \ {a}, o, b)
<1>1. PICK k : Shifted(q, r, st, k)
  BY Shifting
<1>2. CASE b \in wr
  BY <1>2 DEF WillBeFilled
<1>3. CASE b \notin wr
  <2>1. PICK m \in Pos(q, o) : Fills(q[o][m], b)
    BY <1>3 DEF WillBeFilled
  <2>2. m > k[o]
    <3>1. SUFFICES ASSUME ~ (m > k[o]) PROVE FALSE
      OBVIOUS
    <3>2. o = st /\ m = 1
      BY <1>1, <3>1 DEF Shifted
    <3>3. ~ Fills(q[st][1], b)
      BY TaskKinds
    <3> QED BY <2>1, <3>2, <3>3
  <2>3. m - k[o] \in Pos(r, o) /\ r[o][m - k[o]] = q[o][m]
    BY <1>1, <2>2 DEF Shifted
  <2> QED BY <2>1, <2>3 DEF WillBeFilled
<1> QED BY <1>2, <1>3

LEMMA WorkOnDone ==
  ASSUME NEW q \in Queues, NEW r \in Queues, NEW st \in Stream, Retires(q, r, st),
         NEW W, WorkOn(q, W)
  PROVE  WorkOn(r, W)
<1>1. PICK k : Shifted(q, r, st, k)
  BY Shifting
<1> QED BY <1>1 DEF WorkOn, Shifted

-----------------------------------------------------------------------------
(* Tasks are queued.                                                       *)

\* r is q with more tasks behind.
Grown(q, r) ==
  \A st \in Stream :
    /\ \A n \in Pos(q, st) : n \in Pos(r, st) /\ r[st][n] = q[st][n]
    /\ \A n \in Pos(r, st) : n \notin Pos(q, st) => \A m \in Pos(q, st) : m < n

LEMMA GrowsByOne ==
  ASSUME NEW q \in Queues, NEW r \in Queues, NEW st \in Stream, NEW t, Gains(q, r, st, t)
  PROVE  /\ Grown(q, r)
         /\ \A o \in Stream : \A n \in Pos(r, o) : n \notin Pos(q, o) => o = st /\ r[o][n] = t
         /\ \A n, m \in Pos(r, st) : n \notin Pos(q, st) /\ m \notin Pos(q, st) => n = m
         /\ \E n \in Pos(r, st) : n \notin Pos(q, st) /\ r[st][n] = t
<1>1. PICK l \in Nat : l = Len(q[st])
  BY QueueFacts
<1>2. Pos(q, st) = 1 .. l /\ Pos(r, st) = 1 .. l + 1
  BY <1>1 DEF Gains, Pos
<1>3. l + 1 \in Pos(r, st) /\ \A n \in Pos(r, st) : n \notin Pos(q, st) => n = l + 1
  BY <1>2
<1>4. l + 1 \notin Pos(q, st) /\ r[st][l + 1] = t
  BY <1>1, <1>2 DEF Gains
<1>5. \A o \in Stream : o # st => r[o] = q[o] /\ Pos(r, o) = Pos(q, o)
  BY DEF Gains, Pos
<1>6. \A n \in Pos(q, st) : n \in Pos(r, st) /\ r[st][n] = q[st][n] /\ n < l + 1
  BY <1>2 DEF Gains
<1>7. Grown(q, r)
  BY <1>3, <1>5, <1>6 DEF Grown
<1> QED BY <1>3, <1>4, <1>5, <1>7

LEMMA GrowsByReleases ==
  ASSUME NEW q \in Queues, NEW r \in Queues, NEW B, NEW bd, Frees(q, r, B, bd)
  PROVE  Grown(q, r)
<1> SUFFICES ASSUME NEW st \in Stream
             PROVE  /\ \A n \in Pos(q, st) : n \in Pos(r, st) /\ r[st][n] = q[st][n]
                    /\ \A n \in Pos(r, st) : n \notin Pos(q, st) => \A m \in Pos(q, st) : m < n
  BY DEF Grown
<1>1. PICK k \in Nat, l \in Nat : k = Len(q[st]) /\ l = Len(r[st])
  BY QueueFacts
<1>2. k <= l /\ Pos(q, st) = 1 .. k /\ Pos(r, st) = 1 .. l
  BY <1>1 DEF Frees, Pos
<1>3. \A n \in Pos(q, st) : r[st][n] = q[st][n]
  BY DEF Frees
<1> QED BY <1>2, <1>3

LEMMA GrownAhead ==
  ASSUME NEW q, NEW r, Grown(q, r), NEW st \in Stream, NEW n \in Pos(q, st), NEW b,
         Ahead(q, st, n, b),
         \A o \in Stream : \A m \in Pos(r, o) :
           m \notin Pos(q, o) /\ Releases(r[o][m], b) => o = st
  PROVE  Ahead(r, st, n, b)
BY DEF Ahead, Grown

LEMMA GrownFacts ==
  ASSUME NEW q, NEW r, Grown(q, r), NEW b
  PROVE  /\ MallocQueued(q, b) => MallocQueued(r, b)
         /\ ReleaseQueued(q, b) => ReleaseQueued(r, b)
         /\ \A wr : \A o \in Stream : WillBeFilled(q, wr, o, b) => WillBeFilled(r, wr, o, b)
<1>1. MallocQueued(q, b) => MallocQueued(r, b)
  BY DEF Grown, MallocQueued
<1>2. ReleaseQueued(q, b) => ReleaseQueued(r, b)
  BY DEF Grown, ReleaseQueued
<1>3. \A wr : \A o \in Stream : WillBeFilled(q, wr, o, b) => WillBeFilled(r, wr, o, b)
  BY DEF Grown, WillBeFilled
<1> QED BY <1>1, <1>2, <1>3

(* An allocation is queued.                                                *)
LEMMA MallocGained ==
  ASSUME NEW q \in Queues, NEW r \in Queues, NEW st \in Stream, NEW t, Gains(q, r, st, t),
         NEW a \in Buffer, Mallocs(t, a),
         NEW lv, NEW O, NEW Y, InOrder(q, lv, O, Y, st),
         a \notin lv, a \notin O, ~ MallocQueued(q, a), ~ ReleaseQueued(q, a)
  PROVE  InOrder(r, lv, O \cup {a}, Y \cup {a}, st)
<1>1. /\ Grown(q, r)
      /\ \A o \in Stream : \A n \in Pos(r, o) : n \notin Pos(q, o) => o = st /\ r[o][n] = t
      /\ \A n, m \in Pos(r, st) : n \notin Pos(q, st) /\ m \notin Pos(q, st) => n = m
      /\ \E n \in Pos(r, st) : n \notin Pos(q, st) /\ r[st][n] = t
  BY GrowsByOne
<1>2. \A b : (Mallocs(t, b) => b = a) /\ ~ Writes(t, b) /\ ~ Releases(t, b)
  BY TaskKinds
<1>3. \A o \in Stream : \A n \in Pos(q, o) :
        ~ Mallocs(q[o][n], a) /\ ~ Writes(q[o][n], a) /\ ~ Releases(q[o][n], a)
  <2>1. \A o \in Stream : \A n \in Pos(q, o) : ~ Mallocs(q[o][n], a) /\ ~ Releases(q[o][n], a)
    BY DEF MallocQueued, ReleaseQueued
  <2> QED BY <2>1 DEF InOrder, Present
<1>4. \A o \in Stream : \A n \in Pos(q, o) : n \in Pos(r, o) /\ r[o][n] = q[o][n]
  BY <1>1 DEF Grown
<1>5. MallocOnce(r, lv)
  <2> SUFFICES ASSUME NEW o \in Stream, NEW n \in Pos(r, o), NEW b \in Buffer, Mallocs(r[o][n], b)
               PROVE  /\ b \notin lv
                      /\ \A p \in Stream : \A m \in Pos(r, p) : Mallocs(r[p][m], b) => p = o /\ m = n
    BY DEF MallocOnce
  <2>1. CASE n \in Pos(q, o)
    <3>1. Mallocs(q[o][n], b) /\ b # a
      BY <1>3, <1>4, <2>1
    <3>2. \A p \in Stream : \A m \in Pos(r, p) : Mallocs(r[p][m], b) => m \in Pos(q, p)
      BY <1>1, <1>2, <3>1
    <3> QED BY <1>4, <2>1, <3>1, <3>2 DEF InOrder, MallocOnce
  <2>2. CASE n \notin Pos(q, o)
    <3>1. o = st /\ b = a
      BY <1>1, <1>2, <2>2
    <3>2. \A p \in Stream : \A m \in Pos(r, p) : Mallocs(r[p][m], a) => m \notin Pos(q, p)
      BY <1>3, <1>4
    <3> QED BY <1>1, <2>2, <3>1, <3>2
  <2> QED BY <2>1, <2>2
<1>6. Accounted(r, lv, O \cup {a})
  <2> SUFFICES ASSUME NEW b \in Buffer, b \in lv \/ MallocQueued(r, b), b # a
               PROVE  b \in O \/ ReleaseQueued(r, b)
    BY DEF Accounted
  <2>1. b \in lv \/ MallocQueued(q, b)
    BY <1>1, <1>2, <1>4 DEF MallocQueued
  <2> QED BY <1>1, <2>1, GrownFacts DEF InOrder, Accounted
<1>7. Backed(r, lv, O \cup {a})
  <2>1. MallocQueued(r, a)
    BY <1>1 DEF MallocQueued
  <2>2. ASSUME NEW b \in Buffer, b \in O PROVE b \in lv \/ MallocQueued(r, b)
    <3>1. b \in lv \/ MallocQueued(q, b)
      BY <2>2 DEF InOrder, Backed
    <3> QED BY <1>1, <3>1, GrownFacts
  <2> QED BY <2>1, <2>2 DEF Backed
<1>8. ASSUME NEW b PROVE ReleaseQueued(r, b) => ReleaseQueued(q, b)
  BY <1>1, <1>2, <1>4 DEF ReleaseQueued
<1>9. TouchFirst(r)
  <2> SUFFICES ASSUME NEW o \in Stream, NEW n \in Pos(r, o), NEW b \in Buffer,
                      Mallocs(r[o][n], b) \/ Writes(r[o][n], b)
               PROVE  Ahead(r, o, n, b)
    BY DEF TouchFirst
  <2>1. CASE n \in Pos(q, o)
    <3>1. Ahead(q, o, n, b)
      BY <1>4, <2>1 DEF InOrder, TouchFirst
    <3>2. \A p \in Stream : \A m \in Pos(r, p) : m \notin Pos(q, p) /\ Releases(r[p][m], b) => p = o
      BY <1>1, <1>2
    <3> QED BY <1>1, <2>1, <3>1, <3>2, GrownAhead
  <2>2. CASE n \notin Pos(q, o)
    <3>1. b = a
      BY <1>1, <1>2, <2>2
    <3>2. ~ ReleaseQueued(r, a)
      BY <1>8
    <3> QED BY <3>1, <3>2 DEF Ahead, ReleaseQueued
  <2> QED BY <2>1, <2>2
<1>10. TouchOwn(r, O \cup {a}, Y \cup {a}, st)
  <2> SUFFICES ASSUME NEW o \in Stream, NEW n \in Pos(r, o), NEW b \in Buffer,
                      Mallocs(r[o][n], b) \/ Writes(r[o][n], b), b \in O \cup {a}
               PROVE  b \in Y \cup {a} /\ o = st
    BY DEF TouchOwn
  <2>1. CASE n \in Pos(q, o)
    <3>1. Mallocs(q[o][n], b) \/ Writes(q[o][n], b)
      BY <1>4, <2>1
    <3>2. b # a
      BY <1>3, <2>1, <3>1
    <3> QED BY <2>1, <3>1, <3>2 DEF InOrder, TouchOwn
  <2>2. CASE n \notin Pos(q, o)
    BY <1>1, <1>2, <2>2
  <2> QED BY <2>1, <2>2
<1>11. Present(r, lv)
  <2> SUFFICES ASSUME NEW o \in Stream, NEW n \in Pos(r, o), NEW b \in Buffer,
                      Writes(r[o][n], b) \/ Releases(r[o][n], b), b \notin lv
               PROVE  \E m \in Pos(r, o) : m < n /\ Mallocs(r[o][m], b)
    BY DEF Present
  <2>1. n \in Pos(q, o) /\ r[o][n] = q[o][n]
    BY <1>1, <1>2, <1>4
  <2>2. PICK m \in Pos(q, o) : m < n /\ Mallocs(q[o][m], b)
    BY <2>1 DEF InOrder, Present
  <2> QED BY <1>4, <2>2
<1>12. ReleaseOnce(r, O \cup {a})
  <2> SUFFICES ASSUME NEW o \in Stream, NEW n \in Pos(r, o), NEW b \in Buffer, Releases(r[o][n], b)
               PROVE  /\ b \notin O \cup {a}
                      /\ \A p \in Stream : \A m \in Pos(r, p) : Releases(r[p][m], b) => p = o /\ m = n
    BY DEF ReleaseOnce
  <2>1. \A p \in Stream : \A m \in Pos(r, p) :
          Releases(r[p][m], b) => m \in Pos(q, p) /\ Releases(q[p][m], b)
    BY <1>1, <1>2, <1>4
  <2>2. n \in Pos(q, o) /\ Releases(q[o][n], b)
    BY <2>1
  <2>3. b # a
    BY <1>3, <2>2
  <2> QED BY <2>1, <2>2, <2>3 DEF InOrder, ReleaseOnce
<1> QED BY <1>5, <1>6, <1>7, <1>9, <1>10, <1>11, <1>12 DEF InOrder

(* A kernel or a copy is queued that writes buffers with an owner.         *)
LEMMA WorkGained ==
  ASSUME NEW q \in Queues, NEW r \in Queues, NEW st \in Stream, NEW t, Gains(q, r, st, t),
         t.op = "work", t.writes \subseteq Buffer,
         NEW lv, NEW O, NEW Y, InOrder(q, lv, O, Y, st), t.writes \subseteq O
  PROVE  InOrder(r, lv, O, Y \cup t.writes, st)
<1>1. /\ Grown(q, r)
      /\ \A o \in Stream : \A n \in Pos(r, o) : n \notin Pos(q, o) => o = st /\ r[o][n] = t
  BY GrowsByOne
<1>2. \A b : ~ Mallocs(t, b) /\ ~ Releases(t, b) /\ (Writes(t, b) => b \in t.writes)
  BY TaskKinds DEF Writes
<1>3. \A o \in Stream : \A n \in Pos(q, o) : n \in Pos(r, o) /\ r[o][n] = q[o][n]
  BY <1>1 DEF Grown
<1>4. \A p \in Stream : \A m \in Pos(r, p) : \A b :
        Mallocs(r[p][m], b) \/ Releases(r[p][m], b) => m \in Pos(q, p) /\ r[p][m] = q[p][m]
  BY <1>1, <1>2, <1>3
<1>5. MallocOnce(r, lv)
  BY <1>4 DEF InOrder, MallocOnce
<1>6. Accounted(r, lv, O)
  <2> SUFFICES ASSUME NEW b \in Buffer, b \in lv \/ MallocQueued(r, b)
               PROVE  b \in O \/ ReleaseQueued(r, b)
    BY DEF Accounted
  <2>1. b \in lv \/ MallocQueued(q, b)
    BY <1>4 DEF MallocQueued
  <2> QED BY <1>1, <2>1, GrownFacts DEF InOrder, Accounted
<1>7. Backed(r, lv, O)
  BY <1>1, GrownFacts DEF InOrder, Backed
<1>8. TouchFirst(r)
  <2> SUFFICES ASSUME NEW o \in Stream, NEW n \in Pos(r, o), NEW b \in Buffer,
                      Mallocs(r[o][n], b) \/ Writes(r[o][n], b)
               PROVE  Ahead(r, o, n, b)
    BY DEF TouchFirst
  <2>1. CASE n \in Pos(q, o)
    <3>1. Ahead(q, o, n, b)
      BY <1>3, <2>1 DEF InOrder, TouchFirst
    <3>2. \A p \in Stream : \A m \in Pos(r, p) : m \notin Pos(q, p) /\ Releases(r[p][m], b) => p = o
      BY <1>4
    <3> QED BY <1>1, <2>1, <3>1, <3>2, GrownAhead
  <2>2. CASE n \notin Pos(q, o)
    <3>1. b \in O
      BY <1>1, <1>2, <2>2
    <3>2. \A p \in Stream : \A m \in Pos(r, p) : ~ Releases(r[p][m], b)
      BY <1>4, <3>1 DEF InOrder, ReleaseOnce
    <3> QED BY <3>2 DEF Ahead
  <2> QED BY <2>1, <2>2
<1>9. TouchOwn(r, O, Y \cup t.writes, st)
  <2> SUFFICES ASSUME NEW o \in Stream, NEW n \in Pos(r, o), NEW b \in Buffer,
                      Mallocs(r[o][n], b) \/ Writes(r[o][n], b), b \in O
               PROVE  b \in Y \cup t.writes /\ o = st
    BY DEF TouchOwn
  <2>1. CASE n \in Pos(q, o)
    <3>1. Mallocs(q[o][n], b) \/ Writes(q[o][n], b)
      BY <1>3, <2>1
    <3> QED BY <2>1, <3>1 DEF InOrder, TouchOwn
  <2>2. CASE n \notin Pos(q, o)
    BY <1>1, <1>2, <2>2
  <2> QED BY <2>1, <2>2
<1>10. Present(r, lv)
  <2> SUFFICES ASSUME NEW o \in Stream, NEW n \in Pos(r, o), NEW b \in Buffer,
                      Writes(r[o][n], b) \/ Releases(r[o][n], b), b \notin lv
               PROVE  \E m \in Pos(r, o) : m < n /\ Mallocs(r[o][m], b)
    BY DEF Present
  <2>1. CASE n \in Pos(q, o)
    <3>1. PICK m \in Pos(q, o) : m < n /\ Mallocs(q[o][m], b)
      BY <1>3, <2>1 DEF InOrder, Present
    <3> QED BY <1>3, <3>1
  <2>2. CASE n \notin Pos(q, o)
    <3>1. o = st /\ b \in O
      BY <1>1, <1>2, <2>2
    <3>2. MallocQueued(q, b)
      BY <3>1 DEF InOrder, Backed
    <3>3. PICK p \in Stream : \E m \in Pos(q, p) : Mallocs(q[p][m], b)
      BY <3>2 DEF MallocQueued
    <3>4. PICK m \in Pos(q, p) : Mallocs(q[p][m], b)
      BY <3>3
    <3>5. p = st
      BY <3>1, <3>4 DEF InOrder, TouchOwn
    <3>6. m < n
      BY <1>1, <2>2, <3>1, <3>4, <3>5 DEF Grown
    <3> QED BY <1>3, <3>1, <3>4, <3>5, <3>6
  <2> QED BY <2>1, <2>2
<1>11. ReleaseOnce(r, O)
  BY <1>4 DEF InOrder, ReleaseOnce
<1> QED BY <1>5, <1>6, <1>7, <1>8, <1>9, <1>10, <1>11 DEF InOrder

\* The buffers of B are owned, and those that are still to be allocated or
\* written will be on the stream that they are bound to.
Freeable(B, O, Y, c, bd) ==
  /\ B \subseteq O /\ B \subseteq Buffer
  /\ \A b \in B : bd[b] \in Stream /\ (b \in Y => bd[b] = c)

(* Buffers are freed.                                                      *)
LEMMA FreedInOrder ==
  ASSUME NEW q \in Queues, NEW r \in Queues, NEW B, NEW bd, Frees(q, r, B, bd),
         NEW lv, NEW O, NEW Y, NEW c, InOrder(q, lv, O, Y, c), Freeable(B, O, Y, c, bd)
  PROVE  InOrder(r, lv, O \ B, Y, c)
<1>1. Grown(q, r)
  BY GrowsByReleases
<1>2. \A o \in Stream : \A n \in Pos(q, o) : n \in Pos(r, o) /\ r[o][n] = q[o][n]
  BY <1>1 DEF Grown
<1>3. ASSUME NEW o \in Stream, NEW n \in Pos(r, o), n \notin Pos(q, o)
      PROVE  \E b \in B : /\ bd[b] = o /\ Releases(r[o][n], b) /\ r[o][n] = Release(b)
                          /\ \A d : Releases(r[o][n], d) => d = b
                          /\ \A d : ~ Mallocs(r[o][n], d) /\ ~ Writes(r[o][n], d)
  <2>1. PICK b \in B : bd[b] = o /\ r[o][n] = Release(b)
    BY <1>3 DEF Frees
  <2>2. b \in Buffer
    BY DEF Freeable
  <2>3. Releases(r[o][n], b)
    BY <2>1, <2>2, ReleaseIs DEF Releases
  <2> QED BY <2>1, <2>3, TaskKinds
<1>4. \A p \in Stream : \A m \in Pos(r, p) : \A b :
        Mallocs(r[p][m], b) \/ Writes(r[p][m], b) => m \in Pos(q, p) /\ r[p][m] = q[p][m]
  BY <1>2, <1>3
<1>5. ASSUME NEW b \in B PROVE b \in Buffer /\ b \in O /\ ReleaseQueued(r, b)
  <2>1. b \in Buffer /\ b \in O /\ bd[b] \in Stream
    BY DEF Freeable
  <2>2. PICK n \in Pos(r, bd[b]) : r[bd[b]][n] = Release(b)
    BY <2>1 DEF Frees
  <2>3. Releases(r[bd[b]][n], b)
    BY <2>1, <2>2, ReleaseIs DEF Releases
  <2> QED BY <2>1, <2>3 DEF ReleaseQueued
<1>6. ASSUME NEW b, b \in O PROVE \A o \in Stream : \A n \in Pos(q, o) : b \in Buffer => ~ Releases(q[o][n], b)
  BY <1>6 DEF InOrder, ReleaseOnce
<1>7. MallocOnce(r, lv)
  BY <1>4 DEF InOrder, MallocOnce
<1>8. Accounted(r, lv, O \ B)
  <2> SUFFICES ASSUME NEW b \in Buffer, b \in lv \/ MallocQueued(r, b)
               PROVE  b \in O \ B \/ ReleaseQueued(r, b)
    BY DEF Accounted
  <2>1. b \in lv \/ MallocQueued(q, b)
    BY <1>4 DEF MallocQueued
  <2>2. b \in O \/ ReleaseQueued(q, b)
    BY <2>1 DEF InOrder, Accounted
  <2> QED BY <1>1, <1>5, <2>2, GrownFacts
<1>9. Backed(r, lv, O \ B)
  BY <1>1, GrownFacts DEF InOrder, Backed
<1>10. TouchFirst(r)
  <2> SUFFICES ASSUME NEW o \in Stream, NEW n \in Pos(r, o), NEW b \in Buffer,
                      Mallocs(r[o][n], b) \/ Writes(r[o][n], b)
               PROVE  Ahead(r, o, n, b)
    BY DEF TouchFirst
  <2>1. n \in Pos(q, o) /\ r[o][n] = q[o][n]
    BY <1>4
  <2>2. Ahead(q, o, n, b)
    BY <2>1 DEF InOrder, TouchFirst
  <2>3. ASSUME NEW p \in Stream, NEW m \in Pos(r, p), m \notin Pos(q, p), Releases(r[p][m], b)
        PROVE  p = o
    <3>1. b \in B /\ bd[b] = p
      <4>1. PICK d \in B : bd[d] = p /\ \A e : Releases(r[p][m], e) => e = d
        BY <1>3, <2>3
      <4> QED BY <2>3, <4>1
    <3>2. b \in Y /\ o = c
      BY <1>5, <2>1, <3>1 DEF InOrder, TouchOwn
    <3> QED BY <3>1, <3>2 DEF Freeable
  <2> QED BY <1>1, <2>1, <2>2, <2>3, GrownAhead
<1>11. TouchOwn(r, O \ B, Y, c)
  BY <1>4 DEF InOrder, TouchOwn
<1>12. Present(r, lv)
  <2> SUFFICES ASSUME NEW o \in Stream, NEW n \in Pos(r, o), NEW b \in Buffer,
                      Writes(r[o][n], b) \/ Releases(r[o][n], b), b \notin lv
               PROVE  \E m \in Pos(r, o) : m < n /\ Mallocs(r[o][m], b)
    BY DEF Present
  <2>1. CASE n \in Pos(q, o)
    <3>1. PICK m \in Pos(q, o) : m < n /\ Mallocs(q[o][m], b)
      BY <1>2, <2>1 DEF InOrder, Present
    <3> QED BY <1>2, <3>1
  <2>2. CASE n \notin Pos(q, o)
    <3>1. b \in B /\ bd[b] = o
      BY <1>3, <2>2
    <3>2. MallocQueued(q, b)
      BY <1>5, <3>1 DEF InOrder, Backed
    <3>3. PICK p \in Stream : \E m \in Pos(q, p) : Mallocs(q[p][m], b)
      BY <3>2 DEF MallocQueued
    <3>4. PICK m \in Pos(q, p) : Mallocs(q[p][m], b)
      BY <3>3
    <3>5. b \in Y /\ p = c
      BY <1>5, <3>1, <3>4 DEF InOrder, TouchOwn
    <3>6. p = o
      BY <3>1, <3>5 DEF Freeable
    <3>7. m < n
      BY <1>1, <2>2, <3>4, <3>6 DEF Grown
    <3> QED BY <1>2, <3>4, <3>6, <3>7
  <2> QED BY <2>1, <2>2
<1>13. ReleaseOnce(r, O \ B)
  <2> SUFFICES ASSUME NEW o \in Stream, NEW n \in Pos(r, o), NEW b \in Buffer, Releases(r[o][n], b)
               PROVE  /\ b \notin O \ B
                      /\ \A p \in Stream : \A m \in Pos(r, p) : Releases(r[p][m], b) => p = o /\ m = n
    BY DEF ReleaseOnce
  <2>1. CASE n \in Pos(q, o)
    <3>1. Releases(q[o][n], b)
      BY <1>2, <2>1
    <3>2. b \notin O /\ b \notin B
      BY <1>5, <1>6, <2>1, <3>1
    <3>3. \A p \in Stream : \A m \in Pos(r, p) :
            Releases(r[p][m], b) => m \in Pos(q, p) /\ Releases(q[p][m], b)
      BY <1>2, <1>3, <3>2
    <3> QED BY <2>1, <3>1, <3>2, <3>3 DEF InOrder, ReleaseOnce
  <2>2. CASE n \notin Pos(q, o)
    <3>1. b \in B /\ bd[b] = o /\ r[o][n] = Release(b)
      BY <1>3, <2>2
    <3>2. b \in O
      BY <1>5, <3>1
    <3>3. ASSUME NEW p \in Stream, NEW m \in Pos(r, p), Releases(r[p][m], b) PROVE p = o /\ m = n
      <4>1. m \notin Pos(q, p)
        BY <1>2, <1>6, <3>2, <3>3
      <4>2. bd[b] = p /\ r[p][m] = Release(b)
        BY <1>3, <3>3, <4>1
      <4> QED BY <2>2, <3>1, <4>1, <4>2 DEF Frees
    <3> QED BY <3>1, <3>3
  <2> QED BY <2>1, <2>2
<1> QED BY <1>7, <1>8, <1>9, <1>10, <1>11, <1>12, <1>13 DEF InOrder

(* What is read, after buffers were freed: only on the stream that has the *)
(* work that reads.                                                        *)
LEMMA ReadsAfterFree ==
  ASSUME NEW q \in Queues, NEW r \in Queues, NEW B, NEW bd, Frees(q, r, B, bd), B \subseteq Buffer,
         NEW wr, ReadsFilled(q, wr), NEW W, WorkOn(q, W), \A o \in W : \A b \in B : bd[b] = o
  PROVE  ReadsFilled(r, wr) /\ WorkOn(r, W)
<1>1. Grown(q, r)
  BY GrowsByReleases
<1>2. \A o \in Stream : \A n \in Pos(q, o) : n \in Pos(r, o) /\ r[o][n] = q[o][n]
  BY <1>1 DEF Grown
<1>3. ASSUME NEW o \in Stream, NEW n \in Pos(r, o), n \notin Pos(q, o)
      PROVE  \E b \in B : /\ bd[b] = o /\ \A d : Releases(r[o][n], d) => d = b
                          /\ r[o][n].op # "work"
  <2>1. PICK b \in B : bd[b] = o /\ r[o][n] = Release(b)
    BY <1>3 DEF Frees
  <2>2. b \in Buffer
    OBVIOUS
  <2>3. Releases(r[o][n], b)
    BY <2>1, <2>2, ReleaseIs DEF Releases
  <2> QED BY <2>1, <2>3, TaskKinds
<1>4. WorkOn(r, W)
  BY <1>2, <1>3 DEF WorkOn
<1>5. ReadsFilled(r, wr)
  <2> SUFFICES ASSUME NEW o \in Stream, NEW n \in Pos(r, o), NEW b \in Buffer, Reads(r[o][n], b)
               PROVE  /\ Ahead(r, o, n, b)
                      /\ b \in wr \/ \E m \in Pos(r, o) : m < n /\ Fills(r[o][m], b)
    BY DEF ReadsFilled
  <2>1. n \in Pos(q, o) /\ r[o][n] = q[o][n] /\ r[o][n].op = "work"
    BY <1>2, <1>3, TaskKinds
  <2>2. o \in W
    BY <2>1 DEF WorkOn
  <2>3. /\ Ahead(q, o, n, b)
        /\ b \in wr \/ \E m \in Pos(q, o) : m < n /\ Fills(q[o][m], b)
    BY <2>1 DEF ReadsFilled
  <2>4. \A p \in Stream : \A m \in Pos(r, p) : m \notin Pos(q, p) /\ Releases(r[p][m], b) => p = o
    BY <1>3, <2>2
  <2>5. Ahead(r, o, n, b)
    BY <1>1, <2>1, <2>3, <2>4, GrownAhead
  <2> QED BY <1>2, <2>3, <2>5
<1> QED BY <1>4, <1>5

(* What is read, after a task was queued that is no release and reads what *)
(* will be filled and is owned.                                            *)
LEMMA ReadsAfterGain ==
  ASSUME NEW q \in Queues, NEW r \in Queues, NEW st \in Stream, NEW t, Gains(q, r, st, t),
         NEW wr, ReadsFilled(q, wr), \A b : ~ Releases(t, b),
         \A b \in Buffer : Reads(t, b) => WillBeFilled(q, wr, st, b) /\ ~ ReleaseQueued(q, b)
  PROVE  ReadsFilled(r, wr)
<1>1. /\ Grown(q, r)
      /\ \A o \in Stream : \A n \in Pos(r, o) : n \notin Pos(q, o) => o = st /\ r[o][n] = t
  BY GrowsByOne
<1>2. \A o \in Stream : \A n \in Pos(q, o) : n \in Pos(r, o) /\ r[o][n] = q[o][n]
  BY <1>1 DEF Grown
<1>3. \A p \in Stream : \A m \in Pos(r, p) : \A b :
        Releases(r[p][m], b) => m \in Pos(q, p) /\ Releases(q[p][m], b)
  BY <1>1, <1>2
<1> SUFFICES ASSUME NEW o \in Stream, NEW n \in Pos(r, o), NEW b \in Buffer, Reads(r[o][n], b)
             PROVE  /\ Ahead(r, o, n, b)
                    /\ b \in wr \/ \E m \in Pos(r, o) : m < n /\ Fills(r[o][m], b)
  BY DEF ReadsFilled
<1>4. CASE n \in Pos(q, o)
  <2>1. /\ Ahead(q, o, n, b)
        /\ b \in wr \/ \E m \in Pos(q, o) : m < n /\ Fills(q[o][m], b)
    BY <1>2, <1>4 DEF ReadsFilled
  <2>2. \A p \in Stream : \A m \in Pos(r, p) : m \notin Pos(q, p) /\ Releases(r[p][m], b) => p = o
    BY <1>3
  <2>3. Ahead(r, o, n, b)
    BY <1>1, <1>4, <2>1, <2>2, GrownAhead
  <2> QED BY <1>2, <2>1, <2>3
<1>5. CASE n \notin Pos(q, o)
  <2>1. o = st /\ WillBeFilled(q, wr, st, b) /\ ~ ReleaseQueued(q, b)
    BY <1>1, <1>5
  <2>2. Ahead(r, o, n, b)
    BY <1>3, <2>1 DEF Ahead, ReleaseQueued
  <2>3. ASSUME b \notin wr PROVE \E m \in Pos(r, o) : m < n /\ Fills(r[o][m], b)
    <3>1. PICK m \in Pos(q, st) : Fills(q[st][m], b)
      BY <2>1, <2>3 DEF WillBeFilled
    <3>2. m < n
      BY <1>1, <1>5, <2>1, <3>1 DEF Grown
    <3> QED BY <1>2, <2>1, <3>1, <3>2
  <2> QED BY <2>2, <2>3
<1> QED BY <1>4, <1>5

LEMMA WorkOnGained ==
  ASSUME NEW q \in Queues, NEW r \in Queues, NEW st \in Stream, NEW t, Gains(q, r, st, t),
         NEW W, WorkOn(q, W), NEW V, W \subseteq V, t.op = "work" => st \in V
  PROVE  WorkOn(r, V)
<1>1. /\ Grown(q, r)
      /\ \A o \in Stream : \A n \in Pos(r, o) : n \notin Pos(q, o) => o = st /\ r[o][n] = t
  BY GrowsByOne
<1> QED BY <1>1 DEF WorkOn, Grown

(* When the stream has nothing left to do, nothing is left to write; and   *)
(* what nothing is left to write needs no stream.                          *)
LEMMA Synced ==
  ASSUME NEW q \in Queues, NEW lv, NEW O, NEW Y, NEW c \in Stream, InOrder(q, lv, O, Y, c),
         q[c] = <<>>
  PROVE  \A d : InOrder(q, lv, O, {}, d)
<1>1. Pos(q, c) = {}
  BY QueueFacts
<1> QED BY <1>1 DEF InOrder, TouchOwn

LEMMA InOrderGrows ==
  ASSUME NEW q, NEW lv, NEW O, NEW Y, NEW Z, NEW c, NEW d, InOrder(q, lv, O, Y, c),
         Y = {} \/ (Y \subseteq Z /\ c = d)
  PROVE  InOrder(q, lv, O, Z, d)
BY DEF InOrder, TouchOwn

-----------------------------------------------------------------------------
(* The invariant.                                                          *)

HeldSet    == {held[s] : s \in Sketch} \ {None}
ScratchSet == {call.scratch[n] : n \in DOMAIN call.scratch}
OwnedSet   == HeldSet \cup ScratchSet

Target == IF home[call.sketch] = None THEN call.stream ELSE home[call.sketch]

Typed ==
  /\ held \in [Sketch -> Buffer \cup {None}]
  /\ home \in [Sketch -> Stream \cup {None}]
  /\ \A s \in Sketch : home[s] = None => held[s] = None
  /\ queue \in Queues
  /\ live \subseteq Buffer /\ written \subseteq live
  /\ bound \in [Buffer -> Stream \cup {None}]
  /\ owed \in Stream \cup {None}

CallRecord(s, st, p, sc) == [sketch |-> s, stream |-> st, program |-> p, scratch |-> sc]

CallTyped ==
  \/ call = NoCall
  \/ /\ \E s \in Sketch : \E st \in Stream : \E p, sc : call = CallRecord(s, st, p, sc)
     /\ owed = None

\* What a sketch holds is written, and bound to the sketch's stream.
Kept ==
  \A s \in Sketch : held[s] # None => held[s] \in written /\ bound[held[s]] = home[s]

Distinct ==
  /\ \A s, t \in Sketch : held[s] = held[t] /\ held[s] # None => s = t
  /\ \A n, m \in DOMAIN call.scratch : call.scratch[n] = call.scratch[m] => n = m
  /\ \A s \in Sketch : \A n \in DOMAIN call.scratch : held[s] # call.scratch[n]

\* The state is what account x says.
Fits(x) ==
  /\ Earns(call.program, x, Blank)
  /\ call.scratch \in [x.names -> Buffer]
  /\ x.rebound # {} => x.work = "done"
  /\ \A n \in x.names :
       bound[call.scratch[n]] = IF n \in x.rebound THEN Target ELSE call.stream
  /\ \A n \in x.filled \cap Sketch : held[n] # None
  /\ \A n \in x.filled \cap Name :
       n \in x.names /\ WillBeFilled(queue, written, call.stream, call.scratch[n])

\* The buffers that queued work may still write, the streams that have work.
Pending(x) == IF x.work = "done" THEN {} ELSE ScratchSet
Working(x) == (IF x.work = "done" THEN {} ELSE {call.stream}) \cup {owed}

ReadsSafe(x) ==
  SettlesAfterThrow => WorkOn(queue, Working(x)) /\ ReadsFilled(queue, written)

IInv(x) ==
  /\ Typed /\ CallTyped /\ Kept /\ Distinct
  /\ Fits(x)
  /\ InOrder(queue, live, OwnedSet, Pending(x), call.stream)
  /\ ReadsSafe(x)

Inv == \E x : IInv(x)

LEMMA OwnedFacts ==
  ASSUME Typed, NEW x, call.scratch \in [x.names -> Buffer]
  PROVE  /\ OwnedSet \subseteq Buffer /\ HeldSet \subseteq Buffer
         /\ \A s \in Sketch : held[s] # None => held[s] \in HeldSet
         /\ \A n \in x.names : call.scratch[n] \in ScratchSet /\ call.scratch[n] \in Buffer
         /\ DOMAIN call.scratch = x.names
         /\ \A b \in ScratchSet : \E n \in x.names : call.scratch[n] = b
         /\ \A b \in HeldSet : \E s \in Sketch : held[s] = b /\ b # None
BY DEF Typed, OwnedSet, HeldSet, ScratchSet

LEMMA NoCallIs ==
  /\ NoCall.sketch = None /\ NoCall.stream = None
  /\ NoCall.program = <<>> /\ NoCall.scratch = <<>> /\ DOMAIN NoCall.scratch = {}
BY DEF NoCall

LEMMA CallIs ==
  ASSUME NEW s, NEW st, NEW p, NEW sc, call = CallRecord(s, st, p, sc)
  PROVE  call.sketch = s /\ call.stream = st /\ call.program = p /\ call.scratch = sc
BY DEF CallRecord

(* Outside calls the account is blank.                                     *)
LEMMA NoCallBlank ==
  ASSUME NEW x, Fits(x), call.program = <<>>
  PROVE  /\ x.names = {} /\ x.filled = {} /\ x.work = "done" /\ x.rebound = {}
         /\ ScratchSet = {} /\ Pending(x) = {} /\ Working(x) = {owed}
<1>1. x = Blank
  BY Spent DEF Fits
<1>2. x.names = {} /\ x.filled = {} /\ x.work = "done" /\ x.rebound = {}
  BY <1>1 DEF Blank
<1>3. ScratchSet = {}
  BY <1>2 DEF Fits, ScratchSet
<1> QED BY <1>2, <1>3 DEF Pending, Working

-----------------------------------------------------------------------------
(* What the invariant says.                                                *)

LEMMA InvSafe ==
  ASSUME Inv
  PROVE  /\ TypeOK /\ FreedOnOwnStream /\ NoLeak
         /\ SettlesAfterThrow => NoInvalidAccess /\ CompletesBeforeReturning
<1>1. PICK x : IInv(x)
  BY DEF Inv
<1>2. TypeOK
  BY <1>1 DEF IInv, Typed, TypeOK
<1>3. FreedOnOwnStream
  BY <1>1 DEF IInv, Kept, FreedOnOwnStream
<1>4. queue \in Queues /\ Typed /\ Fits(x) /\ InOrder(queue, live, OwnedSet, Pending(x), call.stream)
  BY <1>1 DEF IInv, Typed
<1>5. \A st \in Stream : \A n \in Pos(queue, st) : queue[st][n] \in Tasks
  <2>1. ASSUME NEW st \in Stream PROVE DOMAIN queue[st] = Pos(queue, st)
    <3>1. queue[st] \in Seq(TaskSet)
      BY <1>4, QueueFacts
    <3> QED BY <3>1, LenProperties DEF Pos
  <2> QED BY <2>1 DEF Tasks
<1>6. NoLeak
  <2> SUFFICES ASSUME Idle, Tasks = {} PROVE live = HeldSet
    BY DEF NoLeak, HeldSet
  <2>1. \A st \in Stream : \A n \in Pos(queue, st) : FALSE
    BY <1>5
  <2>2. ScratchSet = {}
    BY <1>4, NoCallBlank, NoCallIs DEF Idle
  <2>3. \A b : ~ MallocQueued(queue, b) /\ ~ ReleaseQueued(queue, b)
    BY <2>1 DEF MallocQueued, ReleaseQueued
  <2>4. live \subseteq OwnedSet
    BY <1>4, <2>3 DEF InOrder, Accounted, Typed
  <2>5. OwnedSet \subseteq live
    <3>1. OwnedSet \subseteq Buffer
      BY <1>4, OwnedFacts DEF Fits
    <3> QED BY <1>4, <2>3, <3>1 DEF InOrder, Backed
  <2> QED BY <2>2, <2>4, <2>5 DEF OwnedSet
<1>7. ASSUME SettlesAfterThrow PROVE NoInvalidAccess
  <2>1. WorkOn(queue, Working(x)) /\ ReadsFilled(queue, written)
    BY <1>1, <1>7 DEF IInv, ReadsSafe
  <2> SUFFICES ASSUME NEW st \in Stream, queue[st] # <<>>, NEW t, t = Head(queue[st])
               PROVE  CASE t.op = "work"    -> t.writes \subseteq live /\ t.reads \subseteq written
                        [] t.op = "release" -> t.buffer \in live
                        [] t.op = "malloc"  -> t.buffer \notin live
    BY DEF NoInvalidAccess, Ready
  <2>2. 1 \in Pos(queue, st) /\ t = queue[st][1] /\ t \in TaskSet /\ Pos(queue, st) \subseteq Nat \ {0}
    BY <1>4, QueueFacts DEF Pos
  <2>3. CASE t.op = "work"
    <3>1. t.writes \subseteq Buffer /\ t.reads \subseteq Buffer
      BY <2>2, <2>3 DEF TaskSet
    <3>2. ASSUME NEW b \in t.writes PROVE b \in live
      <4>1. b \in live \/ \E m \in Pos(queue, st) : m < 1 /\ Mallocs(queue[st][m], b)
        BY <1>4, <2>2, <2>3, <3>1, <3>2 DEF InOrder, Present, Writes
      <4> QED BY <2>2, <4>1
    <3>3. ASSUME NEW b \in t.reads PROVE b \in written
      <4>1. b \in written \/ \E m \in Pos(queue, st) : m < 1 /\ Fills(queue[st][m], b)
        BY <2>1, <2>2, <2>3, <3>1, <3>3 DEF ReadsFilled, Reads
      <4> QED BY <2>2, <4>1
    <3> QED BY <2>3, <3>2, <3>3
  <2>4. CASE t.op = "release"
    <3>1. t.buffer \in Buffer
      BY <2>2, <2>4 DEF TaskSet
    <3>2. PICK b \in Buffer : b = t.buffer
      BY <3>1
    <3>3. Releases(queue[st][1], b)
      BY <2>2, <2>4, <3>2 DEF Releases
    <3>4. b \in live \/ \E m \in Pos(queue, st) : m < 1 /\ Mallocs(queue[st][m], b)
      BY <1>4, <2>2, <3>3 DEF InOrder, Present
    <3>5. b \in live
      BY <2>2, <3>4
    <3> QED BY <2>4, <3>2, <3>5
  <2>5. CASE t.op = "malloc"
    <3>1. t.buffer \in Buffer
      BY <2>2, <2>5 DEF TaskSet
    <3>2. t.buffer \notin live
      BY <1>4, <2>2, <2>5, <3>1 DEF InOrder, MallocOnce, Mallocs
    <3> QED BY <2>5, <3>2
  <2>6. t.op = "work" \/ t.op = "release" \/ t.op = "malloc"
    BY <2>2 DEF TaskSet
  <2> QED BY <2>3, <2>4, <2>5, <2>6
<1>8. ASSUME SettlesAfterThrow PROVE CompletesBeforeReturning
  <2> SUFFICES ASSUME Idle, NEW t \in Tasks, t.op = "work" PROVE FALSE
    BY DEF CompletesBeforeReturning
  <2>1. PICK st \in Stream : \E n \in Pos(queue, st) : t = queue[st][n]
    <3>1. PICK st \in Stream : t \in {queue[st][n] : n \in DOMAIN queue[st]}
      BY DEF Tasks
    <3>2. queue[st] \in Seq(TaskSet)
      BY <1>4, QueueFacts
    <3>3. DOMAIN queue[st] = Pos(queue, st)
      BY <3>2, LenProperties DEF Pos
    <3> QED BY <3>1, <3>3
  <2>2. WorkOn(queue, Working(x)) /\ Working(x) = {owed} /\ owed = None
    BY <1>1, <1>4, <1>8, NoCallBlank, NoCallIs DEF IInv, ReadsSafe, Idle
  <2>3. st = None
    BY <2>1, <2>2 DEF WorkOn
  <2> QED BY <2>3, StreamsAssumption
<1> QED BY <1>2, <1>3, <1>6, <1>7, <1>8

(* Nothing is queued, held or in progress at first.                        *)
LEMMA InvInit ==
  ASSUME Init
  PROVE  Inv
<1>1. IInv(Blank)
  <2>1. \A st \in Stream : queue[st] = <<>>
    BY DEF Init
  <2>2. queue \in Queues
    BY DEF Init, Queues
  <2>3. \A st \in Stream : Pos(queue, st) = {}
    BY <2>1, <2>2, QueueFacts
  <2>4. call = NoCall /\ call.program = <<>> /\ DOMAIN call.scratch = {} /\ call.stream = None
        /\ call.scratch = <<>>
    BY NoCallIs DEF Init
  <2>5. Typed /\ CallTyped /\ Kept /\ Distinct
    BY <2>2, <2>4 DEF Init, Typed, CallTyped, Kept, Distinct
  <2>6. Blank \in Account /\ Blank.names = {} /\ Blank.filled = {} /\ Blank.rebound = {} /\ Blank.work = "done"
    BY DEF Blank, Account
  <2>7. call.scratch \in [Blank.names -> Buffer]
    BY <2>4, <2>6
  <2>8. Fits(Blank)
    BY <2>4, <2>6, <2>7, EarnsNothing DEF Fits
  <2>9. HeldSet = {} /\ ScratchSet = {} /\ live = {}
    BY <2>4 DEF Init, HeldSet, ScratchSet
  <2>10. InOrder(queue, live, OwnedSet, Pending(Blank), call.stream)
    BY <2>3, <2>9 DEF InOrder, MallocOnce, Accounted, Backed, TouchFirst, TouchOwn, Present,
                      ReleaseOnce, OwnedSet, MallocQueued
  <2>11. ReadsSafe(Blank)
    BY <2>3 DEF ReadsSafe, WorkOn, ReadsFilled
  <2> QED BY <2>5, <2>8, <2>10, <2>11 DEF IInv
<1> QED BY <1>1 DEF Inv

-----------------------------------------------------------------------------
(* Every step keeps the invariant.                                         *)

(* The device carried a task out, whatever it was.                         *)
LEMMA DeviceMoved ==
  ASSUME NEW x, IInv(x), UNCHANGED <<held, home, bound, call, owed>>,
         NEW st \in Stream, Retires(queue, queue', st),
         live' \subseteq Buffer, written' \subseteq live',
         \A b \in OwnedSet : b \in written => b \in written',
         \A o \in Stream : \A b \in Buffer : b \in OwnedSet /\ WillBeFilled(queue, written, o, b)
           => WillBeFilled(queue', written', o, b),
         InOrder(queue', live', OwnedSet, Pending(x), call.stream),
         ReadsFilled(queue, written) => ReadsFilled(queue', written')
  PROVE  IInv(x)'
<1>1. Typed /\ CallTyped /\ Kept /\ Distinct /\ Fits(x) /\ ReadsSafe(x)
  BY DEF IInv
<1>2. held' = held /\ home' = home /\ bound' = bound /\ call' = call /\ owed' = owed
  OBVIOUS
<1>3. queue' \in Queues /\ queue \in Queues
  BY <1>1 DEF Retires, Typed
<1>4. Typed'
  BY <1>1, <1>2, <1>3 DEF Typed
<1>5. CallTyped' /\ Distinct'
  BY <1>1, <1>2 DEF CallTyped, Distinct
<1>6. Kept'
  BY <1>1, <1>2 DEF Kept, OwnedSet, HeldSet
<1>7. Target' = Target /\ OwnedSet' = OwnedSet /\ Pending(x)' = Pending(x) /\ Working(x)' = Working(x)
  BY <1>2 DEF Target, OwnedSet, HeldSet, ScratchSet, Pending, Working
<1>8. Fits(x)'
  <2>1. \A n \in x.names : call.scratch[n] \in OwnedSet /\ call.scratch[n] \in Buffer
    BY <1>1, OwnedFacts DEF Fits, OwnedSet
  <2>2. call.stream \in Stream \/ x.names = {}
    BY <1>1, NoCallBlank, NoCallIs, CallIs DEF CallTyped
  <2>3. \A n \in x.filled \cap Name : WillBeFilled(queue', written', call.stream, call.scratch[n])
    <3> SUFFICES ASSUME NEW n \in x.filled \cap Name
                 PROVE  WillBeFilled(queue', written', call.stream, call.scratch[n])
      OBVIOUS
    <3>1. n \in x.names /\ WillBeFilled(queue, written, call.stream, call.scratch[n])
      BY <1>1 DEF Fits
    <3> QED BY <2>1, <2>2, <3>1
  <2> QED BY <1>1, <1>2, <1>7, <2>3 DEF Fits
<1>9. ReadsSafe(x)'
  <2> SUFFICES ASSUME SettlesAfterThrow
               PROVE  WorkOn(queue', Working(x)) /\ ReadsFilled(queue', written')
    BY <1>7 DEF ReadsSafe
  <2>1. WorkOn(queue, Working(x)) /\ ReadsFilled(queue, written)
    BY <1>1 DEF ReadsSafe
  <2>2. WorkOn(queue', Working(x))
    BY <1>3, <2>1, WorkOnDone
  <2> QED BY <2>1, <2>2
<1> QED BY <1>2, <1>4, <1>5, <1>6, <1>7, <1>8, <1>9 DEF IInv

LEMMA ExecuteKeeps ==
  ASSUME Inv, NEW st \in Stream, Execute(st)
  PROVE  Inv'
<1>1. PICK x : IInv(x)
  BY DEF Inv
<1>2. Typed /\ Fits(x) /\ InOrder(queue, live, OwnedSet, Pending(x), call.stream)
  BY <1>1 DEF IInv
<1>3. queue \in Queues /\ queue[st] # <<>> /\ written \subseteq live /\ live \subseteq Buffer
  BY <1>2 DEF Typed, Execute
<1>4. Retires(queue, queue', st)
  BY <1>3, TailRetires DEF Execute
<1>5. PICK t \in TaskSet : t = Head(queue[st]) /\ t = queue[st][1]
  BY <1>3, QueueFacts
<1>6. OwnedSet \subseteq Buffer /\ queue' \in Queues
  BY <1>2, <1>4, OwnedFacts DEF Fits, Retires
<1>7. UNCHANGED <<held, home, bound, call, owed>>
  BY DEF Execute
<1>8. CASE t.op = "malloc"
  <2>1. PICK a \in Buffer : a = t.buffer
    BY <1>5, <1>8 DEF TaskSet
  <2>2. live' = live \cup {a} /\ written' = written \cup {b \in {a} : t.filled}
    BY <1>5, <1>8, <2>1 DEF Execute
  <2>3. Mallocs(queue[st][1], a)
    BY <1>5, <1>8, <2>1 DEF Mallocs
  <2>4. InOrder(queue', live \cup {a}, OwnedSet, Pending(x), call.stream)
    BY <1>2, <1>3, <1>4, <1>6, <2>3, MallocDone
  <2>5. written \subseteq written'
    BY <2>2
  <2>6. \A b \in Buffer : Fills(queue[st][1], b) => b \in written'
    BY <1>5, <1>8, <2>1, <2>2 DEF Fills, Mallocs, Writes
  <2>7. /\ ReadsFilled(queue, written) => ReadsFilled(queue', written')
        /\ \A o \in Stream : \A b \in Buffer :
             WillBeFilled(queue, written, o, b) => WillBeFilled(queue', written', o, b)
    BY <1>3, <1>4, <1>6, <2>5, <2>6, ReadsAfterFill
  <2>8. live' \subseteq Buffer /\ written' \subseteq live'
    BY <1>3, <2>2
  <2>9. IInv(x)'
    BY <1>1, <1>4, <1>7, <2>2, <2>4, <2>5, <2>7, <2>8, DeviceMoved
  <2> QED BY <2>9 DEF Inv
<1>9. CASE t.op = "work"
  <2>1. live' = live /\ written' = written \cup t.writes /\ t.writes \subseteq Buffer
    BY <1>5, <1>9 DEF Execute, TaskSet
  <2>2. queue[st][1].op = "work" /\ \A b : Writes(queue[st][1], b) <=> b \in t.writes
    BY <1>5, <1>9 DEF Writes
  <2>3. /\ \A b \in Buffer : Writes(queue[st][1], b) => b \in live
        /\ InOrder(queue', live, OwnedSet, Pending(x), call.stream)
    BY <1>2, <1>3, <1>4, <1>6, <2>2, WorkDone
  <2>5. written \subseteq written'
    BY <2>1
  <2>6. \A b \in Buffer : Fills(queue[st][1], b) => b \in written'
    BY <2>1, <2>2, TaskKinds
  <2>7. /\ ReadsFilled(queue, written) => ReadsFilled(queue', written')
        /\ \A o \in Stream : \A b \in Buffer :
             WillBeFilled(queue, written, o, b) => WillBeFilled(queue', written', o, b)
    BY <1>3, <1>4, <1>6, <2>5, <2>6, ReadsAfterFill
  <2>8. live' \subseteq Buffer /\ written' \subseteq live'
    BY <1>3, <2>1, <2>2, <2>3
  <2>9. IInv(x)'
    BY <1>1, <1>4, <1>7, <2>1, <2>3, <2>5, <2>7, <2>8, DeviceMoved
  <2> QED BY <2>9 DEF Inv
<1>10. CASE t.op = "release"
  <2>1. PICK a \in Buffer : a = t.buffer
    BY <1>5, <1>10 DEF TaskSet
  <2>2. live' = live \ {a} /\ written' = written \ {a}
    BY <1>5, <1>10, <2>1 DEF Execute
  <2>3. Releases(queue[st][1], a)
    BY <1>5, <1>10, <2>1 DEF Releases
  <2>4. a \notin OwnedSet /\ InOrder(queue', live \ {a}, OwnedSet, Pending(x), call.stream)
    BY <1>2, <1>3, <1>4, <1>6, <2>3, ReleaseDone
  <2>5. \A b \in OwnedSet : b \in written => b \in written'
    BY <2>2, <2>4
  <2>6. ReadsFilled(queue, written) => ReadsFilled(queue', written')
    BY <1>3, <1>4, <1>6, <2>2, <2>3, ReadsAfterRelease
  <2>7. ASSUME NEW o \in Stream, NEW b \in Buffer, b \in OwnedSet, WillBeFilled(queue, written, o, b)
        PROVE  WillBeFilled(queue', written', o, b)
    <3>1. b # a
      BY <2>4, <2>7
    <3> QED BY <1>3, <1>4, <1>6, <2>2, <2>3, <2>7, <3>1, WillBeFilledAfterRelease
  <2>8. live' \subseteq Buffer /\ written' \subseteq live'
    BY <1>3, <2>2
  <2>9. IInv(x)'
    BY <1>1, <1>4, <1>7, <2>2, <2>4, <2>5, <2>6, <2>7, <2>8, DeviceMoved
  <2> QED BY <2>9 DEF Inv
<1> QED BY <1>5, <1>8, <1>9, <1>10 DEF TaskSet

(* Inside a call.                                                          *)
LEMMA InCall ==
  ASSUME NEW x, IInv(x), call.program # <<>>
  PROVE  \E s \in Sketch : \E st \in Stream : \E p, sc :
           /\ call = CallRecord(s, st, p, sc) /\ owed = None
           /\ call.sketch = s /\ call.stream = st /\ call.program = p /\ call.scratch = sc
           /\ p # <<>> /\ Earns(p, x, Blank) /\ x \in Account
<1>1. call # NoCall
  BY NoCallIs
<1>2. PICK s \in Sketch, st \in Stream : owed = None /\ \E p, sc : call = CallRecord(s, st, p, sc)
  BY <1>1 DEF IInv, CallTyped
<1>3. PICK p, sc : call = CallRecord(s, st, p, sc)
  BY <1>2
<1>4. call.sketch = s /\ call.stream = st /\ call.program = p /\ call.scratch = sc
  BY <1>3, CallIs
<1>5. Earns(p, x, Blank)
  BY <1>4 DEF IInv, Fits
<1>6. x \in Account
  BY <1>5, Spent
<1> QED BY <1>2, <1>3, <1>4, <1>5, <1>6

(* The next instruction is done, and the account kept.                     *)
LEMMA NextInstruction ==
  ASSUME NEW s, NEW st, NEW p, NEW sc, call = CallRecord(s, st, p, sc),
         call' = [call EXCEPT !.program = Tail(@)]
  PROVE  /\ call' = CallRecord(s, st, Tail(p), sc)
         /\ call'.sketch = s /\ call'.stream = st /\ call'.program = Tail(p) /\ call'.scratch = sc
BY DEF CallRecord

(* An instruction that only changes the account and adds to the queues.    *)
LEMMA RunKeeps ==
  ASSUME Inv, call.program # <<>>, NEW i, i = Head(call.program), StepRun(i), UNCHANGED owed
  PROVE  Inv'
<1>1. PICK x : IInv(x)
  BY DEF Inv
<1>2. PICK s \in Sketch, st \in Stream :
        \E p, sc :
           /\ call = CallRecord(s, st, p, sc) /\ owed = None
           /\ call.sketch = s /\ call.stream = st /\ call.program = p /\ call.scratch = sc
           /\ p # <<>> /\ Earns(p, x, Blank) /\ x \in Account
  BY <1>1, InCall
<1>3. PICK p, sc :
           /\ call = CallRecord(s, st, p, sc) /\ owed = None
           /\ call.sketch = s /\ call.stream = st /\ call.program = p /\ call.scratch = sc
           /\ p # <<>> /\ Earns(p, x, Blank) /\ x \in Account
  BY <1>2
<1>4. i = Head(p) /\ i.op = "run" /\ i.op # "either"
  BY <1>3 DEF StepRun
<1>5. PICK z : Permits(i, x, z) /\ Earns(Tail(p), z, Blank)
  BY <1>3, <1>4, Spent
<1>6. /\ i.reads \subseteq x.filled /\ i.writes \subseteq x.names /\ x.rebound = {}
      /\ z.names = x.names /\ z.rebound = {} /\ z.filled \subseteq x.filled \cup i.writes
      /\ z.work = "pending"
  BY <1>4, <1>5 DEF Permits
<1>7. /\ x.names \subseteq Name /\ x.filled \subseteq Sketch \cup Name
  BY <1>3 DEF Account
<1>8. /\ Typed /\ CallTyped /\ Kept /\ Distinct /\ Fits(x)
      /\ InOrder(queue, live, OwnedSet, Pending(x), st) /\ ReadsSafe(x)
  BY <1>1, <1>3 DEF IInv
<1>9. sc \in [x.names -> Buffer] /\ DOMAIN sc = x.names /\ ScratchSet = {sc[n] : n \in x.names}
  BY <1>3, <1>8 DEF Fits, ScratchSet
<1>10. PICK R, W : R = {Deref(n) : n \in i.reads} /\ W = {Deref(n) : n \in i.writes}
  OBVIOUS
<1>11. \A n \in Name : Deref(n) = sc[n]
  BY <1>3, StreamsAssumption DEF Deref
<1>12. \A n \in Sketch : Deref(n) = held[n]
  BY DEF Deref
<1>13. W \subseteq ScratchSet /\ W \subseteq Buffer /\ \A n \in i.writes : sc[n] \in W
  BY <1>6, <1>7, <1>9, <1>10, <1>11
<1>14. ASSUME NEW b \in R
       PROVE  b \in Buffer /\ b \in OwnedSet /\ WillBeFilled(queue, written, st, b)
  <2>1. PICK n \in i.reads : b = Deref(n)
    BY <1>10
  <2>2. CASE n \in Sketch
    <3>1. held[n] # None
      BY <1>6, <1>8, <2>2 DEF Fits
    <3>2. b = held[n] /\ held[n] \in written /\ held[n] \in Buffer
      BY <1>8, <1>12, <2>1, <2>2, <3>1 DEF Kept, Typed
    <3> QED BY <2>2, <3>1, <3>2 DEF OwnedSet, HeldSet, WillBeFilled
  <2>3. CASE n \in Name
    <3>1. n \in x.names /\ WillBeFilled(queue, written, st, sc[n])
      BY <1>3, <1>6, <1>8, <2>3 DEF Fits
    <3>2. b = sc[n]
      BY <1>11, <2>1, <2>3
    <3> QED BY <1>9, <3>1, <3>2 DEF OwnedSet
  <2> QED BY <1>6, <1>7, <2>2, <2>3
<1>15. PICK t \in TaskSet : t = Work(R, W) /\ t.op = "work" /\ t.reads = R /\ t.writes = W
  <2>1. R \in SUBSET Buffer /\ W \in SUBSET Buffer
    BY <1>13, <1>14
  <2>2. Work(R, W) \in TaskSet /\ Work(R, W).op = "work" /\ Work(R, W).reads = R /\ Work(R, W).writes = W
    BY <2>1 DEF Work, TaskSet
  <2> QED BY <2>2
<1>16. queue' = Behind(st, t) /\ queue \in Queues
  BY <1>3, <1>8, <1>10, <1>15 DEF StepRun, Typed
<1>17. Gains(queue, queue', st, t) /\ queue' \in Queues
  BY <1>16, BehindQueues DEF Gains
<1>18. UNCHANGED <<held, home, live, written, bound, owed>>
  BY DEF StepRun
<1>19. /\ call' = CallRecord(s, st, Tail(p), sc)
       /\ call'.sketch = s /\ call'.stream = st /\ call'.program = Tail(p) /\ call'.scratch = sc
  BY <1>3, NextInstruction DEF StepRun
<1>20. /\ OwnedSet' = OwnedSet /\ Target' = Target /\ ScratchSet' = ScratchSet
       /\ Pending(z)' = ScratchSet /\ Working(z)' = {st, owed}
  BY <1>3, <1>6, <1>18, <1>19 DEF OwnedSet, HeldSet, ScratchSet, Target, Pending, Working
<1>21. InOrder(queue', live, OwnedSet, ScratchSet, st)
  <2>1. W \subseteq OwnedSet
    BY <1>13 DEF OwnedSet
  <2>2. InOrder(queue', live, OwnedSet, Pending(x) \cup W, st)
    BY <1>8, <1>13, <1>15, <1>16, <1>17, <2>1, WorkGained
  <2>3. Pending(x) \cup W \subseteq ScratchSet
    BY <1>13 DEF Pending
  <2> QED BY <2>2, <2>3, InOrderGrows
<1>22. Grown(queue, queue') /\ \E k \in Pos(queue', st) : queue'[st][k] = t
  BY <1>16, <1>17, GrowsByOne
<1>23. Typed' /\ CallTyped' /\ Kept' /\ Distinct'
  BY <1>3, <1>8, <1>17, <1>18, <1>19 DEF Typed, CallTyped, Kept, Distinct
<1>24. ASSUME NEW n \in z.filled \cap Name
       PROVE  n \in z.names /\ WillBeFilled(queue', written', st, sc[n])
  <2>1. CASE n \in i.writes
    <3>1. sc[n] \in W
      BY <1>13, <2>1
    <3>2. Fills(t, sc[n])
      BY <1>15, <3>1 DEF Fills, Writes
    <3> QED BY <1>6, <1>22, <2>1, <3>2 DEF WillBeFilled
  <2>2. CASE n \in x.filled
    <3>1. n \in x.names /\ WillBeFilled(queue, written, st, sc[n])
      BY <1>3, <1>8, <2>2 DEF Fits
    <3> QED BY <1>6, <1>18, <1>22, <3>1, GrownFacts
  <2> QED BY <1>6, <2>1, <2>2
<1>25. Fits(z)'
  <2>1. \A n \in z.filled \cap Sketch : held[n] # None
    <3>1. z.filled \cap Sketch \subseteq x.filled
      BY <1>6, <1>7, StreamsAssumption
    <3> QED BY <1>8, <3>1 DEF Fits
  <2>2. \A n \in z.names : bound[sc[n]] = st
    BY <1>3, <1>6, <1>8 DEF Fits
  <2>3. call'.scratch \in [z.names -> Buffer] /\ Earns(call'.program, z, Blank)
    BY <1>5, <1>6, <1>9, <1>19
  <2> QED BY <1>6, <1>18, <1>19, <1>24, <2>1, <2>2, <2>3 DEF Fits
<1>26. ReadsSafe(z)'
  <2> SUFFICES ASSUME SettlesAfterThrow
               PROVE  WorkOn(queue', {st, owed}) /\ ReadsFilled(queue', written)
    BY <1>18, <1>20 DEF ReadsSafe
  <2>1. WorkOn(queue, Working(x)) /\ ReadsFilled(queue, written)
    BY <1>8 DEF ReadsSafe
  <2>2. Working(x) \subseteq {st, owed}
    BY <1>3 DEF Working
  <2>3. WorkOn(queue', {st, owed})
    BY <1>16, <1>17, <2>1, <2>2, WorkOnGained
  <2>4. \A b : ~ Releases(t, b)
    BY <1>15, TaskKinds
  <2>5. ASSUME NEW b \in Buffer, Reads(t, b)
        PROVE  WillBeFilled(queue, written, st, b) /\ ~ ReleaseQueued(queue, b)
    <3>1. b \in OwnedSet /\ WillBeFilled(queue, written, st, b)
      BY <1>14, <1>15, <2>5 DEF Reads
    <3>2. ~ ReleaseQueued(queue, b)
      BY <1>8, <3>1 DEF InOrder, ReleaseOnce, ReleaseQueued
    <3> QED BY <3>1, <3>2
  <2>6. ReadsFilled(queue', written)
    BY <1>16, <1>17, <2>1, <2>4, <2>5, ReadsAfterGain
  <2> QED BY <2>3, <2>6
<1>27. IInv(z)'
  BY <1>18, <1>19, <1>20, <1>21, <1>23, <1>25, <1>26 DEF IInv
<1> QED BY <1>27 DEF Inv

LEMMA SyncKeeps ==
  ASSUME Inv, call.program # <<>>, NEW i, i = Head(call.program), StepSync(i), UNCHANGED owed
  PROVE  Inv'
<1>1. PICK x : IInv(x)
  BY DEF Inv
<1>2. PICK s \in Sketch, st \in Stream :
        \E p, sc :
           /\ call = CallRecord(s, st, p, sc) /\ owed = None
           /\ call.sketch = s /\ call.stream = st /\ call.program = p /\ call.scratch = sc
           /\ p # <<>> /\ Earns(p, x, Blank) /\ x \in Account
  BY <1>1, InCall
<1>3. PICK p, sc :
           /\ call = CallRecord(s, st, p, sc) /\ owed = None
           /\ call.sketch = s /\ call.stream = st /\ call.program = p /\ call.scratch = sc
           /\ p # <<>> /\ Earns(p, x, Blank) /\ x \in Account
  BY <1>2
<1>4. i = Head(p) /\ i.op = "sync" /\ i.op # "either" /\ queue[st] = <<>>
  BY <1>3 DEF StepSync
<1>5. PICK z : Permits(i, x, z) /\ Earns(Tail(p), z, Blank)
  BY <1>3, <1>4, Spent
<1>6. /\ z.names = x.names /\ z.rebound = x.rebound /\ z.filled \subseteq x.filled
      /\ z.rebound # {} => z.work = "done"
  BY <1>4, <1>5 DEF Permits
<1>7. /\ Typed /\ CallTyped /\ Kept /\ Distinct /\ Fits(x)
      /\ InOrder(queue, live, OwnedSet, Pending(x), st) /\ ReadsSafe(x)
  BY <1>1, <1>3 DEF IInv
<1>8. queue \in Queues
  BY <1>7 DEF Typed
<1>9. UNCHANGED <<held, home, queue, live, written, bound, owed>>
  BY DEF StepSync
<1>10. /\ call' = CallRecord(s, st, Tail(p), sc)
       /\ call'.sketch = s /\ call'.stream = st /\ call'.program = Tail(p) /\ call'.scratch = sc
  BY <1>3, NextInstruction DEF StepSync
<1>11. OwnedSet' = OwnedSet /\ Target' = Target
  BY <1>3, <1>9, <1>10 DEF OwnedSet, HeldSet, ScratchSet, Target
<1>12. Typed' /\ CallTyped' /\ Kept' /\ Distinct'
  BY <1>3, <1>7, <1>9, <1>10 DEF Typed, CallTyped, Kept, Distinct
<1>13. Fits(z)'
  <2>1. call'.scratch \in [z.names -> Buffer] /\ Earns(call'.program, z, Blank)
    BY <1>3, <1>5, <1>6, <1>7, <1>10 DEF Fits
  <2>2. /\ \A n \in z.names : bound[sc[n]] = IF n \in z.rebound THEN Target ELSE st
        /\ \A n \in z.filled \cap Sketch : held[n] # None
        /\ \A n \in z.filled \cap Name : n \in z.names /\ WillBeFilled(queue, written, st, sc[n])
    BY <1>3, <1>6, <1>7 DEF Fits
  <2> QED BY <1>6, <1>9, <1>10, <1>11, <2>1, <2>2 DEF Fits
<1>14. InOrder(queue', live', OwnedSet', Pending(z)', call'.stream)
  <2>1. InOrder(queue, live, OwnedSet, {}, st)
    BY <1>4, <1>7, <1>8, Synced
  <2>2. InOrder(queue, live, OwnedSet, Pending(z)', st)
    BY <2>1, InOrderGrows
  <2> QED BY <1>9, <1>10, <1>11, <2>2
<1>15. ReadsSafe(z)'
  <2> SUFFICES ASSUME SettlesAfterThrow
               PROVE  WorkOn(queue, Working(z)') /\ ReadsFilled(queue, written)
    BY <1>9 DEF ReadsSafe
  <2>1. WorkOn(queue, Working(x)) /\ ReadsFilled(queue, written)
    BY <1>7 DEF ReadsSafe
  <2>2. Pos(queue, st) = {}
    BY <1>4, <1>8, QueueFacts
  <2>3. Working(x) \subseteq {st, owed} /\ owed \in Working(z)'
    BY <1>3, <1>9 DEF Working
  <2> QED BY <2>1, <2>2, <2>3 DEF WorkOn
<1>16. IInv(z)'
  BY <1>12, <1>13, <1>14, <1>15 DEF IInv
<1> QED BY <1>16 DEF Inv

LEMMA EitherKeeps ==
  ASSUME Inv, call.program # <<>>, NEW i, i = Head(call.program), StepEither(i), UNCHANGED owed
  PROVE  Inv'
<1>1. PICK x : IInv(x)
  BY DEF Inv
<1>2. PICK s \in Sketch, st \in Stream :
        \E p, sc :
           /\ call = CallRecord(s, st, p, sc) /\ owed = None
           /\ call.sketch = s /\ call.stream = st /\ call.program = p /\ call.scratch = sc
           /\ p # <<>> /\ Earns(p, x, Blank) /\ x \in Account
  BY <1>1, InCall
<1>3. PICK p, sc :
           /\ call = CallRecord(s, st, p, sc) /\ owed = None
           /\ call.sketch = s /\ call.stream = st /\ call.program = p /\ call.scratch = sc
           /\ p # <<>> /\ Earns(p, x, Blank) /\ x \in Account
  BY <1>2
<1>4. i = Head(p) /\ i.op = "either"
  BY <1>3 DEF StepEither
<1>5. PICK c \in i.programs : call' = [call EXCEPT !.program = c \o Tail(@)]
  BY DEF StepEither
<1>6. PICK q : q = c \o Tail(p) /\ Earns(q, x, Blank)
  BY <1>3, <1>4, <1>5, Spent
<1>7. call' = CallRecord(s, st, q, sc)
  BY <1>3, <1>5, <1>6 DEF CallRecord
<1>8. call'.sketch = s /\ call'.stream = st /\ call'.program = q /\ call'.scratch = sc
  BY <1>7 DEF CallRecord
<1>9. UNCHANGED <<held, home, queue, live, written, bound, owed>>
  BY DEF StepEither
<1>10. /\ Typed /\ CallTyped /\ Kept /\ Distinct /\ Fits(x)
       /\ InOrder(queue, live, OwnedSet, Pending(x), st) /\ ReadsSafe(x)
  BY <1>1, <1>3 DEF IInv
<1>11. OwnedSet' = OwnedSet /\ Target' = Target /\ Pending(x)' = Pending(x) /\ Working(x)' = Working(x)
  BY <1>3, <1>8, <1>9 DEF OwnedSet, HeldSet, ScratchSet, Target, Pending, Working
<1>12. Typed' /\ CallTyped' /\ Kept' /\ Distinct'
  BY <1>3, <1>7, <1>8, <1>9, <1>10 DEF Typed, CallTyped, Kept, Distinct
<1>13. Fits(x)'
  BY <1>3, <1>6, <1>8, <1>9, <1>10, <1>11 DEF Fits
<1>14. ReadsSafe(x)'
  BY <1>9, <1>10, <1>11 DEF ReadsSafe
<1>15. IInv(x)'
  BY <1>3, <1>8, <1>9, <1>10, <1>11, <1>12, <1>13, <1>14 DEF IInv
<1> QED BY <1>15 DEF Inv

(* The call is over.                                                       *)
LEMMA ReturnKeeps ==
  ASSUME Inv, Return
  PROVE  Inv'
<1>1. PICK x : IInv(x)
  BY DEF Inv
<1>2. /\ Typed /\ CallTyped /\ Kept /\ Distinct /\ Fits(x)
      /\ InOrder(queue, live, OwnedSet, Pending(x), call.stream) /\ ReadsSafe(x)
  BY <1>1 DEF IInv
<1>3. /\ x.names = {} /\ x.filled = {} /\ x.work = "done" /\ x.rebound = {}
      /\ ScratchSet = {} /\ Pending(x) = {} /\ Working(x) = {owed}
  BY <1>2, NoCallBlank DEF Return
<1>4. UNCHANGED <<held, home, queue, live, written, bound, owed>> /\ call' = NoCall
  BY DEF Return
<1>5. call'.program = <<>> /\ DOMAIN call'.scratch = {} /\ call'.scratch = <<>>
  BY <1>4, NoCallIs
<1>6. ScratchSet' = {} /\ OwnedSet' = OwnedSet /\ Pending(x)' = {} /\ Working(x)' = {owed}
  BY <1>3, <1>4, <1>5 DEF OwnedSet, HeldSet, ScratchSet, Pending, Working
<1>7. Typed' /\ CallTyped' /\ Kept' /\ Distinct'
  BY <1>2, <1>4, <1>5 DEF Typed, CallTyped, Kept, Distinct
<1>8. Fits(x)'
  <2>1. Earns(call'.program, x, Blank)
    BY <1>2, <1>5 DEF Fits, Return
  <2>2. call'.scratch \in [x.names -> Buffer]
    BY <1>3, <1>5
  <2> QED BY <1>3, <2>1, <2>2 DEF Fits
<1>9. InOrder(queue', live', OwnedSet', Pending(x)', call'.stream)
  BY <1>2, <1>3, <1>4, <1>6, InOrderGrows
<1>10. ReadsSafe(x)'
  BY <1>2, <1>3, <1>4, <1>6 DEF ReadsSafe
<1>11. IInv(x)'
  BY <1>7, <1>8, <1>9, <1>10 DEF IInv
<1> QED BY <1>11 DEF Inv

(* The client synchronized after an exception.                             *)
LEMMA SettleKeeps ==
  ASSUME Inv, Settle
  PROVE  Inv'
<1>1. PICK x : IInv(x)
  BY DEF Inv
<1>2. /\ Typed /\ CallTyped /\ Kept /\ Distinct /\ Fits(x)
      /\ InOrder(queue, live, OwnedSet, Pending(x), call.stream) /\ ReadsSafe(x)
  BY <1>1 DEF IInv
<1>3. call = NoCall /\ call.program = <<>> /\ owed \in Stream /\ queue \in Queues
  BY <1>2, NoCallIs DEF Settle, CallTyped, Typed
<1>4. UNCHANGED <<held, home, queue, live, written, bound, call>> /\ queue[owed] = <<>> /\ owed' = None
  BY DEF Settle
<1>5. Working(x) = {owed}
  BY <1>2, <1>3, NoCallBlank
<1>6. OwnedSet' = OwnedSet /\ Target' = Target /\ Pending(x)' = Pending(x)
  BY <1>4 DEF OwnedSet, HeldSet, ScratchSet, Target, Pending
<1>7. Typed' /\ CallTyped' /\ Kept' /\ Distinct'
  BY <1>2, <1>3, <1>4 DEF Typed, CallTyped, Kept, Distinct
<1>8. Fits(x)'
  BY <1>2, <1>4, <1>6 DEF Fits
<1>9. ReadsSafe(x)'
  <2> SUFFICES ASSUME SettlesAfterThrow
               PROVE  WorkOn(queue, Working(x)') /\ ReadsFilled(queue, written)
    BY <1>4 DEF ReadsSafe
  <2>1. WorkOn(queue, {owed}) /\ ReadsFilled(queue, written)
    BY <1>2, <1>5 DEF ReadsSafe
  <2>2. Pos(queue, owed) = {}
    BY <1>3, <1>4, QueueFacts
  <2> QED BY <2>1, <2>2 DEF WorkOn
<1>10. IInv(x)'
  BY <1>2, <1>4, <1>6, <1>7, <1>8, <1>9 DEF IInv
<1> QED BY <1>10 DEF Inv

(* Between calls.                                                          *)
LEMMA BetweenCalls ==
  ASSUME NEW x, IInv(x), Idle
  PROVE  /\ x.names = {} /\ x.filled = {} /\ x.work = "done" /\ x.rebound = {}
         /\ ScratchSet = {} /\ Pending(x) = {} /\ Working(x) = {None}
         /\ call = NoCall /\ owed = None /\ call.program = <<>> /\ DOMAIN call.scratch = {}
         /\ \A c : InOrder(queue, live, HeldSet, {}, c)
         /\ SettlesAfterThrow => WorkOn(queue, {None}) /\ ReadsFilled(queue, written)
<1>1. call = NoCall /\ owed = None /\ call.program = <<>> /\ DOMAIN call.scratch = {}
  BY NoCallIs DEF Idle
<1>2. /\ x.names = {} /\ x.filled = {} /\ x.work = "done" /\ x.rebound = {}
      /\ ScratchSet = {} /\ Pending(x) = {} /\ Working(x) = {None}
  BY <1>1, NoCallBlank DEF IInv
<1>3. InOrder(queue, live, HeldSet, {}, call.stream)
  <2>1. OwnedSet = HeldSet
    BY <1>2 DEF OwnedSet
  <2> QED BY <1>2, <2>1 DEF IInv
<1>4. \A c : InOrder(queue, live, HeldSet, {}, c)
  BY <1>3, InOrderGrows
<1>5. SettlesAfterThrow => WorkOn(queue, {None}) /\ ReadsFilled(queue, written)
  BY <1>2 DEF IInv, ReadsSafe
<1> QED BY <1>1, <1>2, <1>4, <1>5

(* A call begins, with a program that is in order.                         *)
LEMMA CallKeeps ==
  ASSUME Inv, NEW s \in Sketch, NEW st \in Stream, NEW p, Earns(p, Start, Blank), Call(s, st, p)
  PROVE  Inv'
<1>1. PICK x : IInv(x)
  BY DEF Inv
<1>2. Idle
  BY DEF Call
<1>3. /\ \A c : InOrder(queue, live, HeldSet, {}, c) /\ owed = None
      /\ SettlesAfterThrow => WorkOn(queue, {None}) /\ ReadsFilled(queue, written)
  BY <1>1, <1>2, BetweenCalls
<1>4. Typed /\ Kept /\ Distinct
  BY <1>1 DEF IInv
<1>5. PICK y : y = Start
  OBVIOUS
<1>6. Earns(p, y, Blank) /\ y.names = {} /\ y.filled = Holders /\ y.work = "pending" /\ y.rebound = {}
  BY <1>5, AccIs DEF Start
<1>7. UNCHANGED <<held, home, queue, live, written, bound, owed>>
  BY DEF Call
<1>8. call' = CallRecord(s, st, p, <<>>)
  BY DEF Call, CallRecord
<1>9. /\ call'.sketch = s /\ call'.stream = st /\ call'.program = p /\ call'.scratch = <<>>
      /\ DOMAIN call'.scratch = {}
  BY <1>8 DEF CallRecord
<1>10. ScratchSet' = {} /\ OwnedSet' = HeldSet /\ Pending(y)' = {} /\ Working(y)' = {st, None}
  BY <1>3, <1>6, <1>7, <1>9 DEF OwnedSet, HeldSet, ScratchSet, Pending, Working
<1>11. Typed' /\ CallTyped' /\ Kept' /\ Distinct'
  BY <1>3, <1>4, <1>7, <1>8, <1>9 DEF Typed, CallTyped, Kept, Distinct
<1>12. Fits(y)'
  <2>1. call'.scratch \in [y.names -> Buffer]
    BY <1>6, <1>9
  <2>2. y.filled \cap Name = {} /\ \A n \in y.filled \cap Sketch : held[n] # None
    BY <1>6, StreamsAssumption DEF Holders
  <2> QED BY <1>6, <1>7, <1>9, <2>1, <2>2 DEF Fits
<1>13. InOrder(queue', live', OwnedSet', Pending(y)', call'.stream)
  BY <1>3, <1>7, <1>9, <1>10
<1>14. ReadsSafe(y)'
  <2>1. WorkOn(queue, {None}) => WorkOn(queue, {st, None})
    BY DEF WorkOn
  <2> QED BY <1>3, <1>7, <1>10, <2>1 DEF ReadsSafe
<1>15. IInv(y)'
  BY <1>11, <1>12, <1>13, <1>14 DEF IInv
<1> QED BY <1>15 DEF Inv

LEMMA CallsKeep ==
  ASSUME Inv, NEW s \in Sketch, NEW st \in Stream, Calls(s, st)
  PROVE  Inv'
<1>1. CASE Call(s, st, UpdateProgram(s))
  BY <1>1, UpdateEarns, CallKeeps
<1>2. CASE Call(s, st, ReadProgram(s))
  BY <1>2, ReadEarns, CallKeeps
<1>3. CASE Call(s, st, InstallNothing)
  BY <1>3, NothingEarns, CallKeeps
<1>4. ASSUME NEW o \in Sketch, Call(s, st, MergeProgram(s, o)) PROVE Inv'
  BY <1>4, MergeProgramEarns, CallKeeps
<1>5. ASSUME NEW o \in Sketch, Call(s, st, RetainProgram(s, o)) PROVE Inv'
  BY <1>5, RetainEarns, CallKeeps
<1>6. CASE Call(s, st, LoadProgram)
  BY <1>6, LoadEarns, CallKeeps
<1> QED BY <1>1, <1>2, <1>3, <1>4, <1>5, <1>6 DEF Calls

(* A sketch is constructed.                                                *)
LEMMA ConstructKeeps ==
  ASSUME Inv, NEW s \in Sketch, NEW st \in Stream, Construct(s, st)
  PROVE  Inv'
<1>1. PICK x : IInv(x)
  BY DEF Inv
<1>2. Idle
  BY DEF Construct
<1>3. /\ Typed /\ CallTyped /\ Kept /\ Distinct /\ Fits(x)
      /\ InOrder(queue, live, OwnedSet, Pending(x), call.stream) /\ ReadsSafe(x)
  BY <1>1 DEF IInv
<1>4. UNCHANGED <<held, queue, live, written, bound, call, owed>> /\ home' = [home EXCEPT ![s] = st]
  BY DEF Construct
<1>5. x.names = {} /\ held[s] = None
  BY <1>1, <1>2, <1>3, BetweenCalls DEF Typed, Construct
<1>6. home' \in [Sketch -> Stream \cup {None}] /\ home'[s] = st /\ \A t \in Sketch : t # s => home'[t] = home[t]
  BY <1>3, <1>4 DEF Typed
<1>7. OwnedSet' = OwnedSet /\ Pending(x)' = Pending(x) /\ Working(x)' = Working(x)
  BY <1>4 DEF OwnedSet, HeldSet, ScratchSet, Pending, Working
<1>8. Typed' /\ CallTyped' /\ Kept' /\ Distinct'
  BY <1>3, <1>4, <1>5, <1>6 DEF Typed, CallTyped, Kept, Distinct
<1>9. Fits(x)'
  <2>1. \A n \in x.names : FALSE
    BY <1>5
  <2> QED BY <1>3, <1>4, <2>1 DEF Fits
<1>10. IInv(x)'
  BY <1>3, <1>4, <1>7, <1>8, <1>9 DEF IInv, ReadsSafe
<1> QED BY <1>10 DEF Inv

(* Between calls the buffer of a sketch is freed.                          *)
LEMMA HeldFreed ==
  ASSUME NEW x, IInv(x), Idle, NEW s \in Sketch, home[s] # None,
         NEW B, B = {held[s]} \ {None}, Destroy(B)
  PROVE  /\ queue' \in Queues
         /\ \A c : InOrder(queue', live, HeldSet \ B, {}, c)
         /\ SettlesAfterThrow => WorkOn(queue', {None}) /\ ReadsFilled(queue', written)
         /\ bound' \in [Buffer -> Stream \cup {None}]
         /\ \A b \in Buffer : b \notin B => bound'[b] = bound[b]
<1>1. /\ \A c : InOrder(queue, live, HeldSet, {}, c)
      /\ SettlesAfterThrow => WorkOn(queue, {None}) /\ ReadsFilled(queue, written)
  BY BetweenCalls
<1>2. Typed /\ Kept /\ queue \in Queues
  BY DEF IInv, Typed
<1>3. B \in SUBSET Buffer /\ B \subseteq HeldSet /\ \A b \in B : bound[b] = home[s] /\ home[s] \in Stream
  BY <1>2 DEF Typed, Kept, HeldSet
<1>4. Frees(queue, queue', B, bound)
  BY <1>2, <1>3, DestroyFrees
<1>5. queue' \in Queues
  BY <1>4 DEF Frees
<1>6. ASSUME NEW c PROVE InOrder(queue', live, HeldSet \ B, {}, c)
  <2>1. Freeable(B, HeldSet, {}, c, bound)
    BY <1>3 DEF Freeable
  <2> QED BY <1>1, <1>2, <1>4, <1>5, <2>1, FreedInOrder
<1>7. ASSUME SettlesAfterThrow
      PROVE  WorkOn(queue', {None}) /\ ReadsFilled(queue', written)
  <2>1. PICK W : W = {}
    OBVIOUS
  <2>2. WorkOn(queue, W) /\ ReadsFilled(queue, written)
    BY <1>1, <1>7, StreamsAssumption DEF WorkOn
  <2>3. \A o \in W : \A b \in B : bound[b] = o
    BY <2>1
  <2>4. ReadsFilled(queue', written) /\ WorkOn(queue', W)
    BY <1>2, <1>3, <1>4, <1>5, <2>2, <2>3, ReadsAfterFree
  <2> QED BY <2>1, <2>4 DEF WorkOn
<1>8. /\ bound' \in [Buffer -> Stream \cup {None}]
      /\ \A b \in Buffer : b \notin B => bound'[b] = bound[b]
  BY <1>2 DEF Destroy, Typed
<1> QED BY <1>5, <1>6, <1>7, <1>8

(* Between calls only the sketches matter.                                 *)
LEMMA IdleMoved ==
  ASSUME NEW x, IInv(x), Idle, UNCHANGED <<live, written, call, owed>>,
         queue' \in Queues, bound' \in [Buffer -> Stream \cup {None}],
         held' \in [Sketch -> Buffer \cup {None}], home' \in [Sketch -> Stream \cup {None}],
         \A s \in Sketch : home'[s] = None => held'[s] = None,
         \A s \in Sketch : held'[s] # None => held'[s] \in written /\ bound'[held'[s]] = home'[s],
         \A s, t \in Sketch : held'[s] = held'[t] /\ held'[s] # None => s = t,
         \A c : InOrder(queue', live, HeldSet', {}, c),
         SettlesAfterThrow => WorkOn(queue', {None}) /\ ReadsFilled(queue', written)
  PROVE  Inv'
<1>1. /\ x.names = {} /\ x.filled = {} /\ x.work = "done" /\ x.rebound = {}
      /\ ScratchSet = {} /\ Pending(x) = {} /\ Working(x) = {None}
      /\ call = NoCall /\ owed = None /\ call.program = <<>> /\ DOMAIN call.scratch = {}
  BY BetweenCalls
<1>2. Typed /\ CallTyped /\ Distinct /\ Fits(x)
  BY DEF IInv
<1>3. call' = call /\ owed' = owed /\ live' = live /\ written' = written
  OBVIOUS
<1>4. ScratchSet' = {} /\ OwnedSet' = HeldSet' /\ Pending(x)' = {} /\ Working(x)' = {None}
  BY <1>1, <1>3 DEF OwnedSet, ScratchSet, Pending, Working
<1>5. Typed'
  BY <1>2, <1>3 DEF Typed
<1>6. CallTyped' /\ Kept' /\ Distinct'
  BY <1>1, <1>3 DEF CallTyped, Kept, Distinct
<1>7. Fits(x)'
  <2>1. call'.scratch \in [x.names -> Buffer] /\ Earns(call'.program, x, Blank)
    BY <1>2, <1>3 DEF Fits
  <2> QED BY <1>1, <2>1 DEF Fits
<1>8. ReadsSafe(x)'
  BY <1>3, <1>4 DEF ReadsSafe
<1>9. InOrder(queue', live', OwnedSet', Pending(x)', call'.stream)
  BY <1>3, <1>4
<1>10. IInv(x)'
  BY <1>5, <1>6, <1>7, <1>8, <1>9 DEF IInv
<1> QED BY <1>10 DEF Inv

LEMMA DestroySketchKeeps ==
  ASSUME Inv, NEW s \in Sketch, DestroySketch(s)
  PROVE  Inv'
<1>1. PICK x : IInv(x)
  BY DEF Inv
<1>2. PICK B : B = {held[s]} \ {None}
  OBVIOUS
<1>3. /\ queue' \in Queues
      /\ \A c : InOrder(queue', live, HeldSet \ B, {}, c)
      /\ SettlesAfterThrow => WorkOn(queue', {None}) /\ ReadsFilled(queue', written)
      /\ bound' \in [Buffer -> Stream \cup {None}]
      /\ \A b \in Buffer : b \notin B => bound'[b] = bound[b]
  BY <1>1, <1>2, HeldFreed DEF DestroySketch
<1>4. Typed /\ Kept /\ Distinct
  BY <1>1 DEF IInv
<1>5. /\ held' \in [Sketch -> Buffer \cup {None}] /\ home' \in [Sketch -> Stream \cup {None}]
      /\ held'[s] = None /\ home'[s] = None
      /\ \A t \in Sketch : t # s => held'[t] = held[t] /\ home'[t] = home[t]
  BY <1>4 DEF Typed, DestroySketch
<1>6. \A t \in Sketch : t # s /\ held[t] # None => held[t] \notin B
  BY <1>2, <1>4 DEF Distinct
<1>7. HeldSet' = HeldSet \ B
  BY <1>2, <1>5, <1>6 DEF HeldSet
<1>8. \A c : InOrder(queue', live, HeldSet', {}, c)
  BY <1>3, <1>7
<1>9. \A t \in Sketch : home'[t] = None => held'[t] = None
  BY <1>4, <1>5 DEF Typed
<1>10. \A t \in Sketch : held'[t] # None => held'[t] \in written /\ bound'[held'[t]] = home'[t]
  BY <1>3, <1>4, <1>5, <1>6 DEF Kept, Typed
<1>11. \A t, u \in Sketch : held'[t] = held'[u] /\ held'[t] # None => t = u
  BY <1>4, <1>5 DEF Distinct
<1> QED BY <1>1, <1>3, <1>5, <1>8, <1>9, <1>10, <1>11, IdleMoved DEF DestroySketch

LEMMA MoveAssignKeeps ==
  ASSUME Inv, NEW s \in Sketch, NEW o \in Sketch, MoveAssign(s, o)
  PROVE  Inv'
<1>1. PICK x : IInv(x)
  BY DEF Inv
<1>2. PICK B : B = {held[s]} \ {None}
  OBVIOUS
<1>3. /\ queue' \in Queues
      /\ \A c : InOrder(queue', live, HeldSet \ B, {}, c)
      /\ SettlesAfterThrow => WorkOn(queue', {None}) /\ ReadsFilled(queue', written)
      /\ bound' \in [Buffer -> Stream \cup {None}]
      /\ \A b \in Buffer : b \notin B => bound'[b] = bound[b]
  BY <1>1, <1>2, HeldFreed DEF MoveAssign
<1>4. Typed /\ Kept /\ Distinct /\ s # o
  BY <1>1 DEF IInv, MoveAssign
<1>5. /\ held' \in [Sketch -> Buffer \cup {None}] /\ home' \in [Sketch -> Stream \cup {None}]
      /\ held'[o] = None /\ home'[o] = None /\ held'[s] = held[o] /\ home'[s] = home[o]
      /\ \A t \in Sketch : t # s /\ t # o => held'[t] = held[t] /\ home'[t] = home[t]
  BY <1>4 DEF Typed, MoveAssign
<1>6. \A t \in Sketch : t # s /\ held[t] # None => held[t] \notin B
  BY <1>2, <1>4 DEF Distinct
<1>7. HeldSet' = HeldSet \ B
  <2>1. ASSUME NEW b \in HeldSet, b \notin B PROVE b \in HeldSet'
    <3>1. PICK t \in Sketch : b = held[t] /\ b # None
      BY <2>1 DEF HeldSet
    <3>2. t # s
      BY <1>2, <2>1, <3>1
    <3>3. \E u \in Sketch : held'[u] = b
      BY <1>5, <3>1, <3>2
    <3> QED BY <3>1, <3>3 DEF HeldSet
  <2>2. ASSUME NEW b \in HeldSet' PROVE b \in HeldSet /\ b \notin B
    <3>1. PICK t \in Sketch : b = held'[t] /\ b # None
      BY <2>2 DEF HeldSet
    <3>2. t # o
      BY <1>5, <3>1
    <3>3. \E u \in Sketch : u # s /\ b = held[u]
      BY <1>4, <1>5, <3>1, <3>2
    <3> QED BY <1>6, <3>1, <3>3 DEF HeldSet
  <2> QED BY <2>1, <2>2
<1>8. \A c : InOrder(queue', live, HeldSet', {}, c)
  BY <1>3, <1>7
<1>9. \A t \in Sketch : home'[t] = None => held'[t] = None
  BY <1>4, <1>5 DEF Typed
<1>10. ASSUME NEW t \in Sketch, held'[t] # None
       PROVE  held'[t] \in written /\ bound'[held'[t]] = home'[t]
  <2>1. PICK u \in Sketch : u # s /\ held'[t] = held[u] /\ home'[t] = home[u]
    BY <1>4, <1>5, <1>10
  <2>2. held[u] \in Buffer /\ held[u] \notin B
    BY <1>4, <1>6, <1>10, <2>1 DEF Typed
  <2> QED BY <1>3, <1>4, <1>10, <2>1, <2>2 DEF Kept
<1>11. ASSUME NEW t \in Sketch, NEW u \in Sketch, held'[t] = held'[u], held'[t] # None
       PROVE  t = u
  <2>1. t # o /\ u # o
    BY <1>5, <1>11
  <2>2. PICK v \in Sketch : held'[t] = held[v] /\ v = IF t = s THEN o ELSE t
    BY <1>5, <2>1
  <2>3. PICK w \in Sketch : held'[u] = held[w] /\ w = IF u = s THEN o ELSE u
    BY <1>5, <2>1
  <2>4. v = w
    BY <1>4, <1>11, <2>2, <2>3 DEF Distinct
  <2> QED BY <2>1, <2>2, <2>3, <2>4
<1> QED BY <1>1, <1>3, <1>5, <1>8, <1>9, <1>10, <1>11, IdleMoved DEF MoveAssign

(* A buffer is bound to the sketch's stream.                               *)
LEMMA RebindKeeps ==
  ASSUME Inv, call.program # <<>>, NEW i, i = Head(call.program), StepRebind(i), UNCHANGED owed
  PROVE  Inv'
<1>1. PICK x : IInv(x)
  BY DEF Inv
<1>2. PICK s \in Sketch, st \in Stream :
        \E p, sc :
           /\ call = CallRecord(s, st, p, sc) /\ owed = None
           /\ call.sketch = s /\ call.stream = st /\ call.program = p /\ call.scratch = sc
           /\ p # <<>> /\ Earns(p, x, Blank) /\ x \in Account
  BY <1>1, InCall
<1>3. PICK p, sc :
           /\ call = CallRecord(s, st, p, sc) /\ owed = None
           /\ call.sketch = s /\ call.stream = st /\ call.program = p /\ call.scratch = sc
           /\ p # <<>> /\ Earns(p, x, Blank) /\ x \in Account
  BY <1>2
<1>4. i = Head(p) /\ i.op = "rebind" /\ i.op # "either"
  BY <1>3 DEF StepRebind
<1>5. PICK z : Permits(i, x, z) /\ Earns(Tail(p), z, Blank)
  BY <1>3, <1>4, Spent
<1>6. /\ i.name \in x.names /\ x.rebound = {} /\ x.work = "done"
      /\ z.names = x.names /\ z.rebound = {i.name} /\ z.work = "done"
      /\ z.filled \subseteq x.filled
  BY <1>4, <1>5 DEF Permits
<1>7. /\ Typed /\ CallTyped /\ Kept /\ Distinct /\ Fits(x)
      /\ InOrder(queue, live, OwnedSet, Pending(x), st) /\ ReadsSafe(x)
  BY <1>1, <1>3 DEF IInv
<1>8. PICK n \in x.names : n = i.name
  BY <1>6
<1>9. sc \in [x.names -> Buffer] /\ DOMAIN sc = x.names
  BY <1>3, <1>7 DEF Fits
<1>10. /\ call' = CallRecord(s, st, Tail(p), sc)
       /\ call'.sketch = s /\ call'.stream = st /\ call'.program = Tail(p) /\ call'.scratch = sc
  BY <1>3, NextInstruction DEF StepRebind
<1>11. UNCHANGED <<held, home, queue, live, written, owed>> /\ bound' = [bound EXCEPT ![sc[n]] = Target]
  BY <1>3, <1>8 DEF StepRebind, Target
<1>12. Target \in Stream \cup {None}
  BY <1>3, <1>7 DEF Target, Typed
<1>13. /\ bound' \in [Buffer -> Stream \cup {None}] /\ bound'[sc[n]] = Target
       /\ \A b \in Buffer : b # sc[n] => bound'[b] = bound[b]
  BY <1>7, <1>9, <1>11, <1>12 DEF Typed
<1>14. OwnedSet' = OwnedSet /\ Target' = Target /\ Pending(z)' = Pending(x) /\ Working(z)' = Working(x)
  BY <1>3, <1>6, <1>10, <1>11 DEF OwnedSet, HeldSet, ScratchSet, Target, Pending, Working
<1>15. Typed' /\ CallTyped' /\ Distinct'
  BY <1>3, <1>7, <1>10, <1>11, <1>13 DEF Typed, CallTyped, Distinct
<1>16. Kept'
  <2> SUFFICES ASSUME NEW q \in Sketch, held[q] # None
               PROVE  held[q] \in written /\ bound'[held[q]] = home[q]
    BY <1>11 DEF Kept
  <2>1. held[q] # sc[n] /\ held[q] \in Buffer
    BY <1>3, <1>7, <1>9 DEF Distinct, Typed
  <2> QED BY <1>7, <1>13, <2>1 DEF Kept
<1>17. Fits(z)'
  <2>1. call'.scratch \in [z.names -> Buffer] /\ Earns(call'.program, z, Blank)
    BY <1>5, <1>6, <1>9, <1>10
  <2>2. ASSUME NEW m \in z.names
        PROVE  bound'[sc[m]] = IF m \in z.rebound THEN Target ELSE st
    <3>1. CASE m = n
      BY <1>6, <1>8, <1>13, <3>1
    <3>2. CASE m # n
      <4>1. sc[m] # sc[n] /\ sc[m] \in Buffer
        BY <1>3, <1>6, <1>7, <1>9, <3>2 DEF Distinct
      <4>2. bound[sc[m]] = st
        BY <1>3, <1>6, <1>7 DEF Fits
      <4> QED BY <1>6, <1>8, <1>13, <3>2, <4>1, <4>2
    <3> QED BY <3>1, <3>2
  <2>3. /\ \A m \in z.filled \cap Sketch : held[m] # None
        /\ \A m \in z.filled \cap Name : m \in z.names /\ WillBeFilled(queue, written, st, sc[m])
    BY <1>3, <1>6, <1>7 DEF Fits
  <2> QED BY <1>6, <1>10, <1>11, <1>14, <2>1, <2>2, <2>3 DEF Fits
<1>18. ReadsSafe(z)'
  BY <1>7, <1>11, <1>14 DEF ReadsSafe
<1>19. IInv(z)'
  BY <1>7, <1>10, <1>11, <1>14, <1>15, <1>16, <1>17, <1>18 DEF IInv
<1> QED BY <1>19 DEF Inv

(* A buffer with no owner needs no leave to be written.                    *)
LEMMA InOrderShrinks ==
  ASSUME NEW q, NEW lv, NEW O, NEW B, NEW Y, NEW c, InOrder(q, lv, O \ B, Y, c),
         NEW Z, Y \ B \subseteq Z
  PROVE  InOrder(q, lv, O \ B, Z, c)
BY DEF InOrder, TouchOwn

(* An allocation or a launch throws, and the scratch buffers are freed.    *)
LEMMA ThrowKeeps ==
  ASSUME Inv, Throw
  PROVE  Inv'
<1>1. PICK x : IInv(x)
  BY DEF Inv
<1>2. call.program # <<>>
  BY DEF Throw
<1>3. PICK s \in Sketch, st \in Stream :
        \E p, sc :
           /\ call = CallRecord(s, st, p, sc) /\ owed = None
           /\ call.sketch = s /\ call.stream = st /\ call.program = p /\ call.scratch = sc
           /\ p # <<>> /\ Earns(p, x, Blank) /\ x \in Account
  BY <1>1, <1>2, InCall
<1>4. PICK p, sc :
           /\ call = CallRecord(s, st, p, sc) /\ owed = None
           /\ call.sketch = s /\ call.stream = st /\ call.program = p /\ call.scratch = sc
           /\ p # <<>> /\ Earns(p, x, Blank) /\ x \in Account
  BY <1>3
<1>5. PICK i : i = Head(p) /\ i.op \in {"alloc", "run"} /\ i.op # "either"
  BY <1>4 DEF Throw
<1>6. \E z : Permits(i, x, z)
  BY <1>4, <1>5, Spent
<1>7. x.rebound = {}
  BY <1>5, <1>6 DEF Permits
<1>8. /\ Typed /\ CallTyped /\ Kept /\ Distinct /\ Fits(x) /\ queue \in Queues
      /\ InOrder(queue, live, OwnedSet, Pending(x), st) /\ ReadsSafe(x)
  BY <1>1, <1>4 DEF IInv, Typed
<1>9. PICK B : B = ScratchSet
  OBVIOUS
<1>10. /\ B \in SUBSET Buffer /\ B \subseteq OwnedSet
       /\ \A b \in B : bound[b] = st /\ \A q \in Sketch : held[q] # b
  <2>1. ASSUME NEW b \in B
        PROVE  b \in Buffer /\ bound[b] = st /\ \A q \in Sketch : held[q] # b
    <3>1. PICK n \in DOMAIN sc : b = sc[n]
      BY <1>4, <1>9 DEF ScratchSet
    <3>2. n \in x.names /\ sc[n] \in Buffer
      BY <1>4, <1>8, <3>1 DEF Fits
    <3> QED BY <1>4, <1>7, <1>8, <3>1, <3>2 DEF Fits, Distinct
  <2> QED BY <1>9, <2>1 DEF OwnedSet
<1>11. Destroy(B) /\ UNCHANGED <<held, home, live, written>>
       /\ owed' = (IF SettlesAfterThrow THEN st ELSE None) /\ call' = NoCall
  BY <1>4, <1>9 DEF Throw, ScratchSet
<1>12. Frees(queue, queue', B, bound) /\ queue' \in Queues
  BY <1>8, <1>10, <1>11, DestroyFrees DEF Frees
<1>13. /\ bound' \in [Buffer -> Stream \cup {None}]
       /\ \A b \in Buffer : b \notin B => bound'[b] = bound[b]
  BY <1>8, <1>11 DEF Destroy, Typed
<1>14. call'.program = <<>> /\ DOMAIN call'.scratch = {} /\ call'.scratch = <<>>
  BY <1>11, NoCallIs
<1>15. PICK z : z = Blank /\ z \in Account /\ z.names = {} /\ z.filled = {} /\ z.rebound = {} /\ z.work = "done"
  <2>1. /\ Blank \in Account /\ Blank.names = {} /\ Blank.filled = {} /\ Blank.rebound = {}
        /\ Blank.work = "done"
    BY DEF Blank, Account
  <2> QED BY <2>1
<1>16. ScratchSet' = {} /\ OwnedSet' = HeldSet /\ Pending(z)' = {} /\ Working(z)' = {owed'}
  BY <1>11, <1>14, <1>15 DEF OwnedSet, HeldSet, ScratchSet, Pending, Working
<1>17. InOrder(queue', live', OwnedSet', Pending(z)', call'.stream)
  <2>1. Freeable(B, OwnedSet, Pending(x), st, bound)
    BY <1>10 DEF Freeable
  <2>2. InOrder(queue', live, OwnedSet \ B, Pending(x), st)
    BY <1>8, <1>12, <2>1, FreedInOrder
  <2>3. PICK E : E = {} /\ Pending(x) \ B \subseteq E
    BY <1>9 DEF Pending
  <2>4. InOrder(queue', live, OwnedSet \ B, E, st)
    BY <2>2, <2>3, InOrderShrinks
  <2>5. OwnedSet \ B = HeldSet
    BY <1>9, <1>10 DEF OwnedSet, HeldSet
  <2>6. InOrder(queue', live, HeldSet, E, call'.stream)
    BY <2>3, <2>4, <2>5, InOrderGrows
  <2> QED BY <1>11, <1>16, <2>3, <2>6
<1>18. Typed' /\ CallTyped' /\ Kept' /\ Distinct'
  <2>1. owed' \in Stream \cup {None}
    BY <1>11
  <2>2. Typed'
    BY <1>8, <1>11, <1>12, <1>13, <2>1 DEF Typed
  <2>3. \A q \in Sketch : held[q] # None => held[q] \in Buffer /\ held[q] \notin B
    BY <1>8, <1>10 DEF Typed
  <2>4. Kept'
    BY <1>8, <1>11, <1>13, <2>3 DEF Kept
  <2> QED BY <1>8, <1>11, <1>14, <2>2, <2>4 DEF CallTyped, Distinct
<1>19. Fits(z)'
  <2>1. call'.scratch \in [z.names -> Buffer]
    BY <1>14, <1>15
  <2>2. Earns(call'.program, z, Blank)
    BY <1>14, <1>15, EarnsNothing
  <2> QED BY <1>15, <2>1, <2>2 DEF Fits
<1>20. ReadsSafe(z)'
  <2> SUFFICES ASSUME SettlesAfterThrow
               PROVE  WorkOn(queue', {st}) /\ ReadsFilled(queue', written)
    BY <1>11, <1>16 DEF ReadsSafe
  <2>1. WorkOn(queue, Working(x)) /\ ReadsFilled(queue, written)
    BY <1>8 DEF ReadsSafe
  <2>2. PICK W : W = {st}
    OBVIOUS
  <2>3. WorkOn(queue, W)
    BY <1>4, <2>1, <2>2, StreamsAssumption DEF WorkOn, Working
  <2>4. \A o \in W : \A b \in B : bound[b] = o
    BY <1>10, <2>2
  <2> QED BY <1>8, <1>10, <1>12, <2>1, <2>2, <2>3, <2>4, ReadsAfterFree
<1>21. IInv(z)'
  BY <1>17, <1>18, <1>19, <1>20 DEF IInv
<1> QED BY <1>21 DEF Inv

(* A scratch buffer is freed.                                              *)
LEMMA FreeKeeps ==
  ASSUME Inv, call.program # <<>>, NEW i, i = Head(call.program), StepFree(i), UNCHANGED owed
  PROVE  Inv'
<1>1. PICK x : IInv(x)
  BY DEF Inv
<1>2. PICK s \in Sketch, st \in Stream :
        \E p, sc :
           /\ call = CallRecord(s, st, p, sc) /\ owed = None
           /\ call.sketch = s /\ call.stream = st /\ call.program = p /\ call.scratch = sc
           /\ p # <<>> /\ Earns(p, x, Blank) /\ x \in Account
  BY <1>1, InCall
<1>3. PICK p, sc :
           /\ call = CallRecord(s, st, p, sc) /\ owed = None
           /\ call.sketch = s /\ call.stream = st /\ call.program = p /\ call.scratch = sc
           /\ p # <<>> /\ Earns(p, x, Blank) /\ x \in Account
  BY <1>2
<1>4. i = Head(p) /\ i.op = "free" /\ i.op # "either"
  BY <1>3 DEF StepFree
<1>5. PICK z : Permits(i, x, z) /\ Earns(Tail(p), z, Blank)
  BY <1>3, <1>4, Spent
<1>6. PICK n \in x.names :
        /\ n = i.name /\ x.rebound = {} /\ z.rebound = {} /\ z.names = x.names \ {n}
        /\ z.filled \subseteq x.filled \ {n} /\ (x.work = "pending" => z.work = "pending")
  BY <1>4, <1>5 DEF Permits
<1>7. /\ Typed /\ CallTyped /\ Kept /\ Distinct /\ Fits(x) /\ queue \in Queues
      /\ InOrder(queue, live, OwnedSet, Pending(x), st) /\ ReadsSafe(x)
      /\ x.work \in {"pending", "done"}
  BY <1>1, <1>3 DEF IInv, Typed, Account
<1>8. sc \in [x.names -> Buffer] /\ DOMAIN sc = x.names /\ ScratchSet = {sc[m] : m \in x.names}
  BY <1>3, <1>7 DEF Fits, ScratchSet
<1>9. PICK sd : sd = [m \in x.names \ {n} |-> sc[m]]
  OBVIOUS
<1>10. sd \in [z.names -> Buffer] /\ DOMAIN sd = z.names /\ \A m \in z.names : sd[m] = sc[m]
  BY <1>6, <1>8, <1>9
<1>11. call' = CallRecord(s, st, Tail(p), sd)
  BY <1>3, <1>6, <1>8, <1>9 DEF StepFree, Without, CallRecord
<1>12. call'.sketch = s /\ call'.stream = st /\ call'.program = Tail(p) /\ call'.scratch = sd
  BY <1>11 DEF CallRecord
<1>13. PICK B : B = {sc[n]}
  OBVIOUS
<1>14. Destroy(B) /\ UNCHANGED <<held, home, live, written, owed>>
  BY <1>3, <1>6, <1>13 DEF StepFree
<1>15. /\ B \in SUBSET Buffer /\ B \subseteq ScratchSet /\ B \subseteq OwnedSet
       /\ \A b \in B : bound[b] = st
       /\ \A m \in z.names : sc[m] \notin B
       /\ \A q \in Sketch : held[q] \notin B
  <2>1. bound[sc[n]] = st /\ sc[n] \in Buffer /\ sc[n] \in ScratchSet
    BY <1>3, <1>6, <1>7, <1>8 DEF Fits
  <2>2. \A m \in z.names : sc[m] # sc[n]
    BY <1>3, <1>6, <1>7, <1>8 DEF Distinct
  <2>3. \A q \in Sketch : held[q] # sc[n]
    BY <1>3, <1>7, <1>8 DEF Distinct
  <2> QED BY <1>13, <2>1, <2>2, <2>3 DEF OwnedSet
<1>16. Frees(queue, queue', B, bound) /\ queue' \in Queues
  BY <1>7, <1>14, <1>15, DestroyFrees DEF Frees
<1>17. /\ bound' \in [Buffer -> Stream \cup {None}]
       /\ \A b \in Buffer : b \notin B => bound'[b] = bound[b]
  BY <1>7, <1>14 DEF Destroy, Typed
<1>18. ScratchSet' = ScratchSet \ B /\ OwnedSet' = OwnedSet \ B
  <2>1. ScratchSet' = {sc[m] : m \in z.names}
    BY <1>10, <1>12 DEF ScratchSet
  <2>2. ScratchSet' = ScratchSet \ B
    BY <1>6, <1>8, <1>13, <1>15, <2>1
  <2>3. HeldSet' = HeldSet /\ HeldSet \cap B = {}
    BY <1>14, <1>15 DEF HeldSet
  <2> QED BY <2>2, <2>3 DEF OwnedSet
<1>19. InOrder(queue', live', OwnedSet', Pending(z)', call'.stream)
  <2>1. Freeable(B, OwnedSet, Pending(x), st, bound)
    BY <1>15 DEF Freeable
  <2>2. InOrder(queue', live, OwnedSet \ B, Pending(x), st)
    BY <1>7, <1>16, <2>1, FreedInOrder
  <2>3. Pending(x) \ B \subseteq Pending(z)'
    BY <1>6, <1>7, <1>18 DEF Pending
  <2>4. InOrder(queue', live, OwnedSet \ B, Pending(z)', st)
    BY <2>2, <2>3, InOrderShrinks
  <2> QED BY <1>12, <1>14, <1>18, <2>4
<1>20. Typed' /\ CallTyped' /\ Kept' /\ Distinct'
  <2>1. Typed'
    BY <1>7, <1>14, <1>16, <1>17 DEF Typed
  <2>2. Kept'
    BY <1>7, <1>14, <1>15, <1>17 DEF Kept, Typed
  <2>3. Distinct'
    BY <1>3, <1>6, <1>7, <1>8, <1>10, <1>12, <1>14 DEF Distinct
  <2> QED BY <1>3, <1>11, <1>14, <2>1, <2>2, <2>3 DEF CallTyped
<1>21. Fits(z)'
  <2>1. call'.scratch \in [z.names -> Buffer] /\ Earns(call'.program, z, Blank)
    BY <1>5, <1>10, <1>12
  <2>2. \A m \in z.names : bound'[sd[m]] = st
    <3>1. \A m \in z.names : bound[sc[m]] = st /\ sc[m] \in Buffer
      BY <1>3, <1>6, <1>7, <1>8 DEF Fits
    <3> QED BY <1>10, <1>15, <1>17, <3>1
  <2>3. \A m \in z.filled \cap Sketch : held[m] # None
    BY <1>6, <1>7 DEF Fits
  <2>4. ASSUME NEW m \in z.filled \cap Name
        PROVE  m \in z.names /\ WillBeFilled(queue', written, st, sd[m])
    <3>1. m \in z.names /\ WillBeFilled(queue, written, st, sc[m])
      BY <1>3, <1>6, <1>7 DEF Fits
    <3>2. Grown(queue, queue')
      BY <1>7, <1>16, GrowsByReleases
    <3> QED BY <1>10, <3>1, <3>2, GrownFacts
  <2> QED BY <1>6, <1>12, <1>14, <2>1, <2>2, <2>3, <2>4 DEF Fits
<1>22. ReadsSafe(z)'
  <2> SUFFICES ASSUME SettlesAfterThrow
               PROVE  WorkOn(queue', Working(z)') /\ ReadsFilled(queue', written)
    BY <1>14 DEF ReadsSafe
  <2>1. WorkOn(queue, Working(x)) /\ ReadsFilled(queue, written)
    BY <1>7 DEF ReadsSafe
  <2>2. PICK W : W = Working(x) \cap {st}
    OBVIOUS
  <2>3. WorkOn(queue, W)
    BY <1>3, <2>1, <2>2, StreamsAssumption DEF WorkOn, Working
  <2>4. \A o \in W : \A b \in B : bound[b] = o
    BY <1>15, <2>2
  <2>5. ReadsFilled(queue', written) /\ WorkOn(queue', W)
    BY <1>7, <1>15, <1>16, <2>1, <2>3, <2>4, ReadsAfterFree
  <2>6. W \subseteq Working(z)'
    <3>1. st # None
      BY StreamsAssumption
    <3> QED BY <1>3, <1>6, <1>7, <1>12, <2>2, <3>1 DEF Working
  <2> QED BY <2>5, <2>6 DEF WorkOn
<1>23. IInv(z)'
  BY <1>19, <1>20, <1>21, <1>22 DEF IInv
<1> QED BY <1>23 DEF Inv

(* A buffer is allocated.                                                  *)
LEMMA AllocKeeps ==
  ASSUME Inv, call.program # <<>>, NEW i, i = Head(call.program), StepAlloc(i), UNCHANGED owed
  PROVE  Inv'
<1>1. PICK x : IInv(x)
  BY DEF Inv
<1>2. PICK s \in Sketch, st \in Stream :
        \E p, sc :
           /\ call = CallRecord(s, st, p, sc) /\ owed = None
           /\ call.sketch = s /\ call.stream = st /\ call.program = p /\ call.scratch = sc
           /\ p # <<>> /\ Earns(p, x, Blank) /\ x \in Account
  BY <1>1, InCall
<1>3. PICK p, sc :
           /\ call = CallRecord(s, st, p, sc) /\ owed = None
           /\ call.sketch = s /\ call.stream = st /\ call.program = p /\ call.scratch = sc
           /\ p # <<>> /\ Earns(p, x, Blank) /\ x \in Account
  BY <1>2
<1>4. i = Head(p) /\ i.op = "alloc" /\ i.op # "either" /\ Unused(i) # {}
  BY <1>3 DEF StepAlloc
<1>5. PICK z : Permits(i, x, z) /\ Earns(Tail(p), z, Blank)
  BY <1>3, <1>4, Spent
<1>6. PICK n \in Name :
        /\ n = i.name /\ n \notin x.names /\ x.rebound = {} /\ i.filled \in BOOLEAN
        /\ z.names = x.names \cup {n} /\ z.rebound = {}
        /\ z.filled \subseteq x.filled \cup {m \in {n} : i.filled} /\ z.work = "pending"
  BY <1>4, <1>5 DEF Permits
<1>7. /\ Typed /\ CallTyped /\ Kept /\ Distinct /\ Fits(x) /\ queue \in Queues
      /\ InOrder(queue, live, OwnedSet, Pending(x), st) /\ ReadsSafe(x)
  BY <1>1, <1>3 DEF IInv, Typed
<1>8. sc \in [x.names -> Buffer] /\ DOMAIN sc = x.names /\ ScratchSet = {sc[m] : m \in x.names}
  BY <1>3, <1>7 DEF Fits, ScratchSet
<1>9. PICK U : U = Unused(i)
  OBVIOUS
<1>10. U \subseteq Buffer /\ U \cap InUse = {} /\ U \in SUBSET Nat /\ U # {}
  BY <1>4, <1>9, Numbers DEF Unused
<1>11. PICK b : b = CHOOSE a \in U : \A c \in U : a <= c
  OBVIOUS
<1>12. b \in U
  <2>1. \E a \in U : \A c \in U : a <= c
    BY <1>10, LeastNumber
  <2> QED BY <1>11, <2>1
<1>13. b \in Buffer /\ b \notin InUse
  BY <1>10, <1>12
<1>14. /\ b \notin live /\ b \notin OwnedSet
       /\ \A q \in Sketch : held[q] # b
       /\ \A m \in x.names : sc[m] # b
  BY <1>3, <1>8, <1>13 DEF InUse, OwnedSet, HeldSet, ScratchSet
<1>15. ~ MallocQueued(queue, b) /\ ~ ReleaseQueued(queue, b)
  <2>1. ASSUME NEW o \in Stream, NEW k \in Pos(queue, o), queue[o][k].op # "work"
        PROVE  queue[o][k].buffer # b
    <3>1. DOMAIN queue[o] = Pos(queue, o)
      <4>1. queue[o] \in Seq(TaskSet)
        BY <1>7, QueueFacts
      <4> QED BY <4>1, LenProperties DEF Pos
    <3>2. queue[o][k].buffer \in InUse
      <4>1. PICK T : T = {queue[o][j] : j \in {l \in DOMAIN queue[o] : queue[o][l].op # "work"}}
        OBVIOUS
      <4>2. queue[o][k] \in T
        BY <2>1, <3>1, <4>1
      <4>3. queue[o][k].buffer \in {t.buffer : t \in T}
        BY <4>2
      <4> QED BY <4>1, <4>3 DEF InUse
    <3> QED BY <1>13, <3>2
  <2> QED BY <2>1 DEF MallocQueued, ReleaseQueued, Mallocs, Releases
<1>16. PICK t \in TaskSet : t = Malloc(b, i.filled) /\ t.op = "malloc" /\ t.buffer = b /\ t.filled = i.filled
  <2>1. /\ Malloc(b, i.filled) \in TaskSet /\ Malloc(b, i.filled).op = "malloc"
        /\ Malloc(b, i.filled).buffer = b /\ Malloc(b, i.filled).filled = i.filled
    BY <1>6, <1>13 DEF Malloc, TaskSet
  <2> QED BY <2>1
<1>17. /\ queue' = Behind(st, t) /\ bound' = [bound EXCEPT ![b] = st]
       /\ UNCHANGED <<held, home, live, written, owed>>
       /\ call' = [call EXCEPT
            !.program = Tail(@),
            !.scratch = [m \in DOMAIN @ \cup {i.name} |-> IF m = i.name THEN b ELSE @[m]]]
  <2>1. b = CHOOSE a \in Unused(i) : \A c \in Unused(i) : a <= c
    BY <1>9, <1>11
  <2>2. /\ queue' = Behind(call.stream, Malloc(b, i.filled))
        /\ bound' = [bound EXCEPT ![b] = call.stream]
        /\ call' = [call EXCEPT
             !.program = Tail(@),
             !.scratch = [m \in DOMAIN @ \cup {i.name} |-> IF m = i.name THEN b ELSE @[m]]]
    BY <2>1 DEF StepAlloc
  <2>3. UNCHANGED <<held, home, live, written, owed>>
    BY DEF StepAlloc
  <2>4. queue' = Behind(st, t) /\ bound' = [bound EXCEPT ![b] = st]
    BY <1>3, <1>16, <2>2
  <2> QED BY <2>2, <2>3, <2>4
<1>18. PICK sd : sd = [m \in x.names \cup {n} |-> IF m = n THEN b ELSE sc[m]]
  OBVIOUS
<1>19. /\ sd \in [z.names -> Buffer] /\ DOMAIN sd = z.names /\ sd[n] = b
       /\ \A m \in x.names : sd[m] = sc[m]
  BY <1>6, <1>8, <1>13, <1>18
<1>20. call' = CallRecord(s, st, Tail(p), sd)
  BY <1>3, <1>6, <1>8, <1>17, <1>18 DEF CallRecord
<1>21. call'.sketch = s /\ call'.stream = st /\ call'.program = Tail(p) /\ call'.scratch = sd
  BY <1>20 DEF CallRecord
<1>22. Gains(queue, queue', st, t) /\ queue' \in Queues
  BY <1>7, <1>17, BehindQueues DEF Gains
<1>23. Grown(queue, queue') /\ \E k \in Pos(queue', st) : queue'[st][k] = t
  BY <1>7, <1>22, GrowsByOne
<1>24. /\ bound' \in [Buffer -> Stream \cup {None}] /\ bound'[b] = st
       /\ \A a \in Buffer : a # b => bound'[a] = bound[a]
  BY <1>7, <1>13, <1>17 DEF Typed
<1>25. ScratchSet' = ScratchSet \cup {b} /\ OwnedSet' = OwnedSet \cup {b}
  <2>1. ScratchSet' = {sd[m] : m \in z.names}
    BY <1>19, <1>21 DEF ScratchSet
  <2>2. ScratchSet' = ScratchSet \cup {b}
    BY <1>6, <1>8, <1>19, <2>1
  <2>3. HeldSet' = HeldSet
    BY <1>17 DEF HeldSet
  <2> QED BY <2>2, <2>3 DEF OwnedSet
<1>26. InOrder(queue', live', OwnedSet', Pending(z)', call'.stream)
  <2>1. Mallocs(t, b)
    BY <1>16 DEF Mallocs
  <2>2. InOrder(queue', live, OwnedSet \cup {b}, Pending(x) \cup {b}, st)
    BY <1>7, <1>13, <1>14, <1>15, <1>22, <2>1, MallocGained
  <2>3. Pending(x) \cup {b} \subseteq Pending(z)'
    BY <1>6, <1>25 DEF Pending
  <2>4. InOrder(queue', live, OwnedSet \cup {b}, Pending(z)', st)
    BY <2>2, <2>3, InOrderGrows
  <2> QED BY <1>17, <1>21, <1>25, <2>4
<1>27. Typed' /\ CallTyped' /\ Kept' /\ Distinct'
  <2>1. Typed'
    BY <1>7, <1>17, <1>22, <1>24 DEF Typed
  <2>2. Kept'
    BY <1>7, <1>14, <1>17, <1>24 DEF Kept, Typed
  <2>3. \A m, k \in z.names : sd[m] = sd[k] => m = k
    BY <1>3, <1>6, <1>7, <1>8, <1>14, <1>19 DEF Distinct
  <2>4. \A q \in Sketch : \A m \in z.names : held[q] # sd[m]
    BY <1>3, <1>6, <1>7, <1>8, <1>14, <1>19 DEF Distinct
  <2>5. Distinct'
    <3>1. held' = held
      BY <1>17
    <3> QED BY <1>7, <1>19, <1>21, <2>3, <2>4, <3>1 DEF Distinct
  <2>6. CallTyped'
    <3>1. owed' = None
      BY <1>3, <1>17
    <3> QED BY <1>20, <3>1 DEF CallTyped
  <2> QED BY <2>1, <2>2, <2>5, <2>6
<1>28. Fits(z)'
  <2>1. call'.scratch \in [z.names -> Buffer] /\ Earns(call'.program, z, Blank)
    BY <1>5, <1>19, <1>21
  <2>2. \A m \in z.names : bound'[sd[m]] = st
    <3>1. \A m \in x.names : bound[sc[m]] = st /\ sc[m] \in Buffer
      BY <1>3, <1>6, <1>7, <1>8 DEF Fits
    <3> QED BY <1>6, <1>14, <1>19, <1>24, <3>1
  <2>3. \A m \in z.filled \cap Sketch : held[m] # None
    <3>1. \A m \in z.filled \cap Sketch : m \in x.filled
      BY <1>6, StreamsAssumption
    <3> QED BY <1>7, <3>1 DEF Fits
  <2>4. ASSUME NEW m \in z.filled \cap Name
        PROVE  m \in z.names /\ WillBeFilled(queue', written, st, sd[m])
    <3>1. CASE m \in x.filled
      <4>1. m \in x.names /\ WillBeFilled(queue, written, st, sc[m])
        BY <1>3, <1>7, <3>1 DEF Fits
      <4> QED BY <1>6, <1>19, <1>23, <4>1, GrownFacts
    <3>2. CASE m = n /\ i.filled
      <4>1. Fills(t, b)
        BY <1>16, <3>2 DEF Fills, Mallocs
      <4> QED BY <1>6, <1>19, <1>23, <3>2, <4>1 DEF WillBeFilled
    <3> QED BY <1>6, <3>1, <3>2
  <2> QED BY <1>6, <1>17, <1>21, <2>1, <2>2, <2>3, <2>4 DEF Fits
<1>29. ReadsSafe(z)'
  <2> SUFFICES ASSUME SettlesAfterThrow
               PROVE  WorkOn(queue', Working(z)') /\ ReadsFilled(queue', written)
    BY <1>17 DEF ReadsSafe
  <2>1. WorkOn(queue, Working(x)) /\ ReadsFilled(queue, written)
    BY <1>7 DEF ReadsSafe
  <2>2. Working(x) \subseteq Working(z)'
    BY <1>3, <1>6, <1>17, <1>21 DEF Working
  <2>3. WorkOn(queue', Working(z)')
    BY <1>7, <1>16, <1>22, <2>1, <2>2, WorkOnGained
  <2>4. /\ \A a : ~ Releases(t, a)
        /\ \A a \in Buffer : Reads(t, a) => WillBeFilled(queue, written, st, a) /\ ~ ReleaseQueued(queue, a)
    BY <1>16 DEF Releases, Reads
  <2>5. ReadsFilled(queue', written)
    BY <1>7, <1>16, <1>22, <2>1, <2>4, ReadsAfterGain
  <2> QED BY <2>3, <2>5
<1>30. IInv(z)'
  BY <1>26, <1>27, <1>28, <1>29 DEF IInv
<1> QED BY <1>30 DEF Inv

(* The new buffer takes the place of the old one.                          *)
LEMMA CommitKeeps ==
  ASSUME Inv, call.program # <<>>, NEW i, i = Head(call.program), StepCommit(i), UNCHANGED owed
  PROVE  Inv'
<1>1. PICK x : IInv(x)
  BY DEF Inv
<1>2. PICK s \in Sketch, st \in Stream :
        \E p, sc :
           /\ call = CallRecord(s, st, p, sc) /\ owed = None
           /\ call.sketch = s /\ call.stream = st /\ call.program = p /\ call.scratch = sc
           /\ p # <<>> /\ Earns(p, x, Blank) /\ x \in Account
  BY <1>1, InCall
<1>3. PICK p, sc :
           /\ call = CallRecord(s, st, p, sc) /\ owed = None
           /\ call.sketch = s /\ call.stream = st /\ call.program = p /\ call.scratch = sc
           /\ p # <<>> /\ Earns(p, x, Blank) /\ x \in Account
  BY <1>2
<1>4. i = Head(p) /\ i.op = "commit" /\ i.op # "either"
  BY <1>3 DEF StepCommit
<1>5. PICK z : Permits(i, x, z) /\ Earns(Tail(p), z, Blank)
  BY <1>3, <1>4, Spent
<1>6. PICK n :
        /\ n = i.name /\ (n = None \/ n \in x.names \cap x.filled)
        /\ x.rebound = {n} \ {None} /\ x.work = "done" /\ z.rebound = {}
        /\ z.names = x.names \ {n} /\ z.filled \subseteq x.filled \ (Sketch \cup {n})
  BY <1>4, <1>5 DEF Permits
<1>7. /\ Typed /\ CallTyped /\ Kept /\ Distinct /\ Fits(x) /\ queue \in Queues
      /\ InOrder(queue, live, OwnedSet, {}, st) /\ ReadsSafe(x)
      /\ x.names \subseteq Name /\ None \notin x.names /\ None # st
  <2>1. Pending(x) = {}
    BY <1>6 DEF Pending
  <2>2. x.names \subseteq Name /\ None \notin Name /\ None # st
    BY <1>3, StreamsAssumption DEF Account
  <2> QED BY <1>1, <1>3, <2>1, <2>2 DEF IInv, Typed
<1>8. sc \in [x.names -> Buffer] /\ DOMAIN sc = x.names /\ ScratchSet = {sc[m] : m \in x.names}
  BY <1>3, <1>7 DEF Fits, ScratchSet
<1>9. PICK sd : sd = [m \in x.names \ {n} |-> sc[m]]
  OBVIOUS
<1>10. sd \in [z.names -> Buffer] /\ DOMAIN sd = z.names /\ \A m \in z.names : sd[m] = sc[m]
  BY <1>6, <1>8, <1>9
<1>11. call' = CallRecord(s, st, Tail(p), sd)
  BY <1>3, <1>6, <1>8, <1>9 DEF StepCommit, Without, CallRecord
<1>12. call'.sketch = s /\ call'.stream = st /\ call'.program = Tail(p) /\ call'.scratch = sd
  BY <1>11 DEF CallRecord
<1>13. PICK B : B = {held[s]} \ {None}
  OBVIOUS
<1>14. PICK new : new = IF n = None THEN None ELSE sc[n]
  OBVIOUS
<1>15. /\ Destroy(B) /\ UNCHANGED <<live, written, owed>>
       /\ held' = [held EXCEPT ![s] = new]
       /\ home' = [home EXCEPT ![s] = IF @ = None THEN st ELSE @]
  BY <1>3, <1>6, <1>13, <1>14 DEF StepCommit
<1>16. new \in Buffer \cup {None}
  BY <1>6, <1>8, <1>14
<1>17. /\ held' \in [Sketch -> Buffer \cup {None}] /\ home' \in [Sketch -> Stream \cup {None}]
       /\ held'[s] = new /\ home'[s] = Target
       /\ \A q \in Sketch : q # s => held'[q] = held[q] /\ home'[q] = home[q]
  BY <1>3, <1>7, <1>15, <1>16 DEF Typed, Target
<1>18. Target # None /\ Target' = Target
  BY <1>3, <1>7, <1>12, <1>17 DEF Target
<1>19. B \in SUBSET Buffer /\ B \subseteq OwnedSet /\ \A b \in B : bound[b] \in Stream
  BY <1>7, <1>13 DEF Typed, Kept, OwnedSet, HeldSet
<1>20. Frees(queue, queue', B, bound) /\ queue' \in Queues
  BY <1>7, <1>15, <1>19, DestroyFrees DEF Frees
<1>21. /\ bound' \in [Buffer -> Stream \cup {None}]
       /\ \A b \in Buffer : b \notin B => bound'[b] = bound[b]
  BY <1>7, <1>15 DEF Destroy, Typed
<1>22. /\ \A m \in x.names : sc[m] \notin B /\ sc[m] \in Buffer
       /\ \A q \in Sketch : q # s /\ held[q] # None => held[q] \notin B /\ held[q] \in Buffer
  BY <1>3, <1>7, <1>8, <1>13 DEF Distinct, Typed
<1>23. OwnedSet' = OwnedSet \ B
  <2>1. ScratchSet' = {sc[m] : m \in z.names}
    BY <1>10, <1>12 DEF ScratchSet
  <2>2. ASSUME NEW b \in OwnedSet, b \notin B PROVE b \in OwnedSet'
    <3>1. CASE b \in HeldSet
      <4>1. PICK q \in Sketch : b = held[q] /\ b # None
        BY <3>1 DEF HeldSet
      <4>2. q # s
        BY <1>13, <2>2, <4>1
      <4> QED BY <1>17, <4>1, <4>2 DEF OwnedSet, HeldSet
    <3>2. CASE b \in ScratchSet
      <4>1. PICK m \in x.names : b = sc[m]
        BY <1>8, <3>2
      <4>2. CASE m = n
        <5>1. b = held'[s] /\ b # None
          BY <1>7, <1>8, <1>14, <1>17, <4>1, <4>2, StreamsAssumption
        <5> QED BY <5>1 DEF OwnedSet, HeldSet
      <4>3. CASE m # n
        BY <1>6, <2>1, <4>1, <4>3 DEF OwnedSet
      <4> QED BY <4>2, <4>3
    <3> QED BY <3>1, <3>2 DEF OwnedSet
  <2>3. ASSUME NEW b \in OwnedSet' PROVE b \in OwnedSet /\ b \notin B
    <3>1. CASE b \in HeldSet'
      <4>1. PICK q \in Sketch : b = held'[q] /\ b # None
        BY <3>1 DEF HeldSet
      <4>2. CASE q # s
        <5>1. b = held[q] /\ b \notin B
          BY <1>17, <1>22, <4>1, <4>2
        <5> QED BY <4>1, <5>1 DEF OwnedSet, HeldSet
      <4>3. CASE q = s
        <5>1. n \in x.names /\ b = sc[n]
          BY <1>6, <1>14, <1>17, <4>1, <4>3
        <5> QED BY <1>8, <1>22, <5>1 DEF OwnedSet
      <4> QED BY <4>2, <4>3
    <3>2. CASE b \in ScratchSet'
      <4>1. PICK m \in x.names : b = sc[m]
        BY <1>6, <2>1, <3>2
      <4> QED BY <1>8, <1>22, <4>1 DEF OwnedSet
    <3> QED BY <3>1, <3>2 DEF OwnedSet
  <2> QED BY <2>2, <2>3
<1>24. InOrder(queue', live', OwnedSet', Pending(z)', call'.stream)
  <2>1. PICK E : E = {}
    OBVIOUS
  <2>2. Freeable(B, OwnedSet, E, st, bound)
    BY <1>19, <2>1 DEF Freeable
  <2>3. InOrder(queue', live, OwnedSet \ B, E, st)
    BY <1>7, <1>20, <2>1, <2>2, FreedInOrder
  <2>4. InOrder(queue', live, OwnedSet \ B, Pending(z)', st)
    BY <2>1, <2>3, InOrderGrows
  <2> QED BY <1>12, <1>15, <1>23, <2>4
<1>25. ASSUME n \in x.names
       PROVE  sc[n] \in written /\ bound[sc[n]] = Target
  <2>1. bound[sc[n]] = Target
    BY <1>3, <1>6, <1>7, <1>25 DEF Fits
  <2>2. n \in x.filled \cap Name /\ sc[n] \in OwnedSet /\ sc[n] \in Buffer
    BY <1>6, <1>7, <1>8, <1>25 DEF OwnedSet
  <2>3. WillBeFilled(queue, written, st, sc[n])
    BY <1>3, <1>7, <2>2 DEF Fits
  <2>4. \A k \in Pos(queue, st) : ~ Mallocs(queue[st][k], sc[n]) /\ ~ Writes(queue[st][k], sc[n])
    BY <1>7, <2>2 DEF InOrder, TouchOwn
  <2>5. \A k \in Pos(queue, st) : ~ Fills(queue[st][k], sc[n])
    BY <2>4, TaskKinds
  <2>6. sc[n] \in written
    BY <2>3, <2>5 DEF WillBeFilled
  <2> QED BY <2>1, <2>6
<1>26. Typed'
  <2>1. \A q \in Sketch : home'[q] = None => held'[q] = None
    BY <1>7, <1>17, <1>18 DEF Typed
  <2> QED BY <1>7, <1>15, <1>17, <1>20, <1>21, <2>1 DEF Typed
<1>27. Kept'
  <2> SUFFICES ASSUME NEW q \in Sketch, held'[q] # None
               PROVE  held'[q] \in written /\ bound'[held'[q]] = home'[q]
    BY <1>15 DEF Kept
  <2>1. CASE q = s
    <3>1. n \in x.names /\ held'[q] = sc[n]
      BY <1>6, <1>14, <1>17, <2>1
    <3> QED BY <1>17, <1>21, <1>22, <1>25, <2>1, <3>1
  <2>2. CASE q # s
    <3>1. held'[q] = held[q] /\ home'[q] = home[q]
      BY <1>17, <2>2
    <3> QED BY <1>7, <1>21, <1>22, <2>2, <3>1 DEF Kept
  <2> QED BY <2>1, <2>2
<1>28. Distinct'
  <2>1. \A m, k \in z.names : sd[m] = sd[k] => m = k
    BY <1>3, <1>6, <1>7, <1>8, <1>10 DEF Distinct
  <2>2. \A q \in Sketch : \A m \in x.names : held[q] # sc[m]
    BY <1>3, <1>7, <1>8 DEF Distinct
  <2>3. \A m \in z.names : new # sd[m]
    <3>1. \A m \in z.names : m \in x.names /\ m # n /\ sd[m] = sc[m] /\ sd[m] \in Buffer
      BY <1>6, <1>10
    <3>2. \A m, k \in x.names : sc[m] = sc[k] => m = k
      BY <1>3, <1>7, <1>8 DEF Distinct
    <3>3. None \notin Buffer
      BY StreamsAssumption
    <3> QED BY <1>6, <1>14, <3>1, <3>2, <3>3
  <2>4. \A q \in Sketch : \A m \in z.names : held'[q] # sd[m]
    BY <1>6, <1>10, <1>17, <2>2, <2>3
  <2>5. \A q \in Sketch : q # s /\ new # None => held[q] # new
    BY <1>6, <1>14, <2>2
  <2>6. \A q, r \in Sketch : held'[q] = held'[r] /\ held'[q] # None => q = r
    BY <1>7, <1>17, <2>5 DEF Distinct
  <2> QED BY <1>10, <1>12, <2>1, <2>4, <2>6 DEF Distinct
<1>29. CallTyped'
  BY <1>3, <1>11, <1>15 DEF CallTyped
<1>30. Fits(z)'
  <2>1. call'.scratch \in [z.names -> Buffer] /\ Earns(call'.program, z, Blank)
    BY <1>5, <1>10, <1>12
  <2>2. \A m \in z.names : bound'[sd[m]] = st
    <3>1. \A m \in z.names : bound[sc[m]] = st
      BY <1>3, <1>6, <1>7 DEF Fits
    <3> QED BY <1>6, <1>10, <1>21, <1>22, <3>1
  <2>3. \A m \in z.filled : m \notin Sketch
    BY <1>6
  <2>4. ASSUME NEW m \in z.filled \cap Name
        PROVE  m \in z.names /\ WillBeFilled(queue', written, st, sd[m])
    <3>1. m \in z.names /\ WillBeFilled(queue, written, st, sc[m])
      BY <1>3, <1>6, <1>7 DEF Fits
    <3>2. Grown(queue, queue')
      BY <1>7, <1>20, GrowsByReleases
    <3> QED BY <1>10, <3>1, <3>2, GrownFacts
  <2> QED BY <1>6, <1>12, <1>15, <2>1, <2>2, <2>3, <2>4 DEF Fits
<1>31. ReadsSafe(z)'
  <2> SUFFICES ASSUME SettlesAfterThrow
               PROVE  WorkOn(queue', Working(z)') /\ ReadsFilled(queue', written)
    BY <1>15 DEF ReadsSafe
  <2>1. WorkOn(queue, Working(x)) /\ ReadsFilled(queue, written)
    BY <1>7 DEF ReadsSafe
  <2>2. PICK W : W = {}
    OBVIOUS
  <2>3. WorkOn(queue, W)
    <3>1. \A o \in Stream : o \notin Working(x)
      BY <1>3, <1>6, StreamsAssumption DEF Working
    <3> QED BY <2>1, <3>1 DEF WorkOn
  <2>4. \A o \in W : \A b \in B : bound[b] = o
    BY <2>2
  <2>5. ReadsFilled(queue', written) /\ WorkOn(queue', W)
    BY <1>7, <1>19, <1>20, <2>1, <2>3, <2>4, ReadsAfterFree
  <2> QED BY <2>2, <2>5 DEF WorkOn
<1>32. IInv(z)'
  BY <1>24, <1>26, <1>27, <1>28, <1>29, <1>30, <1>31 DEF IInv
<1> QED BY <1>32 DEF Inv

-----------------------------------------------------------------------------
(* The theorems.                                                           *)

LEMMA InvNext ==
  ASSUME Inv, [Next]_vars
  PROVE  Inv'
<1>1. CASE Step
  <2>1. PICK i : i = Head(call.program)
    OBVIOUS
  <2>2. /\ call.program # <<>> /\ UNCHANGED owed
        /\ \/ StepAlloc(i) \/ StepRun(i) \/ StepSync(i)
           \/ StepFree(i) \/ StepRebind(i) \/ StepCommit(i) \/ StepEither(i)
    BY <1>1, <2>1 DEF Step
  <2>3. CASE StepAlloc(i)
    BY <2>1, <2>2, <2>3, AllocKeeps
  <2>4. CASE StepRun(i)
    BY <2>1, <2>2, <2>4, RunKeeps
  <2>5. CASE StepSync(i)
    BY <2>1, <2>2, <2>5, SyncKeeps
  <2>6. CASE StepFree(i)
    BY <2>1, <2>2, <2>6, FreeKeeps
  <2>7. CASE StepRebind(i)
    BY <2>1, <2>2, <2>7, RebindKeeps
  <2>8. CASE StepCommit(i)
    BY <2>1, <2>2, <2>8, CommitKeeps
  <2>9. CASE StepEither(i)
    BY <2>1, <2>2, <2>9, EitherKeeps
  <2> QED BY <2>2, <2>3, <2>4, <2>5, <2>6, <2>7, <2>8, <2>9
<1>2. CASE Return
  BY <1>2, ReturnKeeps
<1>3. CASE Throw
  BY <1>3, ThrowKeeps
<1>4. CASE Client
  <2>1. CASE Settle
    BY <2>1, SettleKeeps
  <2>2. ASSUME NEW s \in Sketch, DestroySketch(s) PROVE Inv'
    BY <2>2, DestroySketchKeeps
  <2>3. ASSUME NEW s \in Sketch, NEW o \in Sketch, MoveAssign(s, o) PROVE Inv'
    BY <2>3, MoveAssignKeeps
  <2>4. ASSUME NEW s \in Sketch, NEW st \in Stream, Construct(s, st) PROVE Inv'
    BY <2>4, ConstructKeeps
  <2>5. ASSUME NEW s \in Sketch, NEW st \in Stream, Calls(s, st) PROVE Inv'
    BY <2>5, CallsKeep
  <2> QED BY <1>4, <2>1, <2>2, <2>3, <2>4, <2>5 DEF Client
<1>5. ASSUME NEW st \in Stream, Execute(st) PROVE Inv'
  BY <1>5, ExecuteKeeps
<1>6. CASE UNCHANGED vars
  <2>1. PICK x : IInv(x)
    BY DEF Inv
  <2>2. IInv(x)'
    <3>1. /\ held' = held /\ home' = home /\ queue' = queue /\ live' = live /\ written' = written
          /\ bound' = bound /\ call' = call /\ owed' = owed
      BY <1>6 DEF vars
    <3> QED BY <2>1, <3>1 DEF IInv, Typed, CallTyped, Kept, Distinct, Fits, Target, OwnedSet,
                              HeldSet, ScratchSet, Pending, Working, ReadsSafe
  <2> QED BY <2>2 DEF Inv
<1> QED BY <1>1, <1>2, <1>3, <1>4, <1>5, <1>6 DEF Next

LEMMA InvAlways == Spec => []Inv
<1>1. Init => Inv
  BY InvInit
<1>2. Inv /\ [Next]_vars => Inv'
  BY InvNext
<1> QED BY <1>1, <1>2, PTL DEF Spec

(* The state is always of the right shape: what is written is allocated,   *)
(* and there is no buffer without a sketch.                                *)
THEOREM TypeCorrect == Spec => []TypeOK
<1>1. Inv => TypeOK
  BY InvSafe
<1> QED BY <1>1, InvAlways, PTL

(* The stream that the buffer of a sketch will be freed on is the sketch's *)
(* own: install rebinds it before it stores it, and the move of a sketch   *)
(* takes the stream along.                                                 *)
THEOREM FreesOnOwnStream == Spec => []FreedOnOwnStream
<1>1. Inv => FreedOnOwnStream
  BY InvSafe
<1> QED BY <1>1, InvAlways, PTL

(* Between calls, once the streams have done what was queued, the memory   *)
(* that is allocated is exactly what the sketches hold, whichever          *)
(* allocations and launches threw before, and whether or not the client    *)
(* synchronized after that.                                                *)
THEOREM LeavesNoMemory == Spec => []NoLeak
<1>1. Inv => NoLeak
  BY InvSafe
<1> QED BY <1>1, InvAlways, PTL

(* With a client that synchronizes after an exception, no interleaving of  *)
(* the streams touches memory before it is allocated or after it is freed, *)
(* reads what nothing wrote, or frees a buffer twice.                      *)
THEOREM AccessesValid ==
  ASSUME SettlesAfterThrow
  PROVE  Spec => []NoInvalidAccess
<1>1. Inv => NoInvalidAccess
  BY InvSafe
<1> QED BY <1>1, InvAlways, PTL

(* With the same client no kernel or copy of a call is queued once the     *)
(* call returned: each of them synchronizes behind the last.               *)
THEOREM CallsComplete ==
  ASSUME SettlesAfterThrow
  PROVE  Spec => []CompletesBeforeReturning
<1>1. Inv => CompletesBeforeReturning
  BY InvSafe
<1> QED BY <1>1, InvAlways, PTL
=============================================================================
