------------------------------ MODULE HllSketch ------------------------------
(***************************************************************************)
(* HLL sketches in device memory, used from several CUDA streams.          *)
(*                                                                         *)
(* A stream is a queue of tasks that the device executes in order; tasks   *)
(* of different streams interleave, register by register.  Registers are   *)
(* raised with an atomic maximum by cuco's kernels.  Every stream has a    *)
(* host thread; a call that synchronizes waits for its stream to drain.    *)
(*                                                                         *)
(* The client keeps the documented contract: a sketch is used on another   *)
(* stream only after its initialization, and destroyed when no other       *)
(* stream than its own has work on it.                                     *)
(***************************************************************************)
EXTENDS HllImage

CONSTANTS
  Streams, Sketches,
  Batches,   \* sets of keys that are added
  Earlier,   \* sets of keys that sketches were given before
  None,      \* no call, no answer
  MaxCalls   \* bound on the number of calls

\* is_empty, the estimates and the bounds; serialize_compact; serialize_updatable.
Kinds == {"query", "compact", "updatable"}

\* What a host thread may be blocked in.
Waits == [op : {"sync", "deserialize"}, uses : SUBSET Sketches]
Snapshots ==
  [op : {"snapshot"}, uses : SUBSET Sketches, sketch : Sketches, kind : Kinds,
   must : UNION {Arrays(l) : l \in LgKs}]

ASSUME SketchAssumption ==
  /\ Batches \cup Earlier \subseteq SUBSET Keys
  /\ MaxCalls \in Nat
  /\ IsFiniteSet(Sketches)
  /\ LgKs # {}
  /\ None \notin Waits \cup Snapshots

VARIABLES
  live,      \* sketches the client holds
  lgk,       \* lg_config_k_
  home,      \* the stream a sketch was constructed on
  regs,      \* the register array of each sketch
  queue,     \* the tasks of each stream
  buf,       \* the host buffer of the snapshot on each stream
  call,      \* the blocking call of each host thread
  answer,    \* what the last snapshot said
  calls,     \* number of calls so far, bounded by MaxCalls
  promised,  \* history: what the client knows to be in each sketch
  pending,   \* history: what a stream will have added since its last sync
  may        \* history: what a sketch can hold at most

device == <<regs, queue, buf>>
history == <<promised, pending, may>>
vars == <<live, lgk, home, regs, queue, buf, call, answer, calls, promised, pending, may>>

-----------------------------------------------------------------------------
(* Tasks consist of pieces <<register, value>>; a merge reads the value     *)
(* from the other sketch before it writes it.                              *)

Unread == -1

Task(op, to, from, left) == [op |-> op, to |-> to, from |-> from, left |-> left]

Clear(s, lgK) == Task("clear", s, s, {<<i, 0>> : i \in Slots(lgK)})
Add(s, coupons) == Task("add", s, s, coupons)
MergeFrom(s, other) == Task("merge", s, other, {<<i, Unread>> : i \in Slots(lgk[s])})
CopyOut(s) == Task("copy", s, s, {<<i, Unread>> : i \in Slots(lgk[s])})
Load(s, a) == Task("load", s, s, {<<i, a[i]>> : i \in DOMAIN a})
Free(s) == Task("free", s, s, {})

Tasks(st) == {queue[st][n] : n \in DOMAIN queue[st]}

Names(t, s) == t.to = s \/ t.from = s

\* No task, call or handle refers to the name s.
Unused(s) ==
  /\ s \notin live
  /\ \A st \in Streams :
       /\ call[st] # None => s \notin call[st].uses
       /\ \A t \in Tasks(st) : ~Names(t, s)

\* The client may use s on st: its initialization is ordered before.
Usable(st, s) ==
  /\ s \in live
  /\ \A other \in Streams \ {st} : \A t \in Tasks(other) : t.op = "clear" => t.to # s

\* Sketches that merges under way may still bring the contents of s to.
Fed(s) ==
  LET Closed(C) ==
        \A st \in Streams : \A t \in Tasks(st) :
          t.op = "merge" /\ t.from \in C => t.to \in C
  IN  {x \in Sketches : \A C \in SUBSET Sketches : s \in C /\ Closed(C) => x \in C}

\* Faulty variant: the last write wins.
Overwritten(old, new) == new

\* Atomic maximum.
Raised(old, new) == Larger(old, new)

-----------------------------------------------------------------------------
(* Calls.                                                                  *)

Calling(st) == call[st] = None /\ calls < MaxCalls /\ calls' = calls + 1

Enqueue(st, tasks) == queue' = [queue EXCEPT ![st] = @ \o tasks]

Waiting(op, uses) == [op |-> op, uses |-> uses]

\* update and merge synchronize, update_async and merge_async do not.
Wait(st, sync, uses) ==
  call' = IF sync THEN [call EXCEPT ![st] = Waiting("sync", uses)] ELSE call

\* Uninitialized device memory.
Garbage(lgK) == {[i \in Slots(lgK) |-> v] : v \in {0, MaxRho}}

\* A new sketch, not yet initialized, that is about to hold the array a.
Allocate(st, s, lgK, a) ==
  /\ \E g \in Garbage(lgK) : regs' = [regs EXCEPT ![s] = g]
  /\ lgk' = [lgk EXCEPT ![s] = lgK]
  /\ home' = [home EXCEPT ![s] = st]
  /\ promised' = [promised EXCEPT ![s] = a]
  /\ may' = [may EXCEPT ![s] = a]
  /\ pending' = [o \in Streams |-> [pending[o] EXCEPT ![s] = Zeros(lgK)]]

Construct(st, s, lgK) ==
  /\ Calling(st) /\ Unused(s)
  /\ Allocate(st, s, lgK, Zeros(lgK))
  /\ Enqueue(st, <<Clear(s, lgK)>>)
  /\ live' = live \cup {s}
  /\ UNCHANGED <<buf, call, answer>>

Destroy(s) ==
  /\ calls < MaxCalls /\ calls' = calls + 1
  /\ s \in live
  /\ \A st \in Streams :
       /\ call[st] # None => s \notin call[st].uses
       /\ st # home[s] => \A t \in Tasks(st) : ~Names(t, s)
  /\ Enqueue(home[s], <<Free(s)>>)
  /\ live' = live \ {s}
  /\ UNCHANGED <<lgk, home, regs, buf, call, answer, history>>

\* What the stream is asked to add to s, and everything fed by it, at most.
Promise(st, s, least, most) ==
  /\ pending' = [pending EXCEPT ![st][s] = Join(@, least)]
  /\ may' = [x \in Sketches |-> IF x \in Fed(s) THEN Join(may[x], most) ELSE may[x]]
  /\ UNCHANGED promised

Update(st, s, batch, sync) ==
  /\ Calling(st) /\ Usable(st, s)
  /\ Enqueue(st, <<Add(s, Coupons(batch, lgk[s]))>>)
  /\ Wait(st, sync, {s})
  /\ LET a == ArrayOf(batch, lgk[s]) IN Promise(st, s, a, a)
  /\ UNCHANGED <<live, lgk, home, regs, buf, answer>>

\* The other sketch has, at least, what it is known to have when the call is
\* made.  cuco refuses sketches of different precision.
Merge(st, s, other, sync) ==
  /\ Calling(st) /\ Usable(st, s) /\ Usable(st, other)
  /\ lgk[s] = lgk[other]
  /\ Enqueue(st, <<MergeFrom(s, other)>>)
  /\ Wait(st, sync, {s, other})
  /\ Promise(st, s, Join(promised[other], pending[st][other]), may[other])
  /\ UNCHANGED <<live, lgk, home, regs, buf, answer>>

\* snapshot_, for is_empty, the estimates and bounds, and the two images.
Snapshot(st, s, kind) ==
  /\ Calling(st) /\ Usable(st, s)
  /\ buf' = [buf EXCEPT ![st] = Zeros(lgk[s])]
  /\ Enqueue(st, <<CopyOut(s)>>)
  /\ call' = [call EXCEPT ![st] =
       [op |-> "snapshot", uses |-> {s}, sketch |-> s, kind |-> kind,
        must |-> Join(promised[s], pending[st][s])]]
  /\ UNCHANGED <<live, lgk, home, regs, answer, history>>

\* deserialize of an image with a valid header: a sketch is constructed, and
\* loaded or, if a register is out of range, destroyed by the exception.
Deserialize(st, s, image) ==
  /\ Calling(st) /\ Unused(s)
  /\ HeaderValid(image)
  /\ IF RegistersValid(image)
       THEN /\ Allocate(st, s, image.lgK, RegistersOf(image))
            /\ Enqueue(st, <<Clear(s, image.lgK), Load(s, RegistersOf(image))>>)
            /\ call' = [call EXCEPT ![st] = Waiting("deserialize", {s})]
       ELSE /\ Allocate(st, s, image.lgK, Zeros(image.lgK))
            /\ Enqueue(st, <<Clear(s, image.lgK), Free(s)>>)
            /\ UNCHANGED call
  /\ UNCHANGED <<live, buf, answer>>

-----------------------------------------------------------------------------
(* The device.                                                             *)

AtHead(st, op) == queue[st] # <<>> /\ Head(queue[st]).op = op

\* Piece p of the task under way is finished.
Finish(st, p) == queue' = [queue EXCEPT ![st][1].left = @ \ {p}]

Raise(st, p) ==
  /\ AtHead(st, "add") \/ AtHead(st, "merge")
  /\ p[2] # Unread
  /\ LET s == Head(queue[st]).to
     IN  regs' = [regs EXCEPT ![s][p[1]] = Raised(@, p[2])]
  /\ Finish(st, p)
  /\ UNCHANGED buf

ReadOther(st, p) ==
  /\ AtHead(st, "merge") /\ p[2] = Unread
  /\ LET v == regs[Head(queue[st]).from][p[1]]
     IN  queue' = [queue EXCEPT ![st][1].left = (@ \ {p}) \cup {<<p[1], v>>}]
  /\ UNCHANGED <<regs, buf>>

Store(st, p) ==
  /\ AtHead(st, "clear") \/ AtHead(st, "load")
  /\ regs' = [regs EXCEPT ![Head(queue[st]).to][p[1]] = p[2]]
  /\ Finish(st, p)
  /\ UNCHANGED buf

Copy(st, p) ==
  /\ AtHead(st, "copy")
  /\ buf' = [buf EXCEPT ![st][p[1]] = regs[Head(queue[st]).to][p[1]]]
  /\ Finish(st, p)
  /\ UNCHANGED regs

\* The next task may start when every piece of this one is finished.
Retire(st) ==
  /\ queue[st] # <<>> /\ Head(queue[st]).left = {}
  /\ queue' = [queue EXCEPT ![st] = Tail(@)]
  /\ UNCHANGED <<regs, buf>>

Work(st) ==
  /\ \/ /\ queue[st] # <<>>
        /\ \E p \in Head(queue[st]).left :
             Raise(st, p) \/ ReadOther(st, p) \/ Store(st, p) \/ Copy(st, p)
     \/ Retire(st)
  /\ UNCHANGED <<live, lgk, home, call, answer, calls, history>>

-----------------------------------------------------------------------------
(* Returns.                                                                *)

Nothing == [x \in Sketches |-> Zeros(lgk[x])]

\* What the thread of st knows once its stream is drained, with what it saw.
Learn(st, seen) ==
  /\ promised' = [x \in Sketches |-> Join(Join(promised[x], pending[st][x]), seen[x])]
  /\ pending' = [pending EXCEPT ![st] = Nothing]
  /\ UNCHANGED may

\* Faulty variant: the stream is not synchronized.
Undrained(st) == TRUE

Drained(st) == queue[st] = <<>>

\* Faulty variant: the reduction is made from a second copy.
ReductionOfSecondCopy(copied, current) == reduce_hll8(current)

\* The reduction is made from the copy.
ReductionOf(copied, current) == reduce_hll8(copied)

ReturnSnapshot(st) ==
  /\ call[st] # None /\ call[st].op = "snapshot"
  /\ Drained(st)
  /\ LET c == call[st]
         r == ReductionOf(buf[st], regs[c.sketch])
     IN  /\ answer' = [kind |-> c.kind, registers |-> buf[st],
                       is_empty |-> NothingSeen(r, lgk[c.sketch]),
                       image |-> Serialized(lgk[c.sketch], c.kind = "compact", buf[st], r),
                       must |-> c.must, may |-> may[c.sketch]]
         /\ Learn(st, [Nothing EXCEPT ![c.sketch] = buf[st]])
  /\ call' = [call EXCEPT ![st] = None]
  /\ UNCHANGED <<live, lgk, home, regs, queue, buf, calls>>

\* The client holds a deserialized sketch from here on.
Return(st) ==
  /\ call[st] # None /\ call[st].op # "snapshot"
  /\ Drained(st)
  /\ live' = IF call[st].op = "deserialize" THEN live \cup call[st].uses ELSE live
  /\ Learn(st, Nothing)
  /\ call' = [call EXCEPT ![st] = None]
  /\ UNCHANGED <<lgk, home, regs, queue, buf, answer, calls>>

\* The client synchronizes a stream itself.
Synchronize(st) ==
  /\ call[st] = None /\ Drained(st)
  /\ Learn(st, Nothing)
  /\ UNCHANGED <<live, lgk, home, device, call, answer, calls>>

-----------------------------------------------------------------------------

OwnImages == IF answer = None \/ answer.kind = "query" THEN {} ELSE {answer.image}

\* Some sketches were constructed, on any streams, given keys, and synchronized.
Init ==
  LET lgK == CHOOSE l \in LgKs : TRUE
  IN  /\ live \in SUBSET Sketches
      /\ lgk = [s \in Sketches |-> lgK]
      /\ home \in [Sketches -> Streams]
      /\ \E earlier \in Earlier :
           regs = [s \in Sketches |-> ArrayOf(IF s \in live THEN earlier ELSE {}, lgK)]
      /\ queue = [st \in Streams |-> <<>>]
      /\ buf = [st \in Streams |-> Zeros(lgK)]
      /\ call = [st \in Streams |-> None]
      /\ answer = None
      /\ calls = 0
      /\ promised = regs
      /\ pending = [st \in Streams |-> [s \in Sketches |-> Zeros(lgK)]]
      /\ may = regs

Client(st) ==
  \/ \E s \in Sketches, lgK \in LgKs : Construct(st, s, lgK)
  \/ \E s \in Sketches, batch \in Batches, sync \in BOOLEAN : Update(st, s, batch, sync)
  \/ \E s, other \in Sketches, sync \in BOOLEAN : Merge(st, s, other, sync)
  \/ \E s \in Sketches, kind \in Kinds : Snapshot(st, s, kind)
  \/ \E s \in Sketches, image \in Foreign \cup OwnImages : Deserialize(st, s, image)
  \/ Synchronize(st)

Next ==
  \/ \E st \in Streams : Client(st) \/ Work(st) \/ ReturnSnapshot(st) \/ Return(st)
  \/ \E s \in Sketches : Destroy(s)

Spec == Init /\ [][Next]_vars

-----------------------------------------------------------------------------
(* Properties.                                                             *)

TypeOK ==
  /\ live \subseteq Sketches
  /\ lgk \in [Sketches -> LgKs]
  /\ home \in [Sketches -> Streams]
  /\ calls \in 0 .. MaxCalls
  /\ \A s \in Sketches : {regs[s], promised[s], may[s]} \subseteq Arrays(lgk[s])
  /\ \A st \in Streams :
       /\ \A s \in Sketches : pending[st][s] \in Arrays(lgk[s])
       /\ \A t \in Tasks(st) : \A p \in t.left :
            p[1] \in Slots(lgk[t.to]) /\ p[2] \in Unread .. MaxRho

\* An answer covers everything the client knew to be in the sketch when it
\* asked: keys it synchronized on any stream or queued before on this one, what
\* merges brought, and what any earlier answer or an image showed.  It shows
\* nothing that was never given to the sketch (sketch_impl.hpp 108-124).
AnswersCover ==
  answer # None => Leq(answer.must, answer.registers) /\ Leq(answer.registers, answer.may)

\* Whatever other streams do while the registers are copied, an image's zero
\* count, harmonic sums and empty flag describe the registers in it
\* (sketch_impl.hpp 131-160).  num_at_cur_min is the number of zeros even if
\* there are none, since cur_min is always 0: so the code (reduction_state.hpp 88
\* and 95) and lines 59-68 of the same file; lines 47-51 say otherwise.
ImageConsistent == answer # None => Consistent(answer.image)

\* is_empty is not true of a sketch that the client knows a key is in, nor false
\* of one that none was given to (sketch_impl.hpp 264-268, policy.cuh 107-123).
EmptyMeansEmpty ==
  answer # None =>
    /\ answer.is_empty => \A i \in DOMAIN answer.must : answer.must[i] = 0
    /\ ~answer.is_empty => \E i \in DOMAIN answer.may : answer.may[i] # 0

\* When the device is idle, a sketch holds the maximum of everything asked of it
\* on all streams, whatever the order was, and no more than that.
Converges ==
  (\A st \in Streams : Drained(st)) =>
    \A s \in live :
      /\ Leq(promised[s], regs[s])
      /\ \A st \in Streams : Leq(pending[st][s], regs[s])
      /\ Leq(regs[s], may[s])

\* Once it is initialized, no register of a sketch ever falls, however many
\* streams raise it (reduction_state.hpp 38-40).
Initialized(s) ==
  s \in live /\ \A st \in Streams : \A t \in Tasks(st) : t.op = "clear" => t.to # s

RegistersOnlyRise ==
  [][\A s \in Sketches : Initialized(s) /\ s \in live' => Leq(regs[s], regs'[s])]_vars
=============================================================================
