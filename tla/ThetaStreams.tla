---------------------------- MODULE ThetaStreams ----------------------------
(***************************************************************************)
(* The device memory of Theta sketches.  Buffers are allocated and freed   *)
(* by operations queued on streams, so a buffer can be freed while work    *)
(* that uses it still waits in another stream's queue.  The code has three *)
(* means against that: scratch is freed on the stream that uses it, a call *)
(* synchronizes its stream before it replaces hashes_, and the new buffer  *)
(* is rebound to the sketch's own stream only then.                        *)
(*                                                                         *)
(* A call is a program of host steps, taken from sketch_impl.hpp function  *)
(* by function; each allocation and each launch may throw, and unwinding   *)
(* destroys the scratch buffers.  What is in a buffer is left out but for  *)
(* whether it was written.  Whatever depends on the data (sizes, overflow) *)
(* is a choice of program.  A buffer of no elements is None.               *)
(***************************************************************************)
EXTENDS Integers, Sequences, FiniteSets

CONSTANTS
  Stream, Sketch,
  MaxHashBuffers,    \* how many hash buffers and count buffers there can be
  MaxCountBuffers,   \* at once
  None,
  SettlesAfterThrow  \* a client that caught an exception synchronizes the
                     \* stream of the call before it does anything else

HashBuffer  == 1 .. MaxHashBuffers
CountBuffer == MaxHashBuffers + 1 .. MaxHashBuffers + MaxCountBuffers
Buffer      == HashBuffer \cup CountBuffer

\* The local variables that own scratch buffers.
Name == {"screened", "survivors", "alternate", "incoming", "distinct", "merged",
         "combined", "output", "selected", "next", "image"}

ASSUME StreamsAssumption ==
  /\ MaxHashBuffers \in Nat /\ MaxCountBuffers \in Nat
  /\ None \notin Stream \cup Sketch /\ None \notin Name /\ None \notin Buffer
  /\ Sketch \cap Name = {}
  /\ SettlesAfterThrow \in BOOLEAN

VARIABLES
  held,     \* held[s]: the buffer of hashes_
  home,     \* home[s]: allocation_stream_, None if there is no sketch s
  queue,    \* queue[st]: what the stream has still to do
  live,     \* buffers whose memory is allocated at this point of device time
  written,  \* those of them that hold data
  bound,    \* bound[b]: the stream that b is to be freed on
  call,     \* the call in progress: its sketch, its stream, what is left of
            \* its program, and its scratch buffers by name
  owed      \* the stream a client has still to synchronize, or None

vars == <<held, home, queue, live, written, bound, call, owed>>

-----------------------------------------------------------------------------
(* Host steps and what they queue.                                         *)

Alloc(n) == [op |-> "alloc", name |-> n, counter |-> FALSE, filled |-> FALSE]
Run(reads, writes) == [op |-> "run", reads |-> reads, writes |-> writes]
Sync               == [op |-> "sync"]
Free(n)            == [op |-> "free", name |-> n]    \* the end of n's scope
Rebind(n)          == [op |-> "rebind", name |-> n]
Commit(n)          == [op |-> "commit", name |-> n]  \* hashes_ = std::move(n)
Either(programs)   == [op |-> "either", programs |-> programs]

Work(reads, writes) == [op |-> "work", reads |-> reads, writes |-> writes]
Malloc(b, filled)   == [op |-> "malloc", buffer |-> b, filled |-> filled]
Release(b)          == [op |-> "release", buffer |-> b]

MakeCountBuffer(n) ==
  [op |-> "alloc", name |-> n, counter |-> TRUE, filled |-> TRUE]

\* read_count
ReadCount(count) == <<Run({count}, {}), Sync>>

\* Faulty variant: the counter is a raw allocation that nobody frees.
CompactLeaking(inputs, output, count) ==
  <<Alloc(output), MakeCountBuffer(count), Run(inputs, {output, count})>>
    \o ReadCount(count)

\* select and unique_sorted: the algorithm's own temporary storage, queued
\* around it on the same stream, is left out.
Compact(inputs, output, count) ==
  <<Alloc(output), MakeCountBuffer(count), Run(inputs, {output, count})>>
    \o ReadCount(count) \o <<Free(count)>>

\* screen: the kernel adds to the counter.
ScreenKeys ==
  <<Alloc("screened"), MakeCountBuffer("survivors"),
    Run({"survivors"}, {"screened", "survivors"})>>
    \o ReadCount("survivors") \o <<Free("survivors")>>

\* sort_unique, which takes the screened buffer over.
SortUnique ==
  <<Alloc("alternate"), Run({"screened"}, {"screened", "alternate"})>>
    \o Compact({"alternate"}, "incoming", "distinct")
    \o <<Free("alternate"), Free("screened")>>

\* merge_unique of two buffers, or the copy of the only one there is.
MergeUnique(first, second) ==
  <<Alloc("merged"), Run({first, second}, {"merged"})>>
    \o Compact({"merged"}, "combined", "distinct") \o <<Free("merged")>>

CopyOnly(only) == <<Alloc("combined"), Run({only}, {"combined"})>>

\* Faulty variant: no synchronization when theta need not be read.
InstallUnsynced(n) ==
  LET Copy == <<Alloc("next"), Run({n}, {"next"})>>
      Put  == <<Rebind("next"), Commit("next"), Free(n)>>
  IN  <<Either({<<Commit(None), Free(n)>>,
                <<Rebind(n), Commit(n)>>,
                Copy \o Put,
                Copy \o <<Run({n}, {}), Sync>> \o Put})>>

\* Faulty variant: the new buffer is rebound as soon as it is there.
InstallReboundEarly(n) ==
  LET Copy == <<Alloc("next"), Rebind("next"), Run({n}, {"next"})>>
      Put  == <<Sync, Commit("next"), Free(n)>>
  IN  <<Either({<<Sync, Commit(None), Free(n)>>,
                <<Sync, Rebind(n), Commit(n)>>,
                Copy \o Put,
                Copy \o <<Run({n}, {})>> \o Put})>>

\* Faulty variant: the new buffer stays bound to the stream of the call.
InstallUnbound(n) ==
  LET Copy == <<Alloc("next"), Run({n}, {"next"})>>
      Put  == <<Sync, Commit("next"), Free(n)>>
  IN  <<Either({<<Sync, Commit(None), Free(n)>>,
                <<Sync, Commit(n)>>,
                Copy \o Put,
                Copy \o <<Run({n}, {})>> \o Put})>>

\* install: nothing to keep; the buffer itself; a copy of its beginning; and
\* a copy while the next hash is read as theta.
Install(n) ==
  LET Copy == <<Alloc("next"), Run({n}, {"next"})>>
      Put  == <<Sync, Rebind("next"), Commit("next"), Free(n)>>
  IN  <<Either({<<Sync, Commit(None), Free(n)>>,
                <<Sync, Rebind(n), Commit(n)>>,
                Copy \o Put,
                Copy \o <<Run({n}, {})>> \o Put})>>

InstallNothing == <<Sync, Commit(None)>>

-----------------------------------------------------------------------------
(* The programs of the calls on sketch s.                                  *)

\* One update_chunk: overflow or no survivor, or the fold into hashes_.
UpdateProgram(s) ==
  ScreenKeys \o
    <<Either({<<Free("screened")>>,
              SortUnique \o
                (IF held[s] = None THEN Install("incoming")
                 ELSE MergeUnique(s, "incoming") \o Install("combined")
                        \o <<Free("incoming")>>)})>>

MergeProgram(s, o) ==
  IF held[s] = None /\ held[o] = None THEN InstallNothing
  ELSE (IF held[s] = None THEN CopyOnly(o)
        ELSE IF held[o] = None THEN CopyOnly(s) ELSE MergeUnique(s, o))
         \o Compact({"combined"}, "output", "selected")
         \o Install("output") \o <<Free("combined")>>

\* retain_matching: the filter searches the other sketch's buffer.
RetainProgram(s, o) ==
  IF held[s] = None THEN InstallNothing
  ELSE Compact({s} \cup {q \in {o} : held[q] # None}, "output", "selected")
         \o Install("output")

\* get_retained_hashes, and serialize_compact on top of it.
ReadProgram(s) ==
  IF held[s] = None THEN <<Sync>> ELSE <<Run({s}, {}), Sync>>

\* deserialize: load_compact into a new sketch of the stream of the call.
LoadProgram ==
  <<Sync, Either({InstallNothing,
                  <<Alloc("image"), Run({}, {"image"})>> \o Install("image")})>>

-----------------------------------------------------------------------------

NoCall == [sketch |-> None, stream |-> None, program |-> <<>>, scratch |-> <<>>]

Idle == call = NoCall /\ owed = None

Init ==
  /\ held = [s \in Sketch |-> None]
  /\ home = [s \in Sketch |-> None]
  /\ queue = [st \in Stream |-> <<>>]
  /\ live = {} /\ written = {}
  /\ bound \in [Buffer -> {None}]
  /\ call = NoCall
  /\ owed = None

(* The device.                                                             *)

Execute(st) ==
  /\ queue[st] # <<>>
  /\ LET t == Head(queue[st]) IN
       CASE t.op = "malloc"  -> /\ live' = live \cup {t.buffer}
                                /\ written' = written \cup {b \in {t.buffer} : t.filled}
         [] t.op = "release" -> live' = live \ {t.buffer} /\ written' = written \ {t.buffer}
         [] t.op = "work"    -> written' = written \cup t.writes /\ UNCHANGED live
  /\ queue' = [queue EXCEPT ![st] = Tail(@)]
  /\ UNCHANGED <<held, home, bound, call, owed>>

(* The host thread inside a call.                                          *)

Deref(n) == IF n \in Sketch THEN held[n] ELSE call.scratch[n]

\* queue with task t behind what stream st has to do.
Behind(st, t) == [queue EXCEPT ![st] = Append(@, t)]

\* The buffers of the set B are destroyed: freed on the streams they are
\* bound to.
Destroy(B) ==
  LET Releases(st) == LET D == {b \in B : bound[b] = st}
                      IN  [i \in 1 .. Cardinality(D) |->
                             Release(CHOOSE b \in D : Cardinality({d \in D : d < b}) = i - 1)]
  IN  /\ queue' = [st \in Stream |-> queue[st] \o Releases(st)]
      /\ bound' = [b \in Buffer |-> IF b \in B THEN None ELSE bound[b]]

InUse ==
  live \cup {held[s] : s \in Sketch} \cup {call.scratch[n] : n \in DOMAIN call.scratch}
    \cup UNION {{t.buffer : t \in {queue[st][i] : i \in {j \in DOMAIN queue[st] :
                                     queue[st][j].op # "work"}}} : st \in Stream}

Unused(i) == (IF i.counter THEN CountBuffer ELSE HashBuffer) \ InUse

\* A new buffer; make_buffer binds it to the stream of the call.
StepAlloc(i) ==
  /\ i.op = "alloc"
  /\ Unused(i) # {}
  /\ LET b == CHOOSE b \in Unused(i) : \A c \in Unused(i) : b <= c IN
       /\ queue' = Behind(call.stream, Malloc(b, i.filled))
       /\ bound' = [bound EXCEPT ![b] = call.stream]
       /\ call' = [call EXCEPT
            !.program = Tail(@),
            !.scratch = [n \in DOMAIN @ \cup {i.name} |-> IF n = i.name THEN b ELSE @[n]]]
  /\ UNCHANGED <<held, home, live, written>>

StepRun(i) ==
  /\ i.op = "run"
  /\ queue' = Behind(call.stream,
       Work({Deref(n) : n \in i.reads}, {Deref(n) : n \in i.writes}))
  /\ call' = [call EXCEPT !.program = Tail(@)]
  /\ UNCHANGED <<held, home, live, written, bound>>

StepSync(i) ==
  /\ i.op = "sync"
  /\ queue[call.stream] = <<>>
  /\ call' = [call EXCEPT !.program = Tail(@)]
  /\ UNCHANGED <<held, home, queue, live, written, bound>>

Without(n) == [m \in DOMAIN call.scratch \ {n} |-> call.scratch[m]]

StepFree(i) ==
  /\ i.op = "free"
  /\ Destroy({call.scratch[i.name]})
  /\ call' = [call EXCEPT !.program = Tail(@), !.scratch = Without(i.name)]
  /\ UNCHANGED <<held, home, live, written>>

\* set_stream(allocation_stream_); a sketch under construction has the
\* stream of the call.
StepRebind(i) ==
  /\ i.op = "rebind"
  /\ LET target == IF home[call.sketch] = None THEN call.stream ELSE home[call.sketch]
     IN  bound' = [bound EXCEPT ![call.scratch[i.name]] = target]
  /\ call' = [call EXCEPT !.program = Tail(@)]
  /\ UNCHANGED <<held, home, queue, live, written>>

\* The old buffer of the sketch is destroyed, the new one moved in.
StepCommit(i) ==
  /\ i.op = "commit"
  /\ LET s == call.sketch IN
       /\ Destroy({held[s]} \ {None})
       /\ held' = [held EXCEPT ![s] = IF i.name = None THEN None ELSE call.scratch[i.name]]
       /\ home' = [home EXCEPT ![s] = IF @ = None THEN call.stream ELSE @]
  /\ call' = [call EXCEPT !.program = Tail(@), !.scratch = Without(i.name)]
  /\ UNCHANGED <<live, written>>

\* What the data decide.
StepEither(i) ==
  /\ i.op = "either"
  /\ \E p \in i.programs : call' = [call EXCEPT !.program = p \o Tail(@)]
  /\ UNCHANGED <<held, home, queue, live, written, bound>>

Step ==
  /\ call.program # <<>>
  /\ LET i == Head(call.program) IN
       \/ StepAlloc(i) \/ StepRun(i) \/ StepSync(i)
       \/ StepFree(i) \/ StepRebind(i) \/ StepCommit(i) \/ StepEither(i)
  /\ UNCHANGED owed

Return ==
  /\ call # NoCall
  /\ call.program = <<>>
  /\ call' = NoCall
  /\ UNCHANGED <<held, home, queue, live, written, bound, owed>>

\* DATASKETCHES_CUDA_TRY or an allocation throws; unwinding destroys scratch.
Throw ==
  /\ call.program # <<>>
  /\ Head(call.program).op \in {"alloc", "run"}
  /\ Destroy({call.scratch[n] : n \in DOMAIN call.scratch})
  /\ owed' = IF SettlesAfterThrow THEN call.stream ELSE None
  /\ call' = NoCall
  /\ UNCHANGED <<held, home, live, written>>

(* The client.                                                             *)

Settle ==
  /\ owed # None
  /\ queue[owed] = <<>>
  /\ owed' = None
  /\ UNCHANGED <<held, home, queue, live, written, bound, call>>

Construct(s, st) ==
  /\ Idle /\ home[s] = None
  /\ home' = [home EXCEPT ![s] = st]
  /\ UNCHANGED <<held, queue, live, written, bound, call, owed>>

DestroySketch(s) ==
  /\ Idle /\ home[s] # None
  /\ Destroy({held[s]} \ {None})
  /\ held' = [held EXCEPT ![s] = None]
  /\ home' = [home EXCEPT ![s] = None]
  /\ UNCHANGED <<live, written, call, owed>>

\* s = std::move(o): the buffer comes with the stream it is bound to.
MoveAssign(s, o) ==
  /\ Idle /\ s # o /\ home[s] # None /\ home[o] # None
  /\ Destroy({held[s]} \ {None})
  /\ held' = [held EXCEPT ![s] = held[o], ![o] = None]
  /\ home' = [home EXCEPT ![s] = home[o], ![o] = None]
  /\ UNCHANGED <<live, written, call, owed>>

Call(s, st, program) ==
  /\ Idle
  /\ call' = [sketch |-> s, stream |-> st, program |-> program, scratch |-> <<>>]
  /\ UNCHANGED <<held, home, queue, live, written, bound, owed>>

Calls(s, st) ==
  \/ /\ home[s] # None
     /\ \/ Call(s, st, UpdateProgram(s))
        \/ Call(s, st, ReadProgram(s))
        \/ Call(s, st, InstallNothing)  \* reset
        \/ \E o \in Sketch :
             /\ home[o] # None
             /\ Call(s, st, MergeProgram(s, o)) \/ Call(s, st, RetainProgram(s, o))
  \/ home[s] = None /\ Call(s, st, LoadProgram)

Client ==
  \/ Settle
  \/ \E s \in Sketch :
       \/ DestroySketch(s)
       \/ \E o \in Sketch : MoveAssign(s, o)
       \/ \E st \in Stream : Construct(s, st) \/ Calls(s, st)

Next == Step \/ Return \/ Throw \/ Client \/ \E st \in Stream : Execute(st)

Spec == Init /\ [][Next]_vars

-----------------------------------------------------------------------------
(* Properties.                                                             *)

Tasks == UNION {{queue[st][i] : i \in DOMAIN queue[st]} : st \in Stream}

\* What a stream may carry out now.
Ready == {Head(queue[st]) : st \in {r \in Stream : queue[r] # <<>>}}

TypeOK ==
  /\ held \in [Sketch -> Buffer \cup {None}]
  /\ home \in [Sketch -> Stream \cup {None}]
  /\ \A s \in Sketch : home[s] = None => held[s] = None
  /\ live \subseteq Buffer /\ written \subseteq live
  /\ bound \in [Buffer -> Stream \cup {None}]
  /\ owed \in Stream \cup {None}

\* Whatever the order in which streams progress, no work touches a buffer that
\* is not allocated at that time, none reads what nothing wrote since
\* (make_hash_buffer does not initialize), and no buffer is freed twice.
NoInvalidAccess ==
  \A t \in Ready :
    CASE t.op = "work"    -> t.writes \subseteq live /\ t.reads \subseteq written
      [] t.op = "release" -> t.buffer \in live
      [] t.op = "malloc"  -> t.buffer \notin live

\* Every device operation completes before it returns (theta.hpp 49-50): the
\* client can destroy operands, or use them on another stream, at once.
CompletesBeforeReturning == Idle => \A t \in Tasks : t.op # "work"

\* Calls that returned or threw leave no memory behind, and take none away
\* that a sketch still holds.
NoLeak ==
  Idle /\ Tasks = {} => live = {held[s] : s \in Sketch} \ {None}

\* The buffer of a sketch is freed on the stream that the sketch was
\* constructed on, moves included: the caller has to keep no other stream
\* alive until the sketch is destroyed (theta.hpp 55-57).
FreedOnOwnStream == \A s \in Sketch : held[s] # None => bound[held[s]] = home[s]
=============================================================================
