---------------------------- MODULE SliceExecutor ----------------------------
(***************************************************************************)
(* SliceExecutor::decode, with the threads it starts.                      *)
(*                                                                         *)
(* One call is in progress at a time (a decoder is not thread-safe).  The  *)
(* calling thread validates the slices, pairs them with the reference      *)
(* states and decodes them, either one after the other or in batches of    *)
(* std::async workers which it joins in order.  The workers write their    *)
(* own slot of working_states and their own window of the caller's frame;  *)
(* the calling thread reads both only after it has joined them.            *)
(***************************************************************************)
EXTENDS SliceDecoding

CONSTANTS
  Frames,         \* the slice sequences a call may be given
  MaxSlices,      \* no frame has more slices
  ThreadCounts,   \* the normalized thread counts an executor may have
  NoCall,         \* no call in progress
  Stale,          \* a cell the call has not written
  Torn,           \* a cell or a state a failed decode left half written
  MaxGop          \* bound: no continuation after this many frames of a GOP

ASSUME FrameAssumption ==
  /\ Frames \subseteq Seq(Slice) \ {<<>>}
  /\ ThreadCounts \subseteq Nat \ {0}
  /\ NoCall \notin [slices : Frames, keyframe : BOOLEAN]

ASSUME MarkAssumption ==
  /\ Stale \notin Record /\ Torn \notin Record
  /\ Stale # Torn
  /\ Torn \notin Seq(Record)

ASSUME BoundAssumption ==
  /\ MaxGop \in Nat
  /\ MaxSlices \in Nat
  /\ \A frame \in Frames : Len(frame) <= MaxSlices

VARIABLES
  thread_count,     \* thread_count_, fixed when the executor is made
  slice_states,     \* slice_states_
  slice_layouts,    \* slice_layouts_
  call,             \* the arguments of the call in progress
  reply,            \* what the last call returned
  pc,               \* where the calling thread is
  working_states,   \* the call's own states, one per slice
  offset,           \* how many slices earlier batches took
  launched,         \* how many slices were handed to a decode
  joined,           \* how many statuses were collected
  future,           \* future[i]: what became of the decode of slice i
  output            \* the caller's frame, cell by cell

callVars == <<pc, working_states, offset, launched, joined, future, output>>
vars == <<thread_count, slice_states, slice_layouts, call, reply, callVars>>

Calls == [slices : Frames, keyframe : BOOLEAN]

NoReply == [code |-> "None", slice |-> 0]

Slices == call.slices
Indexes == DOMAIN call.slices
Count == Len(call.slices)

Start(i) == StartState(call.slices, call.keyframe, slice_states, slice_layouts, i)

\* Deviation: the batch takes every slice, whatever the thread count.
WorkerCountUnbounded == Count

\* worker_count_for
WorkerCount == IF thread_count < Count THEN thread_count ELSE Count

BatchEnd == IF offset + WorkerCount < Count THEN offset + WorkerCount ELSE Count

Running == {i \in DOMAIN future : future[i] = "running"}

\* Deviation: only the statuses of the last batch are looked at.
FailedInLastBatch ==
  {i \in DOMAIN future : future[i] = "failed" /\ i + WorkerCount > Count}

Failed == {i \in DOMAIN future : future[i] = "failed"}

Init ==
  /\ thread_count \in ThreadCounts
  /\ slice_states = <<>>
  /\ slice_layouts = <<>>
  /\ call = NoCall
  /\ reply = NoReply
  /\ pc = "idle"
  /\ working_states = <<>>
  /\ offset = 0
  /\ launched = 0
  /\ joined = 0
  /\ future = <<>>
  /\ output = [c \in Cells |-> Stale]

(***************************************************************************)
(* The call and its return.                                                *)
(***************************************************************************)
Decode(frame, key) ==
  /\ pc = "idle"
  /\ key \/ \A i \in DOMAIN slice_states : Len(slice_states[i]) < MaxGop
  /\ call' = [slices |-> frame, keyframe |-> key]
  /\ reply' = NoReply
  /\ pc' = "validate"
  /\ output' = [c \in Cells |-> Stale]
  /\ UNCHANGED <<thread_count, slice_states, slice_layouts, working_states,
                 offset, launched, joined, future>>

\* The locals of the call die with it; a worker that still ran would not.
Return(code, slice) ==
  /\ reply' = [code |-> code, slice |-> slice]
  /\ call' = NoCall
  /\ pc' = "idle"
  /\ working_states' = <<>>
  /\ offset' = 0
  /\ launched' = 0
  /\ joined' = 0
  /\ future' = [i \in Running |-> "running"]
  /\ UNCHANGED <<thread_count, output>>

Refuse(code, slice) ==
  /\ Return(code, slice)
  /\ UNCHANGED <<slice_states, slice_layouts>>

(***************************************************************************)
(* validate_slices: every slice is validated before the first is decoded.  *)
(***************************************************************************)
Validate ==
  /\ pc = "validate"
  /\ \/ /\ ~CoverageAccepted(Slices, thread_count)
        /\ Refuse("Coverage", 0)
     \/ /\ CoverageAccepted(Slices, thread_count)
        /\ Invalid(Slices) # {}
        /\ Refuse("InvalidSlice", First(Invalid(Slices)))
     \/ /\ CoverageAccepted(Slices, thread_count)
        /\ Invalid(Slices) = {}
        /\ pc' = "match"
        /\ UNCHANGED <<thread_count, slice_states, slice_layouts, call, reply,
                       working_states, offset, launched, joined, future, output>>

ParallelSafe == thread_count > 1 /\ Count >= 2 /\ CoverageValid(Slices)

\* The first mismatch in rank order, which is the one decode() reports.
FirstMismatch ==
  LET M == Mismatched(Slices, slice_layouts) IN
  CHOOSE i \in M : \A j \in M : Rank(Layouts(Slices), i) <= Rank(Layouts(Slices), j)

(***************************************************************************)
(* The working states: fresh ones for a keyframe, the matching reference   *)
(* states otherwise.                                                       *)
(***************************************************************************)
MatchReferences ==
  /\ pc = "match"
  /\ \/ /\ ~call.keyframe
        /\ slice_states = <<>>
        /\ Refuse("NoReference", 0)
     \/ /\ ~call.keyframe
        /\ slice_states # <<>>
        /\ Len(slice_states) # Count
        /\ Refuse("SlicesDiffer", 0)
     \/ /\ ~call.keyframe
        /\ slice_states # <<>>
        /\ Len(slice_states) = Count
        /\ Mismatched(Slices, slice_layouts) # {}
        /\ Refuse("LayoutDiffers", FirstMismatch)
     \/ /\ call.keyframe \/ Continues(Slices, slice_states, slice_layouts)
        /\ working_states' = [i \in Indexes |-> Start(i)]
        /\ future' = [i \in Indexes |-> "none"]
        /\ pc' = IF ParallelSafe THEN "launch" ELSE "serial"
        /\ UNCHANGED <<thread_count, slice_states, slice_layouts, call, reply,
                       offset, launched, joined, output>>

(***************************************************************************)
(* decode_slice.  With a read-ahead boundary to try, the slice is decoded  *)
(* into a temporary frame and into a copy of its state, and both replace   *)
(* the slice's own only for the candidate that decodes; without one, the   *)
(* decoder works on the state and the caller's frame directly and a        *)
(* failure leaves them half written.                                       *)
(***************************************************************************)
StateAfter(slice, state) ==
  IF Decodes(slice) THEN DecodedState(state, slice)
  ELSE IF HasReadAhead(slice) THEN state
  ELSE Torn

\* Deviation: read-ahead candidates are decoded in place.
CellAfterInPlace(slice, cell) ==
  IF Decodes(slice) THEN [raster |-> slice.raster, body |-> Body(slice)] ELSE Torn

CellAfter(slice, cell) ==
  IF Decodes(slice) THEN [raster |-> slice.raster, body |-> Body(slice)]
  ELSE IF HasReadAhead(slice) THEN cell
  ELSE Torn

DecodeSlice(i) ==
  /\ future' = [future EXCEPT ![i] = IF Decodes(Slices[i]) THEN "ok" ELSE "failed"]
  /\ working_states' = [working_states EXCEPT ![i] = StateAfter(Slices[i], @)]
  /\ output' = [c \in Cells |-> IF c \in Cover[Slices[i].raster]
                                THEN CellAfter(Slices[i], output[c])
                                ELSE output[c]]

\* Deviation: a slice that fails is tried again.
SerialDecodeRetrying ==
  /\ pc = "serial"
  /\ DecodeSlice(joined + 1)
  /\ joined' = IF Decodes(Slices[joined + 1]) THEN joined + 1 ELSE joined
  /\ launched' = joined'
  /\ pc' = IF joined' < Count THEN "serial" ELSE "report"
  /\ UNCHANGED <<thread_count, slice_states, slice_layouts, call, reply, offset>>

\* decode_serial stops at the first slice that fails.
SerialDecode ==
  /\ pc = "serial"
  /\ DecodeSlice(joined + 1)
  /\ launched' = joined + 1
  /\ joined' = joined + 1
  /\ pc' = IF Decodes(Slices[joined + 1]) /\ joined + 1 < Count
           THEN "serial" ELSE "report"
  /\ UNCHANGED <<thread_count, slice_states, slice_layouts, call, reply, offset>>

(***************************************************************************)
(* decode_parallel.                                                        *)
(***************************************************************************)
LaunchWorker ==
  /\ pc = "launch"
  /\ future' = [future EXCEPT ![launched + 1] = "running"]
  /\ launched' = launched + 1
  /\ pc' = IF launched + 1 < BatchEnd THEN "launch" ELSE "join"
  /\ UNCHANGED <<thread_count, slice_states, slice_layouts, call, reply,
                 working_states, offset, joined, output>>

\* std::async throws: the futures of the batch are destroyed while the
\* exception leaves decode_parallel, and each destructor waits for its worker.
LaunchFails ==
  /\ pc = "launch"
  /\ pc' = "unwind"
  /\ UNCHANGED <<thread_count, slice_states, slice_layouts, call, reply,
                 working_states, offset, launched, joined, future, output>>

\* Deviation: the futures are detached instead of waited for.
UnwindWithoutWaiting ==
  /\ pc = "unwind"
  /\ Refuse("Exception", 0)

Unwind ==
  /\ pc = "unwind"
  /\ Running = {}
  /\ Refuse("Exception", 0)

Worker(i) ==
  /\ i \in Running
  /\ DecodeSlice(i)
  /\ UNCHANGED <<thread_count, slice_states, slice_layouts, call, reply, pc,
                 offset, launched, joined>>

\* futures[i].get(), in launch order, whatever order the workers finish in.
Join ==
  /\ pc = "join"
  /\ future[joined + 1] # "running"
  /\ joined' = joined + 1
  /\ offset' = IF joined + 1 < BatchEnd THEN offset ELSE BatchEnd
  /\ pc' = IF joined + 1 < BatchEnd THEN "join"
           ELSE IF BatchEnd < Count THEN "launch"
           ELSE "report"
  /\ UNCHANGED <<thread_count, slice_states, slice_layouts, call, reply,
                 working_states, launched, future, output>>

\* Deviation: the status that came last is returned.
ReportLastFailure ==
  /\ pc = "report"
  /\ \/ /\ Failed # {}
        /\ Refuse("DecodeFailed", CHOOSE i \in Failed : \A j \in Failed : j <= i)
     \/ /\ Failed = {}
        /\ slice_states' = working_states
        /\ slice_layouts' = Layouts(Slices)
        /\ Return("Ok", 0)

(***************************************************************************)
(* The first status that is not ok is returned; with none, the working     *)
(* states and layouts become the reference ones.                           *)
(***************************************************************************)
Report ==
  /\ pc = "report"
  /\ \/ /\ Failed # {}
        /\ Refuse("DecodeFailed", First(Failed))
     \/ /\ Failed = {}
        /\ slice_states' = working_states
        /\ slice_layouts' = Layouts(Slices)
        /\ Return("Ok", 0)

CallingThread ==
  Validate \/ MatchReferences \/ SerialDecode \/ LaunchWorker \/ Unwind \/ Join \/ Report

Next ==
  \/ \E frame \in Frames, key \in BOOLEAN : Decode(frame, key)
  \/ CallingThread
  \/ LaunchFails
  \/ \E i \in DOMAIN future : Worker(i)
-----------------------------------------------------------------------------
Spec == Init /\ [][Next]_vars

\* The calling thread runs, and so does every worker std::launch::async started.
FairSpec ==
  /\ Spec
  /\ WF_vars(CallingThread)
  /\ \A i \in 1..MaxSlices : WF_vars(Worker(i))
-----------------------------------------------------------------------------
Codes ==
  {"None", "Ok", "Coverage", "InvalidSlice", "NoReference", "SlicesDiffer",
   "LayoutDiffers", "DecodeFailed", "Exception"}

TypeOK ==
  /\ thread_count \in ThreadCounts
  /\ slice_states \in Seq(Seq(Record))
  /\ slice_layouts \in Seq(Rasters)
  /\ Len(slice_states) = Len(slice_layouts)
  /\ call \in Calls \cup {NoCall}
  /\ reply \in [code : Codes, slice : Nat]
  /\ pc \in {"idle", "validate", "match", "serial", "launch", "join", "unwind", "report"}
  /\ working_states \in Seq(Seq(Record) \cup {Torn})
  /\ future \in Seq({"none", "running", "ok", "failed"})
  /\ Len(future) = Len(working_states)
  /\ offset \in Nat /\ launched \in Nat /\ joined \in Nat
  /\ output \in [Cells -> Record \cup {Stale, Torn}]

(***************************************************************************)
(* Two decodes that run at the same time never write the same cell of the  *)
(* caller's frame: decode_slice writes without a lock, so an overlap would *)
(* be a data race.                                                         *)
(***************************************************************************)
NoSharedCell ==
  \A i, j \in Running :
    i # j => Cover[Slices[i].raster] \cap Cover[Slices[j].raster] = {}

(***************************************************************************)
(* A worker holds pointers into working_states and into the caller's       *)
(* frame, so none may still run once decode_parallel has been left, be it  *)
(* by its return or by an exception of std::async.                         *)
(***************************************************************************)
NoOrphanWorker == Running # {} => pc \in {"launch", "join", "unwind"}

(***************************************************************************)
(* There are never more workers than the thread count the caller chose.    *)
(***************************************************************************)
ThreadsBounded == Cardinality(Running) <= thread_count

(***************************************************************************)
(* A reference state is kept with the rectangle all of its history was     *)
(* decoded for: reordered slices of a non-keyframe continue the state of   *)
(* their own place in the frame, never that of a neighbour.                *)
(***************************************************************************)
RasterContinuity ==
  \A i \in DOMAIN slice_states : \A k \in DOMAIN slice_states[i] :
    slice_states[i][k].raster = slice_layouts[i]

(***************************************************************************)
(* The reference states belong to one frame: each has seen every frame of  *)
(* the GOP that was decoded, however many calls failed in between.         *)
(***************************************************************************)
SameDepth ==
  \A i, j \in DOMAIN slice_states : Len(slice_states[i]) = Len(slice_states[j])

(***************************************************************************)
(* When the slices tile the frame, each window shows what the decode of    *)
(* its slice made of it: the accepted body, and nothing at all of a slice  *)
(* that was not reached or whose read-ahead candidates all failed in the   *)
(* temporary frame.                                                        *)
(***************************************************************************)
OutputFaithful ==
  call # NoCall /\ CoverageValid(Slices) =>
    \A i \in DOMAIN future : \A c \in Cover[Slices[i].raster] :
      /\ future[i] = "ok" =>
           output[c] = [raster |-> Slices[i].raster, body |-> Body(Slices[i])]
      /\ future[i] \in {"none", "running"} => output[c] = Stale
      /\ future[i] = "failed" /\ HasReadAhead(Slices[i]) => output[c] = Stale

(***************************************************************************)
(* The inductive invariant behind the properties above.                    *)
(***************************************************************************)
Decoding == pc \in {"serial", "launch", "join", "unwind", "report"}

\* Where the calling thread is decides what it has checked and allocated.
CallInv ==
  /\ call = NoCall <=> pc = "idle"
  /\ ~Decoding => /\ future = <<>> /\ working_states = <<>>
                  /\ offset = 0 /\ launched = 0 /\ joined = 0
  /\ pc = "match" => CoverageAccepted(Slices, thread_count) /\ Invalid(Slices) = {}
  /\ Decoding => /\ Admissible(Slices, call.keyframe, slice_states,
                                slice_layouts, thread_count)
                 /\ Len(future) = Count

\* Slices are handed out in order, and joined in order.
CountInv ==
  Decoding =>
    /\ offset <= joined /\ joined <= launched /\ launched <= Count
    /\ \A i \in Indexes : future[i] = "none" <=> i > launched
    /\ \A i \in Indexes : i <= joined => future[i] # "running"

PhaseInv ==
  /\ pc = "serial" => joined = launched /\ joined < Count /\ Failed = {}
  /\ pc = "launch" => offset = joined /\ launched < BatchEnd
  /\ pc = "join" => joined < BatchEnd /\ launched = BatchEnd
  /\ pc \in {"launch", "join", "unwind"} => ParallelSafe /\ launched <= BatchEnd
  /\ pc = "report" => joined = launched /\ (Failed # {} \/ joined = Count)

\* What the decode of a slice did, it did to the state the slice came with.
ResultInv ==
  Decoding =>
    \A i \in Indexes :
      /\ future[i] \in {"none", "running"} => working_states[i] = Start(i)
      /\ future[i] = "ok" => /\ Decodes(Slices[i])
                             /\ working_states[i] = DecodedState(Start(i), Slices[i])
      /\ future[i] = "failed" => ~Decodes(Slices[i])

IInv ==
  TypeOK /\ CallInv /\ CountInv /\ PhaseInv /\ ResultInv /\ RasterContinuity

(***************************************************************************)
(* Threads, batches and read-ahead candidates are invisible to the caller: *)
(* the executor implements AtomicExecutor.                                 *)
(***************************************************************************)
Atomic ==
  INSTANCE AtomicExecutor
  WITH thread_count <- thread_count,
       slice_states <- slice_states,
       slice_layouts <- slice_layouts,
       call <- call,
       reply <- reply

ImplementsAtomic == Atomic!Spec

(***************************************************************************)
(* Every call returns, also when slices fail or a thread cannot start.     *)
(***************************************************************************)
CallReturns == (call # NoCall) ~> (call = NoCall)
=============================================================================
