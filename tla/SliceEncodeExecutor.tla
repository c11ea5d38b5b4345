------------------------- MODULE SliceEncodeExecutor -------------------------
(***************************************************************************)
(* SliceEncodeExecutor::encode, with the threads it starts.                *)
(*                                                                         *)
(* The executor borrows the stream parameters, which fix the slice grid:   *)
(* its reference layouts always are the layouts of that grid, and the      *)
(* guards that compare them cannot fail.  As in SliceDecoding, the entropy *)
(* state of a slice is the history of the bodies coded into it since the   *)
(* last keyframe, and a coded slice is what determines its bytes.          *)
(***************************************************************************)
EXTENDS Integers, Sequences, FiniteSets

CONSTANTS
  SliceCounts,    \* the possible num_h_slices * num_v_slices of the stream
  MaxSlices,      \* no stream has more slices
  ThreadCounts,   \* the normalized thread counts an executor may have
  Bodies,         \* slice contents that can be coded
  Unencodable,    \* a slice content with a sample above the bit depth
  NoCall,         \* no call in progress
  MaxGop          \* bound: no continuation after this many frames of a GOP

ASSUME EncodeAssumption ==
  /\ MaxSlices \in Nat /\ MaxGop \in Nat
  /\ SliceCounts \subseteq 1..MaxSlices
  /\ ThreadCounts \subseteq Nat \ {0}
  /\ Unencodable \notin Bodies

ASSUME NoCallAssumption ==
  \A n \in SliceCounts :
    NoCall \notin [input : [valid : BOOLEAN, contents : [1..n -> Bodies \cup {Unencodable}]],
                   keyframe : BOOLEAN]

VARIABLES
  slice_count,      \* of the borrowed stream
  intra_only,       \* of the borrowed stream
  thread_count,     \* thread_count_
  slice_states,     \* slice_states_
  call,             \* the arguments of the call in progress
  reply,            \* what the last call returned
  out_frame,        \* the caller's byte vector
  pc,               \* where the calling thread is
  working_states,   \* the call's own states, one per slice
  slices,           \* the call's own payloads, one per slice
  offset,           \* how many slices earlier batches took
  launched,         \* how many slices were handed to an encode
  joined,           \* how many statuses were collected
  future            \* future[i]: what became of the encode of slice i

streamVars == <<slice_count, intra_only, thread_count>>
callVars == <<pc, working_states, slices, offset, launched, joined, future>>
vars == <<streamVars, slice_states, call, reply, out_frame, callVars>>

Indexes == 1..slice_count

\* The frame-level part of an input is valid or not; each slice has a content.
Inputs == [valid : BOOLEAN, contents : [Indexes -> Bodies \cup {Unencodable}]]

Fresh == <<>>
NoReply == [code |-> "None", slice |-> 0]
NoPayload == <<>>

First(S) == CHOOSE i \in S : \A j \in S : i <= j

\* Only the first slice of a frame carries the keyframe flag.
Payload(i, keyframe, state, body) ==
  <<[index |-> i,
     flag |-> IF i = 1 THEN IF keyframe THEN "key" ELSE "nonkey" ELSE "none",
     from |-> state,
     body |-> body]>>

\* Deviation: every slice of a batch is coded from the state of the first.
StartShared(i) == IF call.keyframe THEN Fresh ELSE slice_states[1]

Start(i) == IF call.keyframe THEN Fresh ELSE slice_states[i]

\* worker_count_for
WorkerCount == IF thread_count < slice_count THEN thread_count ELSE slice_count

\* Deviation: the last batch is as long as the others.
BatchEndUncapped == offset + WorkerCount

BatchEnd ==
  IF offset + WorkerCount < slice_count THEN offset + WorkerCount ELSE slice_count

Running == {i \in DOMAIN future : future[i] = "running"}

Failed == {i \in DOMAIN future : future[i] = "failed"}

Init ==
  /\ slice_count \in SliceCounts
  /\ intra_only \in BOOLEAN
  /\ thread_count \in ThreadCounts
  /\ slice_states = <<>>
  /\ call = NoCall
  /\ reply = NoReply
  /\ out_frame = <<>>
  /\ pc = "idle"
  /\ working_states = <<>>
  /\ slices = <<>>
  /\ offset = 0
  /\ launched = 0
  /\ joined = 0
  /\ future = <<>>

Encode(input, key) ==
  /\ pc = "idle"
  /\ key \/ \A i \in DOMAIN slice_states : Len(slice_states[i]) < MaxGop
  /\ call' = [input |-> input, keyframe |-> key]
  /\ reply' = NoReply
  /\ pc' = "prepare"
  /\ UNCHANGED <<streamVars, slice_states, out_frame, working_states, slices,
                 offset, launched, joined, future>>

\* The locals of the call die with it; a worker that still ran would not.
Return(code, slice) ==
  /\ reply' = [code |-> code, slice |-> slice]
  /\ call' = NoCall
  /\ pc' = "idle"
  /\ working_states' = <<>>
  /\ slices' = <<>>
  /\ offset' = 0
  /\ launched' = 0
  /\ joined' = 0
  /\ future' = [i \in Running |-> "running"]
  /\ UNCHANGED streamVars

Refuse(code, slice) ==
  /\ Return(code, slice)
  /\ UNCHANGED <<slice_states, out_frame>>

(***************************************************************************)
(* What encode() checks before it touches any slice.                       *)
(***************************************************************************)
Prepare ==
  /\ pc = "prepare"
  /\ \/ /\ ~call.input.valid
        /\ Refuse("InvalidInput", 0)
     \/ /\ call.input.valid /\ ~call.keyframe
        /\ intra_only
        /\ Refuse("IntraOnly", 0)
     \/ /\ call.input.valid /\ ~call.keyframe
        /\ ~intra_only
        /\ slice_states = <<>>
        /\ Refuse("NoReference", 0)
     \/ /\ call.input.valid
        /\ call.keyframe \/ (~intra_only /\ slice_states # <<>>)
        /\ working_states' = [i \in Indexes |-> Start(i)]
        /\ slices' = [i \in Indexes |-> NoPayload]
        /\ future' = [i \in Indexes |-> "none"]
        /\ pc' = IF WorkerCount <= 1 THEN "serial" ELSE "launch"
        /\ UNCHANGED <<streamVars, slice_states, call, reply, out_frame,
                       offset, launched, joined>>

(***************************************************************************)
(* encode_slice.  The slice encoder codes from a copy of the state and     *)
(* replaces state and payload only when it is done.                        *)
(***************************************************************************)
EncodeSlice(i) ==
  LET body == call.input.contents[i]
      coded == body # Unencodable
  IN /\ future' = [future EXCEPT ![i] = IF coded THEN "ok" ELSE "failed"]
     /\ working_states' = [working_states EXCEPT ![i] = IF coded THEN Append(@, body) ELSE @]
     /\ slices' = [slices EXCEPT ![i] =
                     IF coded THEN Payload(i, call.keyframe, working_states[i], body) ELSE @]

\* Deviation: a slice that fails is tried again.
SerialEncodeRetrying ==
  /\ pc = "serial"
  /\ EncodeSlice(joined + 1)
  /\ joined' = IF call.input.contents[joined + 1] = Unencodable THEN joined ELSE joined + 1
  /\ launched' = joined'
  /\ pc' = IF joined' < slice_count THEN "serial" ELSE "report"
  /\ UNCHANGED <<streamVars, slice_states, call, reply, out_frame, offset>>

\* The serial loop codes every slice, also after one has failed.
SerialEncode ==
  /\ pc = "serial"
  /\ EncodeSlice(joined + 1)
  /\ launched' = joined + 1
  /\ joined' = joined + 1
  /\ pc' = IF joined + 1 < slice_count THEN "serial" ELSE "report"
  /\ UNCHANGED <<streamVars, slice_states, call, reply, out_frame, offset>>

LaunchWorker ==
  /\ pc = "launch"
  /\ future' = [future EXCEPT ![launched + 1] = "running"]
  /\ launched' = launched + 1
  /\ pc' = IF launched + 1 < BatchEnd THEN "launch" ELSE "join"
  /\ UNCHANGED <<streamVars, slice_states, call, reply, out_frame,
                 working_states, slices, offset, joined>>

\* std::async throws: the destructors of the futures wait for their workers.
LaunchFails ==
  /\ pc = "launch"
  /\ pc' = "unwind"
  /\ UNCHANGED <<streamVars, slice_states, call, reply, out_frame,
                 working_states, slices, offset, launched, joined, future>>

\* Deviation: the futures are detached instead of waited for.
UnwindWithoutWaiting ==
  /\ pc = "unwind"
  /\ Refuse("Exception", 0)

Unwind ==
  /\ pc = "unwind"
  /\ Running = {}
  /\ Refuse("Exception", 0)

Worker(i) ==
  /\ i \in Running
  /\ EncodeSlice(i)
  /\ UNCHANGED <<streamVars, slice_states, call, reply, out_frame, pc,
                 offset, launched, joined>>

\* futures[index].get(), in launch order, whatever order the workers finish in.
Join ==
  /\ pc = "join"
  /\ future[joined + 1] # "running"
  /\ joined' = joined + 1
  /\ offset' = IF joined + 1 < BatchEnd THEN offset ELSE BatchEnd
  /\ pc' = IF joined + 1 < BatchEnd THEN "join"
           ELSE IF BatchEnd < slice_count THEN "launch"
           ELSE "report"
  /\ UNCHANGED <<streamVars, slice_states, call, reply, out_frame,
                 working_states, slices, launched, future>>

\* append_slices
Appended ==
  LET prefix[n \in 0..slice_count] == IF n = 0 THEN <<>> ELSE prefix[n - 1] \o slices[n]
  IN prefix[slice_count]

\* Deviation: the states are committed slice by slice, before the statuses are read.
ReportPartial ==
  /\ pc = "report"
  /\ slice_states' = working_states
  /\ \/ /\ Failed # {}
        /\ Return("EncodeFailed", First(Failed))
        /\ UNCHANGED out_frame
     \/ /\ Failed = {}
        /\ out_frame' = Appended
        /\ Return("Ok", 0)

(***************************************************************************)
(* The lowest failing slice is returned; with none, the frame is assembled *)
(* and the working states become the reference ones.                       *)
(***************************************************************************)
Report ==
  /\ pc = "report"
  /\ \/ /\ Failed # {}
        /\ Refuse("EncodeFailed", First(Failed))
     \/ /\ Failed = {}
        /\ out_frame' = Appended
        /\ slice_states' = working_states
        /\ Return("Ok", 0)

CallingThread ==
  Prepare \/ SerialEncode \/ LaunchWorker \/ Unwind \/ Join \/ Report

Next ==
  \/ \E input \in Inputs, key \in BOOLEAN : Encode(input, key)
  \/ CallingThread
  \/ LaunchFails
  \/ \E i \in DOMAIN future : Worker(i)
-----------------------------------------------------------------------------
Spec == Init /\ [][Next]_vars

\* The calling thread runs, and so does every worker std::launch::async started.
FairSpec ==
  /\ Spec
  /\ WF_vars(CallingThread)
  /\ \A i \in 1..MaxSlices : WF_vars(Worker(i))
-----------------------------------------------------------------------------
History == Seq(Bodies)

Codes ==
  {"None", "Ok", "InvalidInput", "IntraOnly", "NoReference", "EncodeFailed", "Exception"}

TypeOK ==
  /\ slice_count \in SliceCounts /\ thread_count \in ThreadCounts
  /\ intra_only \in BOOLEAN
  /\ slice_states \in {<<>>} \cup [Indexes -> History]
  /\ call \in [input : Inputs, keyframe : BOOLEAN] \cup {NoCall}
  /\ reply \in [code : Codes, slice : 0..MaxSlices]
  /\ pc \in {"idle", "prepare", "serial", "launch", "join", "unwind", "report"}
  /\ working_states \in {<<>>} \cup [Indexes -> History]
  /\ DOMAIN slices = DOMAIN working_states
  /\ future \in Seq({"none", "running", "ok", "failed"})
  /\ offset \in 0..slice_count /\ launched \in 0..slice_count /\ joined \in 0..slice_count

(***************************************************************************)
(* The worker lambdas capture working_states and slices by reference: none *)
(* may still run once encode() is past its batches or has been left by an  *)
(* exception.                                                              *)
(***************************************************************************)
NoOrphanWorker == Running # {} => pc \in {"launch", "join", "unwind"}

(***************************************************************************)
(* The reference states are those a decoder reaches with the frame the     *)
(* caller holds: replaying each payload from the state it was coded from   *)
(* gives the reference state of its slice, whatever failed since.          *)
(***************************************************************************)
FrameInStep ==
  /\ Len(out_frame) = Len(slice_states)
  /\ \A i \in DOMAIN out_frame :
       /\ out_frame[i].index = i
       /\ Append(out_frame[i].from, out_frame[i].body) = slice_states[i]

(***************************************************************************)
(* Dispatch is invisible in the bytes and in the status: the executor      *)
(* implements AtomicEncodeExecutor.                                        *)
(***************************************************************************)
Atomic ==
  INSTANCE AtomicEncodeExecutor
  WITH slice_count <- slice_count,
       intra_only <- intra_only,
       thread_count <- thread_count,
       slice_states <- slice_states,
       call <- call,
       reply <- reply,
       out_frame <- out_frame

ImplementsAtomic == Atomic!Spec

(***************************************************************************)
(* Every call returns, also when slices fail or a thread cannot start.     *)
(***************************************************************************)
CallReturns == (call # NoCall) ~> (call = NoCall)
-----------------------------------------------------------------------------
(***************************************************************************)
(* The inductive invariant.  A call has locals only while it codes; the    *)
(* batches hand the slices out in order; and what became of a slice is     *)
(* what coding it from the state the call started with gives.              *)
(***************************************************************************)
Coding == pc \in {"serial", "launch", "join", "unwind", "report"}

CallInv ==
  /\ pc = "idle" <=> call = NoCall
  /\ ~Coding => /\ future = <<>> /\ working_states = <<>> /\ slices = <<>>
                /\ offset = 0 /\ launched = 0 /\ joined = 0
  /\ Coding => /\ call.input.valid
               /\ call.keyframe \/ (~intra_only /\ slice_states # <<>>)
               /\ Len(future) = slice_count
               /\ working_states \in [Indexes -> History]

CountInv ==
  Coding =>
    /\ offset <= joined /\ joined <= launched
    /\ \A i \in Indexes : future[i] = "none" <=> i > launched
    /\ \A i \in Indexes : i <= joined => future[i] # "running"

PhaseInv ==
  /\ pc = "serial" => joined = launched /\ joined < slice_count
  /\ pc = "launch" => offset = joined /\ launched < BatchEnd
  /\ pc = "join" => joined < BatchEnd /\ launched = BatchEnd
  /\ pc \in {"launch", "join", "unwind"} => WorkerCount > 1 /\ launched <= BatchEnd
  /\ pc = "report" => joined = slice_count

ResultInv ==
  Coding =>
    \A i \in Indexes :
      LET body == call.input.contents[i]
      IN /\ future[i] \in {"none", "running"} => working_states[i] = Start(i)
         /\ future[i] = "ok" =>
              /\ body # Unencodable
              /\ working_states[i] = Append(Start(i), body)
              /\ slices[i] = Payload(i, call.keyframe, Start(i), body)
         /\ future[i] = "failed" => body = Unencodable

IInv == TypeOK /\ FrameInStep /\ CallInv /\ CountInv /\ PhaseInv /\ ResultInv
=============================================================================
