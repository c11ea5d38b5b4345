--------------------------- MODULE AtomicExecutor ---------------------------
(***************************************************************************)
(* What a slice executor promises its caller: a frame is decoded as if its *)
(* slices were decoded one after the other in payload order, and all of    *)
(* their entropy states become the reference states at once, or none does. *)
(* No thread, batch or partial result is visible here.                     *)
(***************************************************************************)
EXTENDS SliceDecoding

CONSTANTS
  Frames,         \* the slice sequences a call may be given
  ThreadCounts,   \* the normalized thread counts an executor may have
  NoCall          \* no call in progress

VARIABLES
  thread_count,
  slice_states,    \* the committed reference states
  slice_layouts,   \* and the rectangles they belong to
  call,            \* the arguments of the call in progress
  reply            \* what the last call returned

vars == <<thread_count, slice_states, slice_layouts, call, reply>>

Calls == [slices : Frames, keyframe : BOOLEAN]

Refusals ==
  {"Coverage", "InvalidSlice", "NoReference", "SlicesDiffer", "LayoutDiffers"}

NoReply == [code |-> "None", slice |-> 0]

Init ==
  /\ thread_count \in ThreadCounts
  /\ slice_states = <<>>
  /\ slice_layouts = <<>>
  /\ call = NoCall
  /\ reply = NoReply

Submit(frame, key) ==
  /\ call = NoCall
  /\ call' = [slices |-> frame, keyframe |-> key]
  /\ reply' = NoReply
  /\ UNCHANGED <<thread_count, slice_states, slice_layouts>>

Return(code, slice) ==
  /\ reply' = [code |-> code, slice |-> slice]
  /\ call' = NoCall
  /\ UNCHANGED thread_count

CanDecode ==
  Admissible(call.slices, call.keyframe, slice_states, slice_layouts, thread_count)

Refuse ==
  /\ call # NoCall
  /\ ~CanDecode
  /\ \E code \in Refusals, slice \in {0} \cup DOMAIN call.slices : Return(code, slice)
  /\ UNCHANGED <<slice_states, slice_layouts>>

\* The lowest failing index is reported, and nothing is committed.
Fail ==
  /\ call # NoCall
  /\ CanDecode
  /\ Failing(call.slices) # {}
  /\ Return("DecodeFailed", First(Failing(call.slices)))
  /\ UNCHANGED <<slice_states, slice_layouts>>

\* A worker thread cannot be started: the call ends with an exception.
Abort ==
  /\ call # NoCall
  /\ CanDecode
  /\ thread_count > 1
  /\ Return("Exception", 0)
  /\ UNCHANGED <<slice_states, slice_layouts>>

Commit ==
  /\ call # NoCall
  /\ CanDecode
  /\ Failing(call.slices) = {}
  /\ Return("Ok", 0)
  /\ slice_states' =
       [i \in DOMAIN call.slices |->
          DecodedState(StartState(call.slices, call.keyframe,
                                  slice_states, slice_layouts, i),
                       call.slices[i])]
  /\ slice_layouts' = Layouts(call.slices)

Next ==
  \/ \E frame \in Frames, key \in BOOLEAN : Submit(frame, key)
  \/ Refuse
  \/ Fail
  \/ Abort
  \/ Commit

Spec == Init /\ [][Next]_vars
=============================================================================
