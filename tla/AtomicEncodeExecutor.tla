------------------------ MODULE AtomicEncodeExecutor ------------------------
(***************************************************************************)
(* What a slice encode executor promises the encoder: a frame is coded as  *)
(* if its slices were coded one after the other in index order.  Either    *)
(* the frame is delivered and all of its states become the reference       *)
(* states, or the lowest failing slice is reported and nothing changes.    *)
(***************************************************************************)
EXTENDS Integers, Sequences

CONSTANTS SliceCounts, ThreadCounts, Bodies, Unencodable, NoCall

VARIABLES
  slice_count, intra_only, thread_count,
  slice_states,    \* the committed reference states
  call,            \* the arguments of the call in progress
  reply,           \* what the last call returned
  out_frame        \* the caller's byte vector

vars == <<slice_count, intra_only, thread_count, slice_states, call, reply, out_frame>>

Indexes == 1..slice_count

Inputs == [valid : BOOLEAN, contents : [Indexes -> Bodies \cup {Unencodable}]]

NoReply == [code |-> "None", slice |-> 0]

Init ==
  /\ slice_count \in SliceCounts
  /\ intra_only \in BOOLEAN
  /\ thread_count \in ThreadCounts
  /\ slice_states = <<>>
  /\ call = NoCall
  /\ reply = NoReply
  /\ out_frame = <<>>

Submit(input, key) ==
  /\ call = NoCall
  /\ call' = [input |-> input, keyframe |-> key]
  /\ reply' = NoReply
  /\ UNCHANGED <<slice_count, intra_only, thread_count, slice_states, out_frame>>

Return(code, slice) ==
  /\ reply' = [code |-> code, slice |-> slice]
  /\ call' = NoCall
  /\ UNCHANGED <<slice_count, intra_only, thread_count>>

CanEncode ==
  /\ call.input.valid
  /\ call.keyframe \/ (~intra_only /\ slice_states # <<>>)

Failing == {i \in Indexes : call.input.contents[i] = Unencodable}

Refuse ==
  /\ call # NoCall
  /\ ~CanEncode
  /\ \E code \in {"InvalidInput", "IntraOnly", "NoReference"} : Return(code, 0)
  /\ UNCHANGED <<slice_states, out_frame>>

Fail ==
  /\ call # NoCall
  /\ CanEncode
  /\ \E i \in Failing :
       /\ \A j \in Failing : i <= j
       /\ Return("EncodeFailed", i)
  /\ UNCHANGED <<slice_states, out_frame>>

\* A worker thread cannot be started: the call ends with an exception.
Abort ==
  /\ call # NoCall
  /\ CanEncode
  /\ thread_count > 1 /\ slice_count > 1
  /\ Return("Exception", 0)
  /\ UNCHANGED <<slice_states, out_frame>>

From(i) == IF call.keyframe THEN <<>> ELSE slice_states[i]

Flag(i) == IF i # 1 THEN "none" ELSE IF call.keyframe THEN "key" ELSE "nonkey"

Commit ==
  /\ call # NoCall
  /\ CanEncode
  /\ Failing = {}
  /\ out_frame' = [i \in Indexes |->
                     [index |-> i, flag |-> Flag(i), from |-> From(i),
                      body |-> call.input.contents[i]]]
  /\ slice_states' = [i \in Indexes |-> Append(From(i), call.input.contents[i])]
  /\ Return("Ok", 0)

Next ==
  \/ \E input \in Inputs, key \in BOOLEAN : Submit(input, key)
  \/ Refuse
  \/ Fail
  \/ Abort
  \/ Commit

Spec == Init /\ [][Next]_vars
=============================================================================
