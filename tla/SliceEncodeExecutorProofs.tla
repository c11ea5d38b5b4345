--------------------- MODULE SliceEncodeExecutorProofs ---------------------
(***************************************************************************)
(* Theorems about SliceEncodeExecutor, for every stream, every thread      *)
(* count and every slice content.                                          *)
(***************************************************************************)
EXTENDS SliceEncodeExecutor, TLAPS, SequenceTheorems, WellFoundedInduction

\* A non-empty set of naturals has a least element, and First is that element:
\* the index encode() reports exists whenever a slice fails.
LEMMA FirstIsLeast ==
  ASSUME NEW S \in SUBSET Nat, S # {}
  PROVE  First(S) \in S /\ \A j \in S : First(S) <= j
<1>1. PICK x \in S : \A y \in S : ~ (<<y, x>> \in OpToRel(<, Nat))
  BY NatLessThanWellFounded, WFMin
<1>2. ASSUME NEW y \in S, y < x
      PROVE  FALSE
  <2>1. <<y, x>> \in Nat \X Nat
    OBVIOUS
  <2>2. <<y, x>>[1] < <<y, x>>[2]
    BY <1>2
  <2>3. <<y, x>> \in OpToRel(<, Nat)
    BY <2>1, <2>2, Zenon DEF OpToRel
  <2>4. QED
    BY <1>1, <2>3
<1>3. \A y \in S : x <= y
  BY <1>2
<1>4. QED
  BY <1>3 DEF First

(***************************************************************************)
(* append_slices.  Payloads of one element are appended in index order:    *)
(* the function of prefixes exists, and it is the only one there is.       *)
(***************************************************************************)
LEMMA AppendedPayloads ==
  ASSUME slice_count \in Nat, NEW e,
         \A i \in 1..slice_count : slices[i] = <<e[i]>>
  PROVE  Appended = [i \in 1..slice_count |-> e[i]]
<1> DEFINE prefix[n \in 0..slice_count] ==
             IF n = 0 THEN <<>> ELSE prefix[n - 1] \o slices[n]
           first(n) == [i \in 1..n |-> e[i]]
           F == [n \in 0..slice_count |-> first(n)]
           S == {e[i] : i \in 1..slice_count}
<1>1. Appended = prefix[slice_count]
  BY DEF Appended
<1>2. ASSUME NEW n \in 1..slice_count
      PROVE  first(n) = first(n - 1) \o slices[n]
  <2>1. n \in Nat /\ n - 1 \in Nat /\ n \in Int
    OBVIOUS
  <2>2. \A i \in 1..n : i \in 1..slice_count
    OBVIOUS
  <2>3. first(n) \in Seq(S) /\ Len(first(n)) = n
    BY <2>1, <2>2
  <2>4. first(n - 1) \in Seq(S) /\ Len(first(n - 1)) = n - 1
    BY <2>1, <2>2
  <2>5. slices[n] = <<e[n]>> /\ slices[n] \in Seq(S) /\ Len(slices[n]) = 1
    <3>1. slices[n] = <<e[n]>> /\ e[n] \in S
      OBVIOUS
    <3> HIDE DEF S
    <3>2. <<e[n]>> \in Seq(S) /\ Len(<<e[n]>>) = 1
      BY <3>1
    <3>3. QED
      BY <3>1, <3>2
  <2>6. /\ first(n - 1) \o slices[n] \in Seq(S)
        /\ Len(first(n - 1) \o slices[n]) = n
        /\ \A i \in 1..n : (first(n - 1) \o slices[n])[i] =
                             IF i <= n - 1 THEN first(n - 1)[i] ELSE slices[n][i - (n - 1)]
    BY <2>1, <2>4, <2>5, ConcatProperties
  <2>7. \A i \in 1..n : (first(n - 1) \o slices[n])[i] = first(n)[i]
    <3> TAKE i \in 1..n
    <3>1. CASE i <= n - 1
      <4>1. i \in 1..(n - 1)
        BY <2>1, <3>1
      <4>2. first(n - 1)[i] = e[i] /\ first(n)[i] = e[i]
        BY <4>1
      <4> HIDE DEF first
      <4>3. QED
        BY <2>6, <3>1, <4>2
    <3>2. CASE i = n
      <4>1. n - (n - 1) = 1 /\ ~(n <= n - 1)
        BY <2>1
      <4>2. first(n)[n] = e[n] /\ <<e[n]>>[1] = e[n]
        BY <2>1
      <4> HIDE DEF first
      <4>3. QED
        BY <2>5, <2>6, <3>2, <4>1, <4>2
    <3>3. i <= n - 1 \/ i = n
      BY <2>1
    <3>4. QED
      BY <3>1, <3>2, <3>3, Zenon
  <2>8. QED
    BY <2>3, <2>6, <2>7, SeqEqual
<1>3. first(0) = <<>>
  OBVIOUS
<1>4. F = [n \in 0..slice_count |-> IF n = 0 THEN <<>> ELSE F[n - 1] \o slices[n]]
  <2>1. ASSUME NEW n \in 0..slice_count
        PROVE  first(n) = IF n = 0 THEN <<>> ELSE F[n - 1] \o slices[n]
    <3>1. CASE n = 0
      BY <1>3, <3>1
    <3>2. CASE n # 0
      <4>1. n \in 1..slice_count /\ n - 1 \in 0..slice_count
        BY <3>2
      <4>2. F[n - 1] = first(n - 1)
        BY <4>1
      <4>3. QED
        BY <1>2, <3>2, <4>1, <4>2
    <3>3. QED
      BY <3>1, <3>2
  <2> HIDE DEF first
  <2>2. QED
    BY <2>1
<1>5. prefix = [n \in 0..slice_count |->
                  IF n = 0 THEN <<>> ELSE prefix[n - 1] \o slices[n]]
  <2> HIDE DEF F
  <2>1. QED
    BY <1>4
<1> HIDE DEF prefix, first
<1>6. \A n \in 0..slice_count : prefix[n] = F[n]
  <2> DEFINE Differ == {n \in 0..slice_count : prefix[n] # F[n]}
  <2> SUFFICES ASSUME Differ # {} PROVE FALSE
    OBVIOUS
  <2>1. Differ \in SUBSET Nat
    OBVIOUS
  <2>2. First(Differ) \in Differ /\ \A j \in Differ : First(Differ) <= j
    BY <2>1, FirstIsLeast
  <2>3. PICK n \in Differ : \A j \in Differ : n <= j
    BY <2>2
  <2>4. n \in 0..slice_count /\ n # 0
    BY <1>4, <1>5, <2>3
  <2>5. n - 1 \in 0..slice_count /\ n - 1 \notin Differ
    BY <2>3, <2>4
  <2>6. prefix[n - 1] = F[n - 1]
    BY <2>5
  <2>7. prefix[n] = F[n]
    <3>1. prefix[n] = prefix[n - 1] \o slices[n]
      <4> HIDE DEF F, Differ
      <4>1. QED
        BY <1>5, <2>4
    <3>2. F[n] = F[n - 1] \o slices[n]
      <4> HIDE DEF F, Differ
      <4>1. QED
        BY <1>4, <2>4
    <3>3. QED
      BY <2>6, <3>1, <3>2
  <2>8. QED
    BY <2>3, <2>7
<1>7. QED
  BY <1>1, <1>6 DEF first

(***************************************************************************)
(* The inductive invariant, action by action.                              *)
(***************************************************************************)
LEMMA InitInv == Init => IInv
<1> SUFFICES ASSUME Init PROVE IInv
  OBVIOUS
<1> USE DEF Init
<1>1. DOMAIN <<>> = {} /\ Len(<<>>) = 0
  OBVIOUS
<1>2. slice_count \in Nat
  BY EncodeAssumption
<1>3. TypeOK
  BY <1>2, EmptySeq, EncodeAssumption DEF TypeOK, NoReply, Codes
<1>4. FrameInStep
  BY <1>1 DEF FrameInStep
<1>5. CallInv /\ CountInv /\ PhaseInv /\ ResultInv
  BY DEF CallInv, CountInv, PhaseInv, ResultInv, Coding
<1>6. QED
  BY <1>3, <1>4, <1>5 DEF IInv

\* What the fields of a call in progress are.
LEMMA CallFacts ==
  ASSUME TypeOK
  PROVE  /\ slice_count \in 1..MaxSlices /\ slice_count \in Nat \ {0}
         /\ thread_count \in Nat \ {0}
         /\ WorkerCount \in Nat \ {0} /\ BatchEnd \in Nat /\ BatchEnd <= slice_count
         /\ offset < slice_count => offset < BatchEnd
         /\ call # NoCall => /\ call.input \in Inputs /\ call.keyframe \in BOOLEAN
                             /\ \A i \in Indexes :
                                  call.input.contents[i] \in Bodies \cup {Unencodable}
<1>1. slice_count \in 1..MaxSlices /\ slice_count \in Nat \ {0} /\ thread_count \in Nat \ {0}
  BY EncodeAssumption DEF TypeOK
<1>2. WorkerCount \in Nat \ {0}
  BY <1>1 DEF WorkerCount
<1>3. /\ BatchEnd \in Nat /\ BatchEnd <= slice_count
      /\ offset < slice_count => offset < BatchEnd
  <2>1. offset \in Nat
    BY <1>1 DEF TypeOK
  <2>2. QED
    BY <1>1, <1>2, <2>1 DEF BatchEnd
<1>4. call # NoCall => /\ call.input \in Inputs /\ call.keyframe \in BOOLEAN
                       /\ \A i \in Indexes :
                            call.input.contents[i] \in Bodies \cup {Unencodable}
  BY DEF TypeOK, Inputs
<1>5. QED
  BY <1>1, <1>2, <1>3, <1>4

\* What is known while slices are being coded.
LEMMA CodingFacts ==
  ASSUME IInv, Coding
  PROVE  /\ TypeOK /\ call # NoCall
         /\ DOMAIN future = Indexes /\ Len(future) = slice_count
         /\ \A i \in Indexes : future[i] \in {"none", "running", "ok", "failed"}
         /\ working_states \in [Indexes -> History] /\ DOMAIN slices = Indexes
         /\ \A i \in Indexes : Start(i) \in History
<1>1. TypeOK /\ call # NoCall
  BY DEF IInv, CallInv, Coding
<1>2. Len(future) = slice_count /\ working_states \in [Indexes -> History]
  BY DEF IInv, CallInv
<1>3. /\ DOMAIN future = Indexes
      /\ \A i \in Indexes : future[i] \in {"none", "running", "ok", "failed"}
  BY <1>1, <1>2, LenProperties, ElementOfSeq DEF TypeOK, Indexes
<1>4. DOMAIN slices = Indexes
  BY <1>1, <1>2 DEF TypeOK
<1>5. \A i \in Indexes : Start(i) \in History
  <2>1. call.keyframe \/ slice_states # <<>>
    BY DEF IInv, CallInv
  <2>2. slice_states \in [Indexes -> History] \/ call.keyframe
    BY <1>1, <2>1 DEF TypeOK
  <2>3. Fresh \in History
    BY EmptySeq DEF Fresh, History
  <2>4. QED
    BY <2>2, <2>3 DEF Start
<1>6. QED
  BY <1>1, <1>2, <1>3, <1>4, <1>5

\* No worker runs outside the phases that start workers or wait for them.
LEMMA NobodyRuns ==
  ASSUME IInv
  PROVE  NoOrphanWorker
<1> SUFFICES ASSUME NEW i \in Running
             PROVE  pc \in {"launch", "join", "unwind"}
  BY DEF NoOrphanWorker
<1>1. i \in DOMAIN future /\ future[i] = "running"
  BY DEF Running
<1>2. Coding
  <2>1. (~Coding => future = <<>>) /\ DOMAIN <<>> = {}
    BY DEF IInv, CallInv
  <2>2. QED
    BY <1>1, <2>1
<1>3. /\ i \in 1..slice_count /\ slice_count \in Nat
      /\ joined \in Nat /\ launched \in Nat /\ joined <= launched
  <2>1. TypeOK /\ i \in Indexes
    BY <1>1, <1>2, CodingFacts
  <2>2. slice_count \in Nat
    BY <2>1, CallFacts
  <2>3. QED
    BY <1>2, <2>1, <2>2 DEF Indexes, TypeOK, IInv, CountInv
<1>4. launched >= i /\ joined < i
  <2>1. ~(i > launched) /\ ~(i <= joined)
    BY <1>1, <1>2, <1>3 DEF IInv, CountInv, Indexes
  <2>2. QED
    BY <1>3, <2>1
<1>5. pc # "serial" /\ pc # "report"
  <2>1. pc = "serial" => joined = launched
    BY DEF IInv, PhaseInv
  <2>2. pc = "report" => joined = slice_count
    BY DEF IInv, PhaseInv
  <2>3. QED
    BY <1>3, <1>4, <2>1, <2>2
<1>6. QED
  BY <1>2, <1>5 DEF Coding

\* Leaving the call, with or without new reference states, forgets its locals.
LEMMA ReturnInv ==
  ASSUME IInv, Running = {},
         NEW code \in Codes, NEW slice \in 0..MaxSlices, Return(code, slice),
         slice_states' \in {<<>>} \cup [Indexes -> History], FrameInStep'
  PROVE  IInv'
<1>1. /\ reply' = [code |-> code, slice |-> slice] /\ call' = NoCall /\ pc' = "idle"
      /\ working_states' = <<>> /\ slices' = <<>> /\ offset' = 0 /\ launched' = 0
      /\ joined' = 0 /\ UNCHANGED streamVars
      /\ future' = [i \in {} |-> "running"]
  BY DEF Return
<1>2. future' = <<>>
  BY <1>1
<1>3. TypeOK /\ slice_count \in Nat
  BY CallFacts DEF IInv
<1>4. TypeOK'
  <2>1. future' \in Seq({"none", "running", "ok", "failed"})
    BY <1>2, EmptySeq
  <2>2. Indexes' = Indexes /\ slice_count' = slice_count /\ thread_count' = thread_count
        /\ intra_only' = intra_only
    BY <1>1 DEF streamVars, Indexes
  <2>3. QED
    BY <1>1, <1>3, <2>1, <2>2 DEF TypeOK
<1>5. CallInv' /\ CountInv' /\ PhaseInv' /\ ResultInv'
  BY <1>1, <1>2 DEF CallInv, CountInv, PhaseInv, ResultInv, Coding
<1>6. QED
  BY <1>4, <1>5 DEF IInv

LEMMA RefuseInv ==
  ASSUME IInv, Running = {}, NEW code \in Codes, NEW slice \in 0..MaxSlices,
         Refuse(code, slice)
  PROVE  IInv'
<1>1. TypeOK /\ FrameInStep
  BY DEF IInv
<1>2. slice_states' = slice_states /\ out_frame' = out_frame /\ Return(code, slice)
  BY DEF Refuse
<1>3. FrameInStep'
  BY <1>1, <1>2 DEF FrameInStep
<1>4. slice_states' \in {<<>>} \cup [Indexes -> History]
  BY <1>1, <1>2 DEF TypeOK
<1>5. QED
  BY <1>2, <1>3, <1>4, ReturnInv

LEMMA EncodeInv ==
  ASSUME IInv, NEW input \in Inputs, NEW key \in BOOLEAN, Encode(input, key)
  PROVE  IInv'
<1>1. /\ pc = "idle" /\ pc' = "prepare" /\ call' = [input |-> input, keyframe |-> key]
      /\ reply' = NoReply
      /\ UNCHANGED <<streamVars, slice_states, out_frame, working_states, slices,
                     offset, launched, joined, future>>
  BY DEF Encode
<1>2. TypeOK /\ slice_count \in SliceCounts
  BY DEF IInv, TypeOK
<1>3. call' \in [input : Inputs, keyframe : BOOLEAN] /\ call' # NoCall
  <2>1. call' \in [input : Inputs, keyframe : BOOLEAN]
    BY <1>1
  <2>2. QED
    BY <1>2, <2>1, NoCallAssumption DEF Inputs, Indexes
<1>4. Indexes' = Indexes /\ Inputs' = Inputs
  BY <1>1 DEF Indexes, Inputs, streamVars
<1>5. TypeOK'
  <2>1. reply' \in [code : Codes, slice : 0..MaxSlices]
    BY <1>1, EncodeAssumption DEF NoReply, Codes
  <2>2. call' \in [input : Inputs, keyframe : BOOLEAN]'
    BY <1>3, <1>4
  <2>3. QED
    BY <1>1, <1>2, <1>4, <2>1, <2>2 DEF TypeOK, streamVars
<1>6. CallInv'
  BY <1>1, <1>3 DEF IInv, CallInv, Coding
<1>7. CountInv' /\ PhaseInv' /\ ResultInv'
  BY <1>1 DEF CountInv, PhaseInv, ResultInv, Coding
<1>8. FrameInStep'
  BY <1>1 DEF IInv, FrameInStep
<1>9. QED
  BY <1>5, <1>6, <1>7, <1>8 DEF IInv

\* A step that stays within the call keeps everything decided before it.
LEMMA WithinCall ==
  ASSUME IInv, Coding, Coding',
         UNCHANGED <<streamVars, slice_states, call, reply, out_frame>>,
         future' \in Seq({"none", "running", "ok", "failed"}), Len(future') = slice_count,
         working_states' \in [Indexes -> History], DOMAIN slices' = Indexes,
         offset' \in 0..slice_count, launched' \in 0..slice_count, joined' \in 0..slice_count
  PROVE  /\ TypeOK' /\ CallInv' /\ FrameInStep'
         /\ slice_count' = slice_count /\ Indexes' = Indexes /\ WorkerCount' = WorkerCount
         /\ \A i \in Indexes : Start(i)' = Start(i)
<1>1. /\ slice_count' = slice_count /\ Indexes' = Indexes /\ WorkerCount' = WorkerCount
      /\ Inputs' = Inputs /\ thread_count' = thread_count /\ intra_only' = intra_only
  BY DEF streamVars, Indexes, WorkerCount, Inputs
<1>2. \A i \in Indexes : Start(i)' = Start(i)
  BY DEF Start
<1>3. TypeOK'
  <2>1. TypeOK
    BY DEF IInv
  <2>2. /\ call' \in [input : Inputs', keyframe : BOOLEAN] \cup {NoCall}
        /\ slice_states' \in {<<>>} \cup [Indexes' -> History]
        /\ reply' \in [code : Codes, slice : 0..MaxSlices]
    BY <1>1, <2>1 DEF TypeOK
  <2>3. pc' \in {"idle", "prepare", "serial", "launch", "join", "unwind", "report"}
    BY DEF Coding
  <2>4. /\ slice_count' \in SliceCounts /\ thread_count' \in ThreadCounts
        /\ intra_only' \in BOOLEAN
    BY <1>1, <2>1 DEF TypeOK
  <2>5. /\ working_states' \in [Indexes' -> History]
        /\ DOMAIN slices' = DOMAIN working_states'
    BY <1>1
  <2>6. QED
    BY <1>1, <2>2, <2>3, <2>4, <2>5 DEF TypeOK
<1>4. CallInv'
  <2>1. pc' # "idle" /\ call # NoCall
    BY CodingFacts DEF Coding
  <2>2. call.input.valid /\ (call.keyframe \/ (~intra_only /\ slice_states # <<>>))
    BY DEF IInv, CallInv
  <2>3. QED
    BY <1>1, <2>1, <2>2 DEF CallInv
<1>5. FrameInStep'
  BY DEF IInv, FrameInStep
<1>6. QED
  BY <1>1, <1>2, <1>3, <1>4, <1>5

LEMMA PrepareInv ==
  ASSUME IInv, Prepare
  PROVE  IInv'
<1>1. /\ TypeOK /\ FrameInStep /\ pc = "prepare" /\ ~Coding /\ call # NoCall
      /\ Running = {} /\ offset = 0 /\ launched = 0 /\ joined = 0
  BY NobodyRuns DEF IInv, CallInv, Coding, Prepare, NoOrphanWorker
<1>2. 0 \in 0..MaxSlices
  BY EncodeAssumption
<1>3. CASE \/ Refuse("InvalidInput", 0)
           \/ Refuse("IntraOnly", 0)
           \/ Refuse("NoReference", 0)
  BY <1>1, <1>2, <1>3, RefuseInv DEF Codes
<1>4. ASSUME call.input.valid,
             call.keyframe \/ (~intra_only /\ slice_states # <<>>),
             working_states' = [i \in Indexes |-> Start(i)],
             slices' = [i \in Indexes |-> NoPayload],
             future' = [i \in Indexes |-> "none"],
             pc' = IF WorkerCount <= 1 THEN "serial" ELSE "launch",
             UNCHANGED <<streamVars, slice_states, call, reply, out_frame,
                         offset, launched, joined>>
      PROVE  IInv'
  <2>1. /\ slice_count \in Nat \ {0} /\ WorkerCount \in Nat \ {0}
        /\ BatchEnd \in Nat
        /\ offset < slice_count => offset < BatchEnd
    BY <1>1, CallFacts
  <2>2. /\ slice_count' = slice_count /\ Indexes' = Indexes /\ WorkerCount' = WorkerCount
        /\ Inputs' = Inputs /\ thread_count' = thread_count /\ intra_only' = intra_only
        /\ BatchEnd' = BatchEnd /\ \A i \in Indexes : Start(i)' = Start(i)
    BY <1>4 DEF streamVars, Indexes, WorkerCount, Inputs, BatchEnd, Start
  <2>3. \A i \in Indexes : Start(i) \in History
    <3>1. slice_states \in [Indexes -> History] \/ call.keyframe
      BY <1>1, <1>4 DEF TypeOK
    <3>2. Fresh \in History
      BY EmptySeq DEF Fresh, History
    <3>3. QED
      BY <3>1, <3>2 DEF Start
  <2>4. /\ working_states' \in [Indexes -> History] /\ DOMAIN slices' = Indexes
        /\ \A i \in Indexes : working_states'[i] = Start(i) /\ future'[i] = "none"
    BY <1>4, <2>3
  <2>5. future' \in Seq({"none", "running", "ok", "failed"}) /\ Len(future') = slice_count
    BY <1>4, <2>1 DEF Indexes
  <2>6. /\ pc' \in {"serial", "launch"} /\ Coding'
        /\ offset' = 0 /\ launched' = 0 /\ joined' = 0
    BY <1>1, <1>4 DEF Coding
  <2>7. TypeOK'
    <3>1. /\ call' \in [input : Inputs', keyframe : BOOLEAN] \cup {NoCall}
          /\ slice_states' \in {<<>>} \cup [Indexes' -> History]
          /\ reply' \in [code : Codes, slice : 0..MaxSlices]
          /\ slice_count' \in SliceCounts /\ thread_count' \in ThreadCounts
          /\ intra_only' \in BOOLEAN
      BY <1>1, <1>4, <2>2 DEF TypeOK
    <3>2. /\ working_states' \in [Indexes' -> History]
          /\ DOMAIN slices' = DOMAIN working_states'
      BY <2>2, <2>4
    <3>3. offset' \in 0..slice_count' /\ launched' \in 0..slice_count' /\ joined' \in 0..slice_count'
      BY <2>1, <2>2, <2>6
    <3>4. pc' \in {"idle", "prepare", "serial", "launch", "join", "unwind", "report"}
      BY <2>6
    <3>5. QED
      BY <2>5, <3>1, <3>2, <3>3, <3>4 DEF TypeOK
  <2>8. CallInv'
    BY <1>1, <1>4, <2>2, <2>4, <2>5, <2>6 DEF CallInv
  <2>9. CountInv'
    BY <2>1, <2>2, <2>4, <2>6 DEF CountInv, Indexes
  <2>10. PhaseInv'
    <3>1. 0 < BatchEnd /\ 0 < slice_count
      BY <1>1, <2>1
    <3>2. pc' = "launch" => WorkerCount > 1
      BY <1>4, <2>1
    <3>3. QED
      BY <2>1, <2>2, <2>6, <3>1, <3>2 DEF PhaseInv
  <2>11. ResultInv'
    BY <2>2, <2>4 DEF ResultInv
  <2>12. FrameInStep'
    BY <1>1, <1>4 DEF FrameInStep
  <2>13. QED
    BY <2>7, <2>8, <2>9, <2>10, <2>11, <2>12 DEF IInv
<1>5. QED
  BY <1>3, <1>4 DEF Prepare

\* The coding of one slice ends that slice, and touches no other slice.
LEMMA EncodeEffect ==
  ASSUME IInv, Coding, NEW i \in Indexes, future[i] \in {"none", "running"},
         EncodeSlice(i), UNCHANGED <<streamVars, slice_states, call>>
  PROVE  /\ future' \in Seq({"none", "running", "ok", "failed"})
         /\ Len(future') = slice_count
         /\ working_states' \in [Indexes -> History] /\ DOMAIN slices' = Indexes
         /\ future'[i] \in {"ok", "failed"}
         /\ \A j \in Indexes : j # i => future'[j] = future[j]
         /\ ResultInv'
<1> DEFINE body == call.input.contents[i]
<1>1. /\ TypeOK /\ call # NoCall /\ DOMAIN future = Indexes /\ Len(future) = slice_count
      /\ working_states \in [Indexes -> History] /\ DOMAIN slices = Indexes
      /\ \A j \in Indexes : Start(j) \in History
  BY CodingFacts
<1>2. /\ slice_count \in Nat /\ body \in Bodies \cup {Unencodable}
  BY <1>1, CallFacts
<1>3. working_states[i] = Start(i)
  BY DEF IInv, ResultInv
<1>4. /\ future' = [future EXCEPT ![i] = IF body # Unencodable THEN "ok" ELSE "failed"]
      /\ working_states' = [working_states EXCEPT
                              ![i] = IF body # Unencodable THEN Append(@, body) ELSE @]
      /\ slices' = [slices EXCEPT
                      ![i] = IF body # Unencodable
                             THEN Payload(i, call.keyframe, working_states[i], body) ELSE @]
  BY DEF EncodeSlice
<1>5. /\ future' \in Seq({"none", "running", "ok", "failed"})
      /\ Len(future') = slice_count
      /\ future'[i] = IF body # Unencodable THEN "ok" ELSE "failed"
      /\ \A j \in Indexes : j # i => future'[j] = future[j]
  <2>1. future \in Seq({"none", "running", "ok", "failed"}) /\ i \in 1..Len(future)
    BY <1>1 DEF TypeOK, Indexes
  <2>2. (IF body # Unencodable THEN "ok" ELSE "failed") \in {"none", "running", "ok", "failed"}
    OBVIOUS
  <2>3. QED
    BY <1>1, <1>4, <2>1, <2>2, ExceptSeq DEF Indexes
<1>6. /\ working_states' \in [Indexes -> History]
      /\ working_states'[i] = IF body # Unencodable THEN Append(Start(i), body) ELSE Start(i)
      /\ \A j \in Indexes : j # i => working_states'[j] = working_states[j]
  <2>1. body # Unencodable => Append(Start(i), body) \in History
    BY <1>1, <1>2, AppendProperties DEF History
  <2> HIDE DEF body
  <2>2. (IF body # Unencodable THEN Append(Start(i), body) ELSE Start(i)) \in History
    BY <1>1, <2>1
  <2>3. QED
    BY <1>1, <1>3, <1>4, <2>2
<1>7. /\ DOMAIN slices' = Indexes
      /\ body # Unencodable => slices'[i] = Payload(i, call.keyframe, Start(i), body)
      /\ \A j \in Indexes : j # i => slices'[j] = slices[j]
  BY <1>1, <1>3, <1>4
<1>8. ResultInv'
  <2>1. Indexes' = Indexes /\ call' = call /\ \A j \in Indexes : Start(j)' = Start(j)
    BY DEF Indexes, Start, streamVars
  <2>2. ASSUME NEW j \in Indexes
        PROVE  LET b == call.input.contents[j]
               IN /\ future'[j] \in {"none", "running"} => working_states'[j] = Start(j)
                  /\ future'[j] = "ok" =>
                       /\ b # Unencodable
                       /\ working_states'[j] = Append(Start(j), b)
                       /\ slices'[j] = Payload(j, call.keyframe, Start(j), b)
                  /\ future'[j] = "failed" => b = Unencodable
    <3>1. CASE j = i
      BY <1>5, <1>6, <1>7, <3>1
    <3>2. CASE j # i
      BY <1>5, <1>6, <1>7, <3>2 DEF IInv, ResultInv
    <3>3. QED
      BY <3>1, <3>2
  <2>3. QED
    BY <2>1, <2>2 DEF ResultInv
<1>9. QED
  BY <1>5, <1>6, <1>7, <1>8

LEMMA SerialEncodeInv ==
  ASSUME IInv, SerialEncode
  PROVE  IInv'
<1> DEFINE i == joined + 1
<1>1. /\ pc = "serial" /\ Coding /\ Coding'
      /\ pc' = IF i < slice_count THEN "serial" ELSE "report"
      /\ launched' = i /\ joined' = i /\ offset' = offset
      /\ UNCHANGED <<streamVars, slice_states, call, reply, out_frame>>
      /\ EncodeSlice(i)
  BY DEF SerialEncode, Coding
<1>2. /\ slice_count \in Nat \ {0} /\ joined \in 0..slice_count
      /\ launched = joined /\ joined < slice_count
      /\ offset \in 0..slice_count /\ offset <= joined
      /\ \A j \in Indexes : future[j] = "none" <=> j > joined
      /\ \A j \in Indexes : j <= joined => future[j] # "running"
  BY <1>1, CodingFacts, CallFacts DEF IInv, PhaseInv, CountInv, TypeOK
<1>3. i \in Indexes /\ i \in 0..slice_count /\ future[i] = "none"
  BY <1>2 DEF Indexes
<1>4. /\ future' \in Seq({"none", "running", "ok", "failed"})
      /\ Len(future') = slice_count
      /\ working_states' \in [Indexes -> History] /\ DOMAIN slices' = Indexes
      /\ future'[i] \in {"ok", "failed"}
      /\ \A j \in Indexes : j # i => future'[j] = future[j]
      /\ ResultInv'
  BY <1>1, <1>3, EncodeEffect
<1>5. /\ TypeOK' /\ CallInv' /\ FrameInStep'
      /\ slice_count' = slice_count /\ Indexes' = Indexes
  BY <1>1, <1>2, <1>3, <1>4, WithinCall
<1>6. CountInv'
  <2>1. \A j \in Indexes : future'[j] = "none" <=> j > i
    BY <1>2, <1>3, <1>4 DEF Indexes
  <2>2. \A j \in Indexes : j <= i => future'[j] # "running"
    BY <1>2, <1>3, <1>4 DEF Indexes
  <2>3. offset' <= joined' /\ joined' <= launched'
    BY <1>1, <1>2
  <2>4. QED
    BY <1>1, <1>5, <2>1, <2>2, <2>3 DEF CountInv
<1>7. PhaseInv'
  BY <1>1, <1>2, <1>5 DEF PhaseInv
<1>8. QED
  BY <1>4, <1>5, <1>6, <1>7 DEF IInv

LEMMA LaunchWorkerInv ==
  ASSUME IInv, LaunchWorker
  PROVE  IInv'
<1> DEFINE i == launched + 1
<1>1. /\ pc = "launch" /\ Coding /\ Coding'
      /\ future' = [future EXCEPT ![i] = "running"]
      /\ launched' = i
      /\ pc' = IF i < BatchEnd THEN "launch" ELSE "join"
      /\ UNCHANGED <<streamVars, slice_states, call, reply, out_frame,
                     working_states, slices, offset, joined>>
  BY DEF LaunchWorker, Coding
<1>2. /\ TypeOK /\ slice_count \in Nat \ {0} /\ Len(future) = slice_count
      /\ working_states \in [Indexes -> History] /\ DOMAIN slices = Indexes
      /\ BatchEnd \in Nat /\ BatchEnd <= slice_count
      /\ offset \in 0..slice_count /\ launched \in 0..slice_count
      /\ joined \in 0..slice_count
      /\ offset = joined /\ joined <= launched /\ launched < BatchEnd /\ WorkerCount > 1
      /\ \A j \in Indexes : future[j] = "none" <=> j > launched
      /\ \A j \in Indexes : j <= joined => future[j] # "running"
  BY <1>1, CodingFacts, CallFacts DEF IInv, PhaseInv, CountInv, TypeOK
<1>3. i \in Indexes /\ i \in 0..slice_count /\ future[i] = "none"
  BY <1>2 DEF Indexes
<1>4. /\ future' \in Seq({"none", "running", "ok", "failed"}) /\ Len(future') = slice_count
      /\ future'[i] = "running"
      /\ \A j \in Indexes : j # i => future'[j] = future[j]
  BY <1>1, <1>2, <1>3, ExceptSeq DEF TypeOK, Indexes
<1>5. /\ TypeOK' /\ CallInv' /\ FrameInStep'
      /\ slice_count' = slice_count /\ Indexes' = Indexes /\ WorkerCount' = WorkerCount
      /\ \A j \in Indexes : Start(j)' = Start(j)
  BY <1>1, <1>2, <1>3, <1>4, WithinCall
<1>6. BatchEnd' = BatchEnd
  BY <1>1, <1>5 DEF BatchEnd
<1>7. CountInv'
  <2>1. \A j \in Indexes : future'[j] = "none" <=> j > i
    BY <1>2, <1>3, <1>4 DEF Indexes
  <2>2. \A j \in Indexes : j <= joined => future'[j] # "running"
    BY <1>2, <1>3, <1>4 DEF Indexes
  <2>3. offset <= joined /\ joined <= i
    BY <1>2
  <2>4. QED
    BY <1>1, <1>5, <2>1, <2>2, <2>3 DEF CountInv
<1>8. PhaseInv'
  BY <1>1, <1>2, <1>5, <1>6 DEF PhaseInv
<1>9. ResultInv'
  BY <1>1, <1>3, <1>4, <1>5 DEF IInv, ResultInv
<1>10. QED
  BY <1>5, <1>7, <1>8, <1>9 DEF IInv

LEMMA LaunchFailsInv ==
  ASSUME IInv, LaunchFails
  PROVE  IInv'
<1>1. /\ pc = "launch" /\ pc' = "unwind" /\ Coding /\ Coding'
      /\ UNCHANGED <<streamVars, slice_states, call, reply, out_frame,
                     working_states, slices, offset, launched, joined, future>>
  BY DEF LaunchFails, Coding
<1>2. /\ TypeOK /\ Len(future) = slice_count
      /\ working_states \in [Indexes -> History] /\ DOMAIN slices = Indexes
      /\ BatchEnd \in Nat /\ launched \in Nat /\ launched < BatchEnd /\ WorkerCount > 1
  BY <1>1, CodingFacts, CallFacts DEF IInv, PhaseInv, TypeOK
<1>3. /\ TypeOK' /\ CallInv' /\ FrameInStep'
      /\ slice_count' = slice_count /\ Indexes' = Indexes /\ WorkerCount' = WorkerCount
      /\ \A j \in Indexes : Start(j)' = Start(j)
  BY <1>1, <1>2, WithinCall DEF TypeOK
<1>4. BatchEnd' = BatchEnd
  BY <1>1, <1>3 DEF BatchEnd
<1>5. CountInv' /\ ResultInv'
  BY <1>1, <1>3 DEF IInv, CountInv, ResultInv
<1>6. PhaseInv'
  BY <1>1, <1>2, <1>3, <1>4 DEF PhaseInv
<1>7. QED
  BY <1>3, <1>5, <1>6 DEF IInv

LEMMA UnwindInv ==
  ASSUME IInv, Unwind
  PROVE  IInv'
<1>1. 0 \in 0..MaxSlices
  BY EncodeAssumption
<1>2. QED
  BY <1>1, RefuseInv DEF Unwind, Codes

LEMMA WorkerInv ==
  ASSUME IInv, NEW i \in DOMAIN future, Worker(i)
  PROVE  IInv'
<1>1. /\ i \in DOMAIN future /\ future[i] = "running" /\ EncodeSlice(i)
      /\ UNCHANGED <<streamVars, slice_states, call, reply, out_frame, pc,
                     offset, launched, joined>>
  BY DEF Worker, Running
<1>2. pc \in {"launch", "join", "unwind"} /\ Coding /\ Coding'
  BY <1>1, NobodyRuns DEF NoOrphanWorker, Running, Coding
<1>3. /\ TypeOK /\ i \in Indexes /\ slice_count \in Nat
  BY <1>1, <1>2, CodingFacts, CallFacts
<1>4. /\ future' \in Seq({"none", "running", "ok", "failed"})
      /\ Len(future') = slice_count
      /\ working_states' \in [Indexes -> History] /\ DOMAIN slices' = Indexes
      /\ future'[i] \in {"ok", "failed"}
      /\ \A j \in Indexes : j # i => future'[j] = future[j]
      /\ ResultInv'
  BY <1>1, <1>2, <1>3, EncodeEffect
<1>5. /\ TypeOK' /\ CallInv' /\ FrameInStep'
      /\ slice_count' = slice_count /\ Indexes' = Indexes /\ WorkerCount' = WorkerCount
  BY <1>1, <1>2, <1>3, <1>4, WithinCall DEF TypeOK
<1>6. BatchEnd' = BatchEnd
  BY <1>1, <1>5 DEF BatchEnd
<1>7. CountInv'
  BY <1>1, <1>2, <1>3, <1>4, <1>5 DEF IInv, CountInv
<1>8. PhaseInv'
  BY <1>1, <1>2, <1>5, <1>6 DEF IInv, PhaseInv
<1>9. QED
  BY <1>4, <1>5, <1>7, <1>8 DEF IInv

LEMMA JoinInv ==
  ASSUME IInv, Join
  PROVE  IInv'
<1> DEFINE i == joined + 1
<1>1. /\ pc = "join" /\ Coding /\ Coding' /\ future[i] # "running"
      /\ joined' = i
      /\ offset' = IF i < BatchEnd THEN offset ELSE BatchEnd
      /\ pc' = IF i < BatchEnd THEN "join"
               ELSE IF BatchEnd < slice_count THEN "launch" ELSE "report"
      /\ UNCHANGED <<streamVars, slice_states, call, reply, out_frame,
                     working_states, slices, launched, future>>
  BY DEF Join, Coding
<1>2. /\ TypeOK /\ slice_count \in Nat \ {0} /\ Len(future) = slice_count
      /\ working_states \in [Indexes -> History] /\ DOMAIN slices = Indexes
      /\ WorkerCount \in Nat \ {0} /\ BatchEnd \in Nat /\ BatchEnd <= slice_count
      /\ offset \in 0..slice_count /\ launched \in 0..slice_count
      /\ joined \in 0..slice_count
      /\ joined < BatchEnd /\ launched = BatchEnd /\ WorkerCount > 1
      /\ offset <= joined
      /\ \A j \in Indexes : future[j] = "none" <=> j > launched
      /\ \A j \in Indexes : j <= joined => future[j] # "running"
  BY <1>1, CodingFacts, CallFacts DEF IInv, PhaseInv, CountInv, TypeOK
<1>3. /\ i \in 0..slice_count /\ i \in Indexes /\ i <= BatchEnd
      /\ offset' \in 0..slice_count /\ offset' <= i
  BY <1>1, <1>2 DEF Indexes
<1>4. /\ TypeOK' /\ CallInv' /\ FrameInStep'
      /\ slice_count' = slice_count /\ Indexes' = Indexes /\ WorkerCount' = WorkerCount
      /\ \A j \in Indexes : Start(j)' = Start(j)
  BY <1>1, <1>2, <1>3, WithinCall DEF TypeOK
<1>5. CountInv'
  <2>1. \A j \in Indexes : j <= i => future[j] # "running"
    BY <1>1, <1>2 DEF Indexes
  <2>2. i <= launched
    BY <1>2
  <2>3. QED
    BY <1>1, <1>2, <1>3, <1>4, <2>1, <2>2 DEF CountInv
<1>6. ResultInv'
  BY <1>1, <1>4 DEF IInv, ResultInv
<1>7. PhaseInv'
  <2>1. CASE i < BatchEnd
    <3>1. BatchEnd' = BatchEnd
      BY <1>1, <1>4, <2>1 DEF BatchEnd
    <3>2. QED
      BY <1>1, <1>2, <1>3, <1>4, <2>1, <3>1 DEF PhaseInv
  <2>2. CASE i = BatchEnd /\ BatchEnd < slice_count
    <3>1. BatchEnd' \in Nat /\ BatchEnd < BatchEnd'
      BY <1>1, <1>2, <1>4, <2>2 DEF BatchEnd
    <3>2. QED
      BY <1>1, <1>2, <1>3, <1>4, <2>2, <3>1 DEF PhaseInv
  <2>3. CASE i = BatchEnd /\ BatchEnd = slice_count
    BY <1>1, <1>2, <1>3, <1>4, <2>3 DEF PhaseInv
  <2>4. i < BatchEnd \/ i = BatchEnd
    BY <1>2, <1>3
  <2>5. BatchEnd < slice_count \/ BatchEnd = slice_count
    BY <1>2
  <2>6. QED
    BY <2>1, <2>2, <2>3, <2>4, <2>5, Zenon
<1>8. QED
  BY <1>4, <1>5, <1>6, <1>7 DEF IInv

\* The payload append_slices places for a slice that was coded.
Element(i) ==
  [index |-> i,
   flag |-> IF i = 1 THEN IF call.keyframe THEN "key" ELSE "nonkey" ELSE "none",
   from |-> Start(i),
   body |-> call.input.contents[i]]

\* Once every status is collected, the failures are exactly the slices that cannot
\* be coded, and without one every state and payload is that of its own slice.
LEMMA Outcomes ==
  ASSUME IInv, pc = "report"
  PROVE  /\ Failed = {i \in Indexes : call.input.contents[i] = Unencodable}
         /\ Failed = {} =>
              /\ working_states =
                   [i \in Indexes |-> Append(Start(i), call.input.contents[i])]
              /\ Appended = [i \in Indexes |-> Element(i)]
<1>1. /\ Coding /\ TypeOK /\ DOMAIN future = Indexes /\ joined = slice_count
      /\ working_states \in [Indexes -> History] /\ DOMAIN slices = Indexes
      /\ slice_count \in Nat /\ joined <= launched /\ launched \in Nat
      /\ \A i \in Indexes : future[i] \in {"none", "running", "ok", "failed"}
  BY CodingFacts, CallFacts DEF Coding, IInv, PhaseInv, CountInv, TypeOK
<1>2. \A i \in Indexes : future[i] \in {"ok", "failed"}
  <2> TAKE i \in Indexes
  <2>1. i <= joined /\ ~(i > launched)
    BY <1>1 DEF Indexes
  <2>2. future[i] # "running" /\ future[i] # "none"
    BY <1>1, <2>1 DEF IInv, CountInv
  <2>3. QED
    BY <1>1, <2>2
<1>3. ASSUME NEW i \in Indexes
      PROVE  /\ future[i] = "ok" =>
                  /\ call.input.contents[i] # Unencodable
                  /\ working_states[i] = Append(Start(i), call.input.contents[i])
                  /\ slices[i] = <<Element(i)>>
             /\ future[i] = "failed" => call.input.contents[i] = Unencodable
  BY <1>1 DEF IInv, ResultInv, Payload, Element
<1>4. Failed = {i \in Indexes : call.input.contents[i] = Unencodable}
  BY <1>1, <1>2, <1>3 DEF Failed
<1>5. ASSUME Failed = {}
      PROVE  /\ working_states =
                  [i \in Indexes |-> Append(Start(i), call.input.contents[i])]
             /\ Appended = [i \in Indexes |-> Element(i)]
  <2>1. \A i \in Indexes : future[i] = "ok"
    BY <1>1, <1>2, <1>5 DEF Failed
  <2>2. working_states = [i \in Indexes |-> Append(Start(i), call.input.contents[i])]
    BY <1>1, <1>3, <2>1
  <2> DEFINE e == [i \in Indexes |-> Element(i)]
  <2>3. \A i \in 1..slice_count : slices[i] = <<e[i]>>
    BY <1>3, <2>1 DEF Indexes
  <2>4. Appended = [i \in 1..slice_count |-> e[i]]
    <3> HIDE DEF e
    <3>1. QED
      BY <1>1, <2>3, AppendedPayloads
  <2>5. QED
    BY <2>2, <2>4 DEF Indexes
<1>6. QED
  BY <1>4, <1>5

LEMMA ReportInv ==
  ASSUME IInv, Report
  PROVE  IInv'
<1>1. /\ pc = "report" /\ Coding /\ Running = {} /\ TypeOK /\ call # NoCall
      /\ slice_count \in 1..MaxSlices /\ slice_count \in Nat
      /\ \A i \in Indexes : Start(i) \in History
  BY NobodyRuns, CodingFacts, CallFacts DEF Report, Coding, NoOrphanWorker
<1>2. 0 \in 0..MaxSlices /\ MaxSlices \in Nat
  BY EncodeAssumption
<1>3. CASE Failed # {} /\ Refuse("EncodeFailed", First(Failed))
  <2>1. Failed \subseteq Indexes
    BY <1>1, Outcomes
  <2>2. First(Failed) \in Failed
    BY <1>1, <1>3, <2>1, FirstIsLeast DEF Indexes
  <2>3. First(Failed) \in 0..MaxSlices
    <3> DEFINE f == First(Failed)
    <3>1. f \in 1..slice_count
      BY <2>1, <2>2 DEF Indexes
    <3> HIDE DEF f
    <3>2. f \in 0..MaxSlices
      BY <1>1, <1>2, <3>1
    <3>3. QED
      BY <3>2 DEF f
  <2>4. QED
    BY <1>1, <1>3, <2>3, RefuseInv DEF Codes
<1>4. CASE /\ Failed = {}
           /\ out_frame' = Appended
           /\ slice_states' = working_states
           /\ Return("Ok", 0)
  <2>1. /\ slice_states' = [i \in Indexes |-> Append(Start(i), call.input.contents[i])]
        /\ out_frame' = [i \in Indexes |-> Element(i)]
        /\ slice_states' \in [Indexes -> History]
    BY <1>1, <1>4, CodingFacts, Outcomes
  <2>2. Len(slice_states') = slice_count /\ Len(out_frame') = slice_count
    BY <1>1, <2>1 DEF Indexes
  <2>3. \A i \in Indexes : /\ Element(i).index = i
                           /\ Append(Element(i).from, Element(i).body) = slice_states'[i]
    BY <2>1 DEF Element
  <2>4. FrameInStep'
    BY <2>1, <2>2, <2>3 DEF FrameInStep
  <2>5. QED
    BY <1>1, <1>2, <1>4, <2>1, <2>4, ReturnInv DEF Codes
<1>5. QED
  BY <1>3, <1>4 DEF Report

\* Nothing of the invariant depends on more than the variables.
LEMMA StutterInv ==
  ASSUME IInv, UNCHANGED vars
  PROVE  IInv'
<1> USE DEF vars, callVars, streamVars
<1>1. TypeOK' /\ FrameInStep'
  BY DEF IInv, TypeOK, FrameInStep, Indexes, Inputs
<1>2. CallInv'
  BY DEF IInv, CallInv, Coding, Indexes
<1>3. CountInv'
  BY DEF IInv, CountInv, Coding, Indexes
<1>4. PhaseInv'
  BY DEF IInv, PhaseInv, BatchEnd, WorkerCount
<1>5. ResultInv'
  BY DEF IInv, ResultInv, Coding, Indexes, Start
<1>6. QED
  BY <1>1, <1>2, <1>3, <1>4, <1>5 DEF IInv

LEMMA Invariance == Spec => []IInv
<1>1. IInv /\ [Next]_vars => IInv'
  <2> SUFFICES ASSUME IInv, [Next]_vars PROVE IInv'
    OBVIOUS
  <2>1. ASSUME NEW input \in Inputs, NEW key \in BOOLEAN, Encode(input, key)
        PROVE  IInv'
    BY <2>1, EncodeInv
  <2>2. CASE CallingThread
    BY <2>2, PrepareInv, SerialEncodeInv, LaunchWorkerInv, UnwindInv, JoinInv, ReportInv
    DEF CallingThread
  <2>3. CASE LaunchFails
    BY <2>3, LaunchFailsInv
  <2>4. ASSUME NEW i \in DOMAIN future, Worker(i)
        PROVE  IInv'
    BY <2>4, WorkerInv
  <2>5. CASE UNCHANGED vars
    BY <2>5, StutterInv
  <2>6. QED
    BY <2>1, <2>2, <2>3, <2>4, <2>5 DEF Next
<1>2. QED
  BY InitInv, <1>1, PTL DEF Spec

(***************************************************************************)
(* What a caller of SliceEncodeExecutor::encode relies on.                 *)
(***************************************************************************)

\* Every variable keeps its type: the counters stay within the slices of the
\* stream, and only histories of coded bodies become reference states.
THEOREM TypeCorrect == Spec => []TypeOK
<1>1. IInv => TypeOK
  BY DEF IInv
<1>2. QED
  BY <1>1, Invariance, PTL

\* No worker that refers to the locals of encode() outlives the phases that start
\* workers and wait for them, also when a later one could not be started.
THEOREM NoWorkerOutlivesCall == Spec => []NoOrphanWorker
<1>1. QED
  BY Invariance, NobodyRuns, PTL

\* The reference states slice_states_ always are those a decoder reaches with the
\* frame the caller holds, whichever calls failed since it was delivered.
THEOREM StatesFollowFrame == Spec => []FrameInStep
<1>1. IInv => FrameInStep
  BY DEF IInv
<1>2. QED
  BY <1>1, Invariance, PTL

(***************************************************************************)
(* Refinement: the executor implements AtomicEncodeExecutor.               *)
(***************************************************************************)

\* What a call may assume once its slices are being coded.
LEMMA CanEncodeWhileCoding ==
  ASSUME IInv, Coding
  PROVE  /\ Atomic!CanEncode /\ call # NoCall
         /\ Atomic!Failing = {i \in Indexes : call.input.contents[i] = Unencodable}
         /\ \A i \in Indexes : Atomic!From(i) = Start(i)
<1>1. Atomic!Indexes = Indexes
  BY DEF Atomic!Indexes, Indexes
<1>2. QED
  BY <1>1, CodingFacts
  DEF IInv, CallInv, Atomic!CanEncode, Atomic!Failing, Atomic!From, Start, Fresh

LEMMA PrepareRefines ==
  ASSUME IInv, Prepare
  PROVE  Atomic!Refuse \/ UNCHANGED Atomic!vars
<1>1. call # NoCall
  BY DEF IInv, CallInv, Prepare
<1>2. ASSUME NEW code \in {"InvalidInput", "IntraOnly", "NoReference"}, Refuse(code, 0),
             ~Atomic!CanEncode
      PROVE  Atomic!Refuse
  <2>1. Atomic!Return(code, 0) /\ UNCHANGED <<slice_states, out_frame>>
    BY <1>2 DEF Refuse, Return, Atomic!Return, streamVars
  <2>2. QED
    BY <1>1, <1>2, <2>1 DEF Atomic!Refuse
<1>3. CASE ~call.input.valid /\ Refuse("InvalidInput", 0)
  BY <1>2, <1>3 DEF Atomic!CanEncode
<1>4. CASE ~call.keyframe /\ intra_only /\ Refuse("IntraOnly", 0)
  BY <1>2, <1>4 DEF Atomic!CanEncode
<1>5. CASE ~call.keyframe /\ slice_states = <<>> /\ Refuse("NoReference", 0)
  BY <1>2, <1>5 DEF Atomic!CanEncode
<1>6. CASE UNCHANGED <<streamVars, slice_states, call, reply, out_frame>>
  BY <1>6 DEF Atomic!vars, streamVars
<1>7. QED
  BY <1>3, <1>4, <1>5, <1>6 DEF Prepare

LEMMA ReportRefines ==
  ASSUME IInv, Report
  PROVE  Atomic!Fail \/ Atomic!Commit
<1>1. /\ pc = "report" /\ Coding /\ Atomic!CanEncode /\ call # NoCall
      /\ slice_count \in Nat
      /\ Atomic!Failing = {i \in Indexes : call.input.contents[i] = Unencodable}
      /\ \A i \in Indexes : Atomic!From(i) = Start(i)
  BY CanEncodeWhileCoding, CodingFacts, CallFacts DEF Report, Coding
<1>2. Atomic!Failing = Failed /\ Failed \subseteq Indexes
  BY <1>1, Outcomes
<1>3. CASE Failed # {} /\ Refuse("EncodeFailed", First(Failed))
  <2>1. First(Failed) \in Failed /\ \A j \in Failed : First(Failed) <= j
    BY <1>1, <1>2, <1>3, FirstIsLeast DEF Indexes
  <2>2. /\ Atomic!Return("EncodeFailed", First(Failed))
        /\ UNCHANGED <<slice_states, out_frame>>
    BY <1>3 DEF Refuse, Return, Atomic!Return, streamVars
  <2>3. QED
    BY <1>1, <1>2, <2>1, <2>2 DEF Atomic!Fail
<1>4. CASE /\ Failed = {}
           /\ out_frame' = Appended
           /\ slice_states' = working_states
           /\ Return("Ok", 0)
  <2>1. Atomic!Indexes = Indexes
    BY DEF Atomic!Indexes, Indexes
  <2>2. slice_states' =
          [i \in Atomic!Indexes |-> Append(Atomic!From(i), call.input.contents[i])]
    BY <1>1, <1>4, <2>1, Outcomes
  <2>3. \A i \in Indexes :
          Element(i) = [index |-> i, flag |-> Atomic!Flag(i), from |-> Atomic!From(i),
                        body |-> call.input.contents[i]]
    BY <1>1 DEF Element, Atomic!Flag
  <2>4. out_frame' =
          [i \in Atomic!Indexes |->
             [index |-> i, flag |-> Atomic!Flag(i), from |-> Atomic!From(i),
              body |-> call.input.contents[i]]]
    BY <1>1, <1>4, <2>1, <2>3, Outcomes
  <2>5. Atomic!Return("Ok", 0)
    BY <1>4 DEF Return, Atomic!Return, streamVars
  <2>6. QED
    BY <1>1, <1>2, <1>4, <2>2, <2>4, <2>5 DEF Atomic!Commit
<1>5. QED
  BY <1>3, <1>4 DEF Report

\* Threads, batches and joins are invisible to the encoder, in the status, in the
\* bytes and in the reference states.
THEOREM Refinement == Spec => ImplementsAtomic
<1>1. Init => Atomic!Init
  BY DEF Init, Atomic!Init, NoReply, Atomic!NoReply
<1>2. IInv /\ [Next]_vars => [Atomic!Next]_(Atomic!vars)
  <2> SUFFICES ASSUME IInv, [Next]_vars
               PROVE  Atomic!Next \/ UNCHANGED Atomic!vars
    OBVIOUS
  <2>1. ASSUME NEW input \in Inputs, NEW key \in BOOLEAN, Encode(input, key)
        PROVE  Atomic!Next
    <3>1. call = NoCall /\ Atomic!Inputs = Inputs
      BY <2>1 DEF IInv, CallInv, Encode, Atomic!Inputs, Inputs, Atomic!Indexes, Indexes
    <3>2. Atomic!Submit(input, key)
      BY <2>1, <3>1 DEF Encode, Atomic!Submit, NoReply, Atomic!NoReply, streamVars
    <3>3. QED
      BY <3>1, <3>2 DEF Atomic!Next
  <2>2. ASSUME Unwind
        PROVE  Atomic!Abort
    <3>1. Coding /\ TypeOK /\ WorkerCount > 1
      BY <2>2 DEF Unwind, Coding, IInv, PhaseInv
    <3>2. thread_count > 1 /\ slice_count > 1
      <4>1. slice_count \in Nat /\ thread_count \in Nat
        BY <3>1, CallFacts
      <4>2. QED
        BY <3>1, <4>1 DEF WorkerCount
    <3>3. Atomic!CanEncode /\ call # NoCall
      BY <3>1, CanEncodeWhileCoding
    <3>4. QED
      BY <2>2, <3>2, <3>3
      DEF Unwind, Refuse, Return, Atomic!Abort, Atomic!Return, streamVars
  <2>3. CASE \/ SerialEncode \/ LaunchWorker \/ LaunchFails \/ Join \/ UNCHANGED vars
             \/ \E i \in DOMAIN future : Worker(i)
    BY <2>3
    DEF SerialEncode, LaunchWorker, LaunchFails, Join, Worker, vars, Atomic!vars, streamVars
  <2>4. QED
    BY <2>1, <2>2, <2>3, PrepareRefines, ReportRefines
    DEF Next, CallingThread, Atomic!Next
<1>3. QED
  BY <1>1, <1>2, Invariance, PTL DEF Spec, ImplementsAtomic, Atomic!Spec
=============================================================================
