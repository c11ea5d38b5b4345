------------------------- MODULE SliceExecutorProofs -------------------------
(***************************************************************************)
(* Theorems about SliceExecutor, for every set of frames, every thread     *)
(* count and every slice grid.                                             *)
(***************************************************************************)
EXTENDS SliceExecutor, TLAPS, SequenceTheorems, FiniteSetTheorems, WellFoundedInduction

(***************************************************************************)
(* Facts about the operators of SliceDecoding.                             *)
(***************************************************************************)

\* A non-empty set of naturals has a least element, and First is that element:
\* the index decode() reports exists whenever a slice fails.
LEMMA FirstIsLeast ==
  ASSUME NEW S \in SUBSET Nat, S # {}
  PROVE  First(S) \in S /\ \A j \in S : First(S) <= j
<1>1. PICK x \in S : \A y \in S : ~ (<<y, x>> \in OpToRel(<, Nat))
  BY NatLessThanWellFounded, WFMin
<1>2. ASSUME NEW y \in S, y < x
      PROVE  FALSE
  <2>1. <<y, x>> \in Nat \X Nat
    OBVIOUS
  <2>2. <<y, x>>[1] < <<y, x>>[2]
    BY <1>2
  <2>3. <<y, x>> \in OpToRel(<, Nat)
    BY <2>1, <2>2, Zenon DEF OpToRel
  <2>4. QED
    BY <1>1, <2>3
<1>3. \A y \in S : x <= y
  BY <1>2
<1>4. QED
  BY <1>3 DEF First

\* The fields of a call and of its slices have the types the code gives them.
LEMMA SliceTypes ==
  ASSUME NEW frame \in Frames
  PROVE  /\ frame \in Seq(Slice)
         /\ Len(frame) \in Nat \ {0}
         /\ DOMAIN frame = 1..Len(frame)
         /\ \A i \in 1..Len(frame) : frame[i] \in Slice /\ frame[i].raster \in Rasters
<1>1. frame \in Seq(Slice) /\ frame # <<>>
  BY FrameAssumption
<1>2. Len(frame) \in Nat \ {0} /\ DOMAIN frame = 1..Len(frame)
  BY <1>1, LenProperties, EmptySeq
<1>3. \A i \in 1..Len(frame) : frame[i] \in Slice
  BY <1>1, ElementOfSeq
<1>4. QED
  BY <1>1, <1>2, <1>3 DEF Slice

\* The body a decodable slice yields is a body.
LEMMA BodyType ==
  ASSUME NEW slice \in Slice, Decodes(slice)
  PROVE  Body(slice) \in Bodies
<1>1. DOMAIN slice.candidates \subseteq Nat
  BY DEF Slice
<1>2. Accepted(slice) \in SUBSET Nat /\ Accepted(slice) # {}
  BY <1>1 DEF Accepted, Decodes
<1>3. QED
  BY <1>2, FirstIsLeast DEF Body, Accepted

\* Decoding a slice extends a history of records by one record, of its own raster.
LEMMA DecodedStateType ==
  ASSUME NEW slice \in Slice, Decodes(slice), NEW state \in Seq(Record)
  PROVE  /\ DecodedState(state, slice) \in Seq(Record)
         /\ Len(DecodedState(state, slice)) = Len(state) + 1
         /\ \A k \in 1..Len(state) : DecodedState(state, slice)[k] = state[k]
         /\ DecodedState(state, slice)[Len(state) + 1].raster = slice.raster
<1> DEFINE r == [raster |-> slice.raster, body |-> Body(slice)]
<1>1. r \in Record
  BY BodyType DEF Record, Slice
<1>2. r.raster = slice.raster
  OBVIOUS
<1>3. QED
  BY <1>1, <1>2, AppendProperties DEF DecodedState

(***************************************************************************)
(* Sorting by layout gives every rank to exactly one slice, so that pairing *)
(* equal ranks is a bijection between slices and reference states.         *)
(***************************************************************************)
LEMMA IntervalSize ==
  ASSUME NEW n \in Nat
  PROVE  /\ IsFiniteSet(1..n) /\ Cardinality(1..n) = n
         /\ IsFiniteSet(0..(n-1)) /\ Cardinality(0..(n-1)) = n
<1>1. 0 \in Int /\ 1 \in Int /\ n \in Int /\ n - 1 \in Int
  OBVIOUS
<1>2. IsFiniteSet(1..n) /\ IsFiniteSet(0..(n-1))
  BY <1>1, FS_Interval
<1>3. Cardinality(1..n) = IF 1 > n THEN 0 ELSE n - 1 + 1
  BY <1>1, FS_Interval
<1>4. Cardinality(0..(n-1)) = IF 0 > n - 1 THEN 0 ELSE (n - 1) - 0 + 1
  BY <1>1, FS_Interval
<1>5. Cardinality(1..n) = n
  BY <1>3
<1>6. Cardinality(0..(n-1)) = n
  BY <1>4
<1>7. QED
  BY <1>2, <1>5, <1>6

LEMMA RankRange ==
  ASSUME NEW l \in Seq(Nat), NEW i \in 1..Len(l)
  PROVE  Rank(l, i) \in 0..(Len(l) - 1)
<1> DEFINE n == Len(l)
           below == {j \in DOMAIN l : SortsBefore(l, j, i)}
<1>1. n \in Nat /\ DOMAIN l = 1..n /\ \A j \in 1..n : l[j] \in Nat
  BY LenProperties
<1>2. IsFiniteSet(1..n) /\ Cardinality(1..n) = n
  BY <1>1, IntervalSize
<1>3. below \subseteq (1..n) \ {i}
  BY <1>1 DEF SortsBefore
<1>4. below \in SUBSET (1..n) /\ below # 1..n
  BY <1>3
<1>5. Cardinality(below) <= n /\ Cardinality(below) # n /\ IsFiniteSet(below)
  BY <1>2, <1>4, FS_Subset
<1>6. Cardinality(below) \in Nat
  BY <1>5, FS_CardinalityType
<1>7. QED
  BY <1>1, <1>5, <1>6 DEF Rank

LEMMA RankStrict ==
  ASSUME NEW l \in Seq(Nat), NEW i \in 1..Len(l), NEW j \in 1..Len(l),
         SortsBefore(l, i, j)
  PROVE  Rank(l, i) < Rank(l, j)
<1> DEFINE n == Len(l)
           below(k) == {m \in DOMAIN l : SortsBefore(l, m, k)}
<1>1. n \in Nat /\ DOMAIN l = 1..n /\ \A k \in 1..n : l[k] \in Nat
  BY LenProperties
<1>2. below(i) \subseteq below(j)
  BY <1>1 DEF SortsBefore
<1>3. i \in below(j) /\ i \notin below(i)
  BY <1>1 DEF SortsBefore
<1>4. IsFiniteSet(below(j))
  <2>1. below(j) \in SUBSET (1..n) /\ IsFiniteSet(1..n)
    BY <1>1, FS_Interval
  <2>2. QED
    BY <2>1, FS_Subset
<1>5. /\ IsFiniteSet(below(i))
      /\ Cardinality(below(i)) <= Cardinality(below(j))
      /\ Cardinality(below(i)) # Cardinality(below(j))
  <2>1. below(i) \in SUBSET below(j) /\ below(i) # below(j)
    BY <1>2, <1>3
  <2>2. QED
    BY <1>4, <2>1, FS_Subset
<1>6. Cardinality(below(i)) \in Nat /\ Cardinality(below(j)) \in Nat
  BY <1>4, <1>5, FS_CardinalityType
<1>7. QED
  BY <1>5, <1>6 DEF Rank

LEMMA RankOnto ==
  ASSUME NEW l \in Seq(Nat), NEW r \in 0..(Len(l) - 1)
  PROVE  \E i \in 1..Len(l) : Rank(l, i) = r
<1> DEFINE n == Len(l)
           rank == [i \in 1..n |-> Rank(l, i)]
<1>1. n \in Nat /\ \A k \in 1..n : l[k] \in Nat
  BY LenProperties
<1>2. rank \in [1..n -> 0..(n-1)]
  BY RankRange
<1>3. \A i, j \in 1..n : rank[i] = rank[j] => i = j
  <2> SUFFICES ASSUME NEW i \in 1..n, NEW j \in 1..n, i # j
               PROVE  rank[i] # rank[j]
    OBVIOUS
  <2>1. SortsBefore(l, i, j) \/ SortsBefore(l, j, i)
    BY <1>1 DEF SortsBefore
  <2>2. Rank(l, i) < Rank(l, j) \/ Rank(l, j) < Rank(l, i)
    BY <2>1, RankStrict
  <2>3. Rank(l, i) \in Nat /\ Rank(l, j) \in Nat
    BY <1>1, RankRange
  <2>4. QED
    BY <2>2, <2>3
<1>4. rank \in Injection(1..n, 0..(n-1))
  BY <1>2, <1>3 DEF Injection, IsInjective
<1>5. /\ IsFiniteSet(0..(n-1))
      /\ Cardinality(1..n) = n
      /\ Cardinality(0..(n-1)) = n
  BY <1>1, IntervalSize
<1>6. rank \in Surjection(1..n, 0..(n-1))
  BY <1>4, <1>5, FS_Injection
<1>7. QED
  BY <1>6 DEF Surjection

\* A slice of an accepted non-keyframe is paired with a reference state that
\* exists and that was kept for the slice's own rectangle.
LEMMA ReferenceMatches ==
  ASSUME NEW frame \in Frames, NEW states, NEW layouts \in Seq(Rasters),
         Continues(frame, states, layouts), NEW i \in DOMAIN frame
  PROVE  /\ ReferenceOf(frame, layouts, i) \in DOMAIN layouts
         /\ layouts[ReferenceOf(frame, layouts, i)] = frame[i].raster
<1>1. /\ Len(frame) \in Nat /\ DOMAIN frame = 1..Len(frame)
      /\ \A k \in 1..Len(frame) : frame[k].raster \in Nat
  BY SliceTypes, RasterAssumption
<1>2. Len(layouts) = Len(frame) /\ layouts \in Seq(Nat) /\ DOMAIN layouts = 1..Len(layouts)
  <2>1. layouts \in Seq(Nat)
    BY RasterAssumption, SeqMonotonic
  <2>2. QED
    BY <2>1, LenProperties DEF Continues
<1>3. Layouts(frame) \in Seq(Nat) /\ Len(Layouts(frame)) = Len(frame)
  BY <1>1 DEF Layouts
<1>4. Rank(Layouts(frame), i) \in 0..(Len(layouts) - 1)
  BY <1>1, <1>2, <1>3, RankRange
<1>5. \E j \in DOMAIN layouts : Rank(layouts, j) = Rank(Layouts(frame), i)
  BY <1>2, <1>4, RankOnto
<1>6. ReferenceOf(frame, layouts, i) \in DOMAIN layouts
  BY <1>5 DEF ReferenceOf
<1>7. layouts[ReferenceOf(frame, layouts, i)] = frame[i].raster
  BY DEF Continues, Mismatched
<1>8. QED
  BY <1>6, <1>7

\* The state a slice is decoded from is a history of its own rectangle.
LEMMA StartType ==
  ASSUME TypeOK, RasterContinuity, call # NoCall,
         call.keyframe \/ Continues(Slices, slice_states, slice_layouts),
         NEW i \in Indexes
  PROVE  /\ Start(i) \in Seq(Record)
         /\ \A k \in 1..Len(Start(i)) : Start(i)[k].raster = Slices[i].raster
<1>1. Slices \in Frames /\ i \in 1..Count
  <2>1. call \in Calls
    BY DEF TypeOK
  <2>2. Slices \in Frames
    BY <2>1 DEF Calls, Slices
  <2>3. QED
    BY <2>2, SliceTypes DEF Slices, Indexes, Count
<1>2. CASE call.keyframe
  <2>1. Start(i) = <<>>
    BY <1>2 DEF Start, StartState, Fresh
  <2>2. QED
    BY <2>1, EmptySeq
<1>3. CASE ~call.keyframe
  <2> DEFINE j == ReferenceOf(Slices, slice_layouts, i)
  <2>1. Start(i) = slice_states[j]
    BY <1>3 DEF Start, StartState, Slices
  <2>2. slice_layouts \in Seq(Rasters) /\ slice_states \in Seq(Seq(Record))
    BY DEF TypeOK
  <2>3. Continues(Slices, slice_states, slice_layouts)
    BY <1>3
  <2>4. i \in DOMAIN Slices
    BY DEF Indexes, Slices
  <2>5. j \in DOMAIN slice_layouts /\ slice_layouts[j] = Slices[i].raster
    BY <1>1, <2>2, <2>3, <2>4, ReferenceMatches
  <2>6. j \in 1..Len(slice_states) /\ j \in DOMAIN slice_states
    BY <2>2, <2>5, LenProperties DEF TypeOK
  <2>7. slice_states[j] \in Seq(Record)
    BY <2>2, <2>6, ElementOfSeq
  <2>8. \A k \in DOMAIN slice_states[j] : slice_states[j][k].raster = slice_layouts[j]
    BY <2>6 DEF RasterContinuity
  <2>9. DOMAIN slice_states[j] = 1..Len(slice_states[j])
    BY <2>7, LenProperties
  <2>10. QED
    BY <2>1, <2>5, <2>7, <2>8, <2>9
<1>4. QED
  BY <1>2, <1>3

(***************************************************************************)
(* The inductive invariant.                                                *)
(***************************************************************************)
LEMMA InitInv == Init => IInv
<1> SUFFICES ASSUME Init PROVE IInv
  OBVIOUS
<1> USE DEF Init
<1>1. TypeOK
  <2>1. slice_states \in Seq(Seq(Record)) /\ slice_layouts \in Seq(Rasters)
    BY EmptySeq
  <2>2. /\ working_states \in Seq(Seq(Record) \cup {Torn})
        /\ future \in Seq({"none", "running", "ok", "failed"})
    BY EmptySeq
  <2>3. QED
    BY <2>1, <2>2 DEF TypeOK, NoReply, Codes
<1>2. CallInv /\ CountInv /\ PhaseInv /\ ResultInv
  BY DEF CallInv, CountInv, PhaseInv, ResultInv, Decoding
<1>3. RasterContinuity
  BY DEF RasterContinuity
<1>4. QED
  BY <1>1, <1>2, <1>3 DEF IInv

\* What is known of the arguments while a call is in progress.
LEMMA CallFacts ==
  ASSUME TypeOK, call # NoCall
  PROVE  /\ Slices \in Frames /\ call.keyframe \in BOOLEAN
         /\ Count \in Nat \ {0} /\ Indexes = 1..Count
         /\ \A i \in Indexes : Slices[i] \in Slice /\ Slices[i].raster \in Rasters
         /\ thread_count \in Nat \ {0}
<1>1. call \in Calls
  BY DEF TypeOK
<1>2. Slices \in Frames /\ call.keyframe \in BOOLEAN
  BY <1>1 DEF Calls, Slices
<1>3. thread_count \in Nat \ {0}
  BY FrameAssumption DEF TypeOK
<1>4. QED
  BY <1>2, <1>3, SliceTypes DEF Slices, Count, Indexes

\* What is known while slices are being decoded.
LEMMA DecodingFacts ==
  ASSUME IInv, Decoding
  PROVE  /\ TypeOK /\ RasterContinuity /\ call # NoCall
         /\ Count \in Nat \ {0} /\ Indexes = 1..Count
         /\ DOMAIN future = Indexes /\ Len(future) = Count
         /\ Len(working_states) = Count
         /\ \A i \in Indexes : Start(i) \in Seq(Record)
         /\ BatchEnd \in Nat /\ BatchEnd <= Count
         /\ offset < Count => offset < BatchEnd
<1>1. TypeOK /\ RasterContinuity /\ call # NoCall
  BY DEF IInv, CallInv, Decoding
<1>2. /\ Count \in Nat \ {0} /\ Indexes = 1..Count /\ thread_count \in Nat \ {0}
  BY <1>1, CallFacts
<1>3. Len(future) = Count /\ Len(working_states) = Count
  BY DEF IInv, CallInv, TypeOK
<1>4. DOMAIN future = Indexes
  BY <1>1, <1>2, <1>3, LenProperties DEF TypeOK
<1>5. \A i \in Indexes : Start(i) \in Seq(Record)
  <2>1. call.keyframe \/ Continues(Slices, slice_states, slice_layouts)
    BY DEF IInv, CallInv, Admissible
  <2>2. QED
    BY <1>1, <2>1, StartType
<1>6. /\ BatchEnd \in Nat /\ BatchEnd <= Count
      /\ offset < Count => offset < BatchEnd
  BY <1>1, <1>2 DEF BatchEnd, WorkerCount, TypeOK
<1>7. QED
  BY <1>1, <1>2, <1>3, <1>4, <1>5, <1>6

\* No worker runs outside the phases that start workers or wait for them.
LEMMA NobodyRuns ==
  ASSUME IInv
  PROVE  NoOrphanWorker
<1> SUFFICES ASSUME IInv, NEW i \in Running
             PROVE  pc \in {"launch", "join", "unwind"}
  BY DEF NoOrphanWorker
<1>1. i \in DOMAIN future /\ future[i] = "running"
  BY DEF Running
<1>2. Decoding
  <2>1. (~Decoding => future = <<>>) /\ DOMAIN <<>> = {}
    BY DEF IInv, CallInv
  <2>2. QED
    BY <1>1, <2>1
<1>3. /\ Indexes = 1..Count /\ DOMAIN future = Indexes
      /\ Count \in Nat /\ joined \in Nat /\ launched \in Nat
  BY <1>2, DecodingFacts DEF TypeOK
<1>4. pc # "serial" /\ pc # "report"
  BY <1>1, <1>2, <1>3 DEF IInv, PhaseInv, CountInv
<1>5. QED
  BY <1>2, <1>4 DEF Decoding

\* Leaving the call, with or without new reference states, forgets its locals.
LEMMA ReturnInv ==
  ASSUME IInv, Running = {},
         NEW code \in Codes, NEW slice \in Nat, Return(code, slice),
         slice_states' \in Seq(Seq(Record)), slice_layouts' \in Seq(Rasters),
         Len(slice_states') = Len(slice_layouts'), RasterContinuity'
  PROVE  IInv'
<1> USE DEF Return
<1>1. future' = <<>>
  OBVIOUS
<1>2. TypeOK'
  <2>1. /\ working_states' \in Seq(Seq(Record) \cup {Torn})
        /\ future' \in Seq({"none", "running", "ok", "failed"})
    BY <1>1, EmptySeq
  <2>2. TypeOK
    BY DEF IInv
  <2>3. QED
    BY <1>1, <2>1, <2>2 DEF TypeOK
<1>3. CallInv' /\ CountInv' /\ PhaseInv' /\ ResultInv'
  BY <1>1 DEF CallInv, CountInv, PhaseInv, ResultInv, Decoding
<1>4. QED
  BY <1>2, <1>3 DEF IInv

LEMMA RefuseInv ==
  ASSUME IInv, Running = {}, NEW code \in Codes, NEW slice \in Nat, Refuse(code, slice)
  PROVE  IInv'
<1>1. TypeOK /\ RasterContinuity
  BY DEF IInv
<1>2. UNCHANGED <<slice_states, slice_layouts>> /\ Return(code, slice)
  BY DEF Refuse
<1>3. RasterContinuity'
  BY <1>1, <1>2 DEF RasterContinuity
<1>4. QED
  BY <1>1, <1>2, <1>3, ReturnInv DEF TypeOK

LEMMA DecodeInv ==
  ASSUME IInv, NEW frame \in Frames, NEW key \in BOOLEAN, Decode(frame, key)
  PROVE  IInv'
<1> USE DEF Decode
<1>1. call' \in Calls /\ call' # NoCall
  BY FrameAssumption DEF Calls
<1>2. TypeOK'
  BY <1>1 DEF IInv, TypeOK, NoReply, Codes
<1>3. CallInv'
  BY <1>1 DEF IInv, CallInv, Decoding
<1>4. CountInv' /\ PhaseInv' /\ ResultInv'
  BY DEF CountInv, PhaseInv, ResultInv, Decoding
<1>5. RasterContinuity'
  BY DEF IInv, RasterContinuity
<1>6. QED
  BY <1>2, <1>3, <1>4, <1>5 DEF IInv

LEMMA ValidateInv ==
  ASSUME IInv, Validate
  PROVE  IInv'
<1>1. TypeOK /\ call # NoCall /\ Running = {}
  BY NobodyRuns DEF IInv, CallInv, Validate, NoOrphanWorker
<1>2. Invalid(Slices) \in SUBSET Nat
  BY <1>1, CallFacts DEF Invalid, Indexes, Slices
<1>3. CASE Refuse("Coverage", 0)
  BY <1>1, <1>3, RefuseInv DEF Codes
<1>4. CASE Invalid(Slices) # {} /\ Refuse("InvalidSlice", First(Invalid(Slices)))
  <2>1. First(Invalid(Slices)) \in Nat
    BY <1>2, <1>4, FirstIsLeast
  <2>2. QED
    BY <1>1, <1>4, <2>1, RefuseInv DEF Codes
<1>5. CASE pc' = "match"
  <2> USE <1>5 DEF Validate
  <2>1. /\ CoverageAccepted(Slices, thread_count) /\ Invalid(Slices) = {}
        /\ UNCHANGED <<thread_count, slice_states, slice_layouts, call, reply,
                       working_states, offset, launched, joined, future, output>>
    BY DEF Refuse, Return
  <2>2. TypeOK'
    BY <1>1, <2>1 DEF TypeOK
  <2>3. CallInv'
    BY <1>1, <2>1 DEF IInv, CallInv, Decoding, Slices
  <2>4. CountInv' /\ PhaseInv' /\ ResultInv'
    BY DEF CountInv, PhaseInv, ResultInv, Decoding
  <2>5. RasterContinuity'
    BY <2>1 DEF IInv, RasterContinuity
  <2>6. QED
    BY <2>2, <2>3, <2>4, <2>5 DEF IInv
<1>6. QED
  BY <1>3, <1>4, <1>5 DEF Validate

\* The mismatch decode() reports is a slice of the call.
LEMMA MismatchExists ==
  ASSUME TypeOK, call # NoCall, Mismatched(Slices, slice_layouts) # {}
  PROVE  FirstMismatch \in Mismatched(Slices, slice_layouts) /\ FirstMismatch \in Indexes
<1> DEFINE M == Mismatched(Slices, slice_layouts)
           rank(i) == Rank(Layouts(Slices), i)
           R == {rank(i) : i \in M}
<1>1. /\ Count \in Nat \ {0} /\ Indexes = 1..Count /\ DOMAIN Slices = 1..Count
      /\ \A i \in Indexes : Slices[i].raster \in Nat
  BY CallFacts, RasterAssumption DEF Indexes, Slices
<1>2. M \subseteq 1..Count
  BY <1>1 DEF Mismatched
<1>3. Layouts(Slices) \in Seq(Nat) /\ Len(Layouts(Slices)) = Count
  BY <1>1 DEF Layouts
<1>4. \A i \in M : rank(i) \in Nat
  BY <1>2, <1>3, RankRange
<1>5. R \in SUBSET Nat /\ R # {}
  BY <1>4
<1>6. First(R) \in R /\ \A r \in R : First(R) <= r
  BY <1>5, FirstIsLeast
<1>7. \E i \in M : \A j \in M : rank(i) <= rank(j)
  BY <1>6
<1>8. FirstMismatch \in M
  BY <1>7 DEF FirstMismatch
<1>9. QED
  BY <1>1, <1>2, <1>8

LEMMA MatchReferencesInv ==
  ASSUME IInv, MatchReferences
  PROVE  IInv'
<1>1. TypeOK /\ RasterContinuity /\ call # NoCall /\ Running = {}
  BY NobodyRuns DEF IInv, CallInv, MatchReferences, NoOrphanWorker
<1>2. /\ Count \in Nat \ {0} /\ Indexes = 1..Count /\ DOMAIN Slices = 1..Count
      /\ thread_count \in Nat \ {0}
  BY <1>1, CallFacts DEF Indexes, Slices
<1>3. CASE \/ Refuse("NoReference", 0)
           \/ Refuse("SlicesDiffer", 0)
  BY <1>1, <1>3, RefuseInv DEF Codes
<1>4. CASE /\ Mismatched(Slices, slice_layouts) # {}
           /\ Refuse("LayoutDiffers", FirstMismatch)
  BY <1>1, <1>2, <1>4, MismatchExists, RefuseInv DEF Codes
<1>5. ASSUME call.keyframe \/ Continues(Slices, slice_states, slice_layouts),
             working_states' = [i \in Indexes |-> Start(i)],
             future' = [i \in Indexes |-> "none"],
             pc' = IF ParallelSafe THEN "launch" ELSE "serial",
             UNCHANGED <<thread_count, slice_states, slice_layouts, call, reply,
                         offset, launched, joined, output>>
      PROVE  IInv'
  <2> USE <1>5
  <2>1. pc = "match" /\ offset = 0 /\ launched = 0 /\ joined = 0
    BY DEF IInv, CallInv, Decoding, MatchReferences
  <2>2. \A i \in Indexes : Start(i) \in Seq(Record)
    BY <1>1, StartType
  <2>3. /\ working_states' \in Seq(Seq(Record) \cup {Torn})
        /\ future' \in Seq({"none", "running", "ok", "failed"})
        /\ Len(future') = Count /\ Len(working_states') = Count
    BY <1>2, <2>2
  <2>4. TypeOK'
    BY <1>1, <2>3 DEF TypeOK
  <2>5. CallInv'
    BY <1>1, <2>1, <2>3 DEF IInv, CallInv, Decoding, Admissible, Slices, Count
  <2>6. CountInv'
    BY <1>2, <2>1 DEF CountInv, Decoding, Slices, Count, Indexes
  <2>7. PhaseInv'
    <3>1. Failed' = {}
      BY <1>2 DEF Failed
    <3>2. Count' = Count /\ ParallelSafe' = ParallelSafe /\ WorkerCount' = WorkerCount
          /\ BatchEnd' = BatchEnd
      BY DEF Count, ParallelSafe, WorkerCount, BatchEnd, Slices
    <3>3. BatchEnd \in Nat /\ 0 < BatchEnd
      BY <1>2, <2>1 DEF WorkerCount, BatchEnd
    <3>4. QED
      BY <1>2, <2>1, <3>1, <3>2, <3>3 DEF PhaseInv
  <2>8. ResultInv'
    <3>1. \A i \in Indexes : working_states'[i] = Start(i) /\ future'[i] = "none"
      OBVIOUS
    <3>2. Indexes' = Indexes /\ Slices' = Slices /\ \A i \in Indexes : Start(i)' = Start(i)
      BY DEF Indexes, Slices, Start
    <3>3. QED
      BY <3>1, <3>2 DEF ResultInv
  <2>9. RasterContinuity'
    BY <1>1 DEF RasterContinuity
  <2>10. QED
    BY <2>4, <2>5, <2>6, <2>7, <2>8, <2>9 DEF IInv
<1>6. QED
  BY <1>3, <1>4, <1>5 DEF MatchReferences

\* The decode of one slice ends that slice, and touches no other slice.
LEMMA DecodeEffect ==
  ASSUME IInv, Decoding, NEW i \in Indexes, future[i] \in {"none", "running"},
         DecodeSlice(i), UNCHANGED <<slice_states, slice_layouts, call>>
  PROVE  /\ future' \in Seq({"none", "running", "ok", "failed"})
         /\ Len(future') = Count
         /\ working_states' \in Seq(Seq(Record) \cup {Torn})
         /\ Len(working_states') = Count
         /\ output' \in [Cells -> Record \cup {Stale, Torn}]
         /\ future'[i] = IF Decodes(Slices[i]) THEN "ok" ELSE "failed"
         /\ \A j \in Indexes : j # i => future'[j] = future[j]
         /\ ResultInv'
<1> USE DEF DecodeSlice
<1>1. /\ TypeOK /\ Count \in Nat \ {0} /\ Indexes = 1..Count
      /\ DOMAIN future = Indexes /\ Len(future) = Count /\ Len(working_states) = Count
      /\ \A j \in Indexes : Start(j) \in Seq(Record)
  BY DecodingFacts
<1>2. Slices[i] \in Slice
  BY <1>1, CallFacts, DecodingFacts
<1>3. working_states[i] = Start(i)
  BY DEF IInv, ResultInv
<1>4. StateAfter(Slices[i], Start(i)) \in Seq(Record) \cup {Torn}
  BY <1>1, <1>2, DecodedStateType DEF StateAfter
<1>5. \A c \in Cells : CellAfter(Slices[i], output[c]) \in Record \cup {Stale, Torn}
  <2>1. \A c \in Cells : output[c] \in Record \cup {Stale, Torn}
    BY <1>1 DEF TypeOK
  <2>2. Decodes(Slices[i]) => [raster |-> Slices[i].raster, body |-> Body(Slices[i])] \in Record
    BY <1>2, BodyType DEF Record, Slice
  <2>3. QED
    BY <2>1, <2>2 DEF CellAfter
<1>6. /\ future \in Seq({"none", "running", "ok", "failed"})
      /\ working_states \in Seq(Seq(Record) \cup {Torn})
  BY <1>1 DEF TypeOK
<1>7. /\ future' \in Seq({"none", "running", "ok", "failed"})
      /\ Len(future') = Count
      /\ future'[i] = IF Decodes(Slices[i]) THEN "ok" ELSE "failed"
      /\ \A j \in Indexes : j # i => future'[j] = future[j]
  BY <1>1, <1>6, ExceptSeq
<1>8. /\ working_states' \in Seq(Seq(Record) \cup {Torn})
      /\ Len(working_states') = Count
      /\ working_states'[i] = StateAfter(Slices[i], Start(i))
      /\ \A j \in Indexes : j # i => working_states'[j] = working_states[j]
  <2> HIDE DEF DecodeSlice
  <2>1. working_states' = [working_states EXCEPT ![i] = StateAfter(Slices[i], Start(i))]
    BY <1>3 DEF DecodeSlice
  <2>2. QED
    BY <1>1, <1>4, <1>6, <2>1, ExceptSeq
<1>9. output' \in [Cells -> Record \cup {Stale, Torn}]
  BY <1>1, <1>5 DEF TypeOK
<1>10. ResultInv'
  <2>1. Indexes' = Indexes /\ Slices' = Slices /\ \A j \in Indexes : Start(j)' = Start(j)
    BY DEF Indexes, Slices, Start
  <2>2. ASSUME NEW j \in Indexes
        PROVE  /\ future'[j] \in {"none", "running"} => working_states'[j] = Start(j)
               /\ future'[j] = "ok" =>
                    /\ Decodes(Slices[j])
                    /\ working_states'[j] = DecodedState(Start(j), Slices[j])
               /\ future'[j] = "failed" => ~Decodes(Slices[j])
    <3>1. CASE j = i
      BY <1>7, <1>8, <3>1 DEF StateAfter
    <3>2. CASE j # i
      BY <1>7, <1>8, <3>2 DEF IInv, ResultInv
    <3>3. QED
      BY <3>1, <3>2
  <2>3. QED
    BY <2>1, <2>2 DEF ResultInv
<1>11. QED
  BY <1>7, <1>8, <1>9, <1>10

\* A step that stays within the call keeps everything decided before it.
LEMMA WithinCall ==
  ASSUME IInv, Decoding, Decoding',
         UNCHANGED <<thread_count, slice_states, slice_layouts, call, reply>>,
         future' \in Seq({"none", "running", "ok", "failed"}), Len(future') = Count,
         working_states' \in Seq(Seq(Record) \cup {Torn}), Len(working_states') = Count,
         output' \in [Cells -> Record \cup {Stale, Torn}],
         offset' \in Nat, launched' \in Nat, joined' \in Nat
  PROVE  /\ TypeOK' /\ CallInv' /\ RasterContinuity'
         /\ Slices' = Slices /\ Count' = Count /\ Indexes' = Indexes
         /\ WorkerCount' = WorkerCount /\ ParallelSafe' = ParallelSafe
<1>1. Slices' = Slices /\ Count' = Count /\ Indexes' = Indexes
  BY DEF Slices, Count, Indexes
<1>2. WorkerCount' = WorkerCount /\ ParallelSafe' = ParallelSafe
  BY <1>1 DEF WorkerCount, ParallelSafe
<1>3. TypeOK'
  BY DecodingFacts DEF TypeOK, Decoding
<1>4. CallInv'
  <2>1. pc # "idle" /\ pc' # "idle" /\ call # NoCall /\ pc' # "match"
    BY DecodingFacts DEF Decoding
  <2>2. Admissible(Slices, call.keyframe, slice_states, slice_layouts, thread_count)
    BY DEF IInv, CallInv
  <2>3. Admissible(Slices, call.keyframe, slice_states, slice_layouts, thread_count)'
    BY <1>1, <2>2
  <2>4. QED
    BY <1>1, <2>1, <2>3 DEF CallInv
<1>5. RasterContinuity'
  BY DecodingFacts DEF RasterContinuity
<1>6. QED
  BY <1>1, <1>2, <1>3, <1>4, <1>5

LEMMA SerialDecodeInv ==
  ASSUME IInv, SerialDecode
  PROVE  IInv'
<1> DEFINE i == joined + 1
<1>1. /\ pc = "serial" /\ Decoding /\ Decoding'
      /\ pc' = IF Decodes(Slices[i]) /\ i < Count THEN "serial" ELSE "report"
      /\ launched' = i /\ joined' = i /\ offset' = offset
      /\ UNCHANGED <<thread_count, slice_states, slice_layouts, call, reply>>
      /\ DecodeSlice(i)
  BY DEF SerialDecode, Decoding
<1>2. /\ TypeOK /\ Count \in Nat /\ Indexes = 1..Count /\ DOMAIN future = Indexes
      /\ joined \in Nat /\ launched = joined /\ joined < Count /\ Failed = {}
      /\ offset \in Nat /\ offset <= joined
      /\ \A j \in Indexes : future[j] = "none" <=> j > joined
  BY <1>1, DecodingFacts DEF IInv, PhaseInv, CountInv, TypeOK
<1>3. i \in Indexes /\ future[i] = "none"
  BY <1>2
<1>4. /\ future' \in Seq({"none", "running", "ok", "failed"}) /\ Len(future') = Count
      /\ working_states' \in Seq(Seq(Record) \cup {Torn}) /\ Len(working_states') = Count
      /\ output' \in [Cells -> Record \cup {Stale, Torn}]
      /\ future'[i] = IF Decodes(Slices[i]) THEN "ok" ELSE "failed"
      /\ \A j \in Indexes : j # i => future'[j] = future[j]
      /\ ResultInv'
  BY <1>1, <1>3, DecodeEffect
<1>5. i \in Nat
  BY <1>2
<1>6. /\ TypeOK' /\ CallInv' /\ RasterContinuity'
      /\ Slices' = Slices /\ Count' = Count /\ Indexes' = Indexes
      /\ WorkerCount' = WorkerCount /\ ParallelSafe' = ParallelSafe
  BY <1>1, <1>2, <1>4, <1>5, WithinCall
<1>7. CountInv'
  <2>1. \A j \in Indexes : future'[j] = "none" <=> j > i
    BY <1>2, <1>3, <1>4
  <2>2. \A j \in Indexes : j <= i => future'[j] # "running"
    BY <1>1, <1>2, <1>4 DEF IInv, CountInv
  <2>3. QED
    BY <1>1, <1>2, <1>6, <2>1, <2>2 DEF CountInv
<1>8. PhaseInv'
  <2>1. DOMAIN future' = Indexes
    BY <1>2, <1>4, LenProperties
  <2>2. Decodes(Slices[i]) => Failed' = {}
    BY <1>2, <1>4, <2>1 DEF Failed
  <2>3. ~Decodes(Slices[i]) => i \in Failed'
    BY <1>3, <1>4, <2>1 DEF Failed
  <2>4. QED
    BY <1>1, <1>2, <1>6, <2>2, <2>3 DEF PhaseInv
<1>9. QED
  BY <1>4, <1>6, <1>7, <1>8 DEF IInv

LEMMA LaunchWorkerInv ==
  ASSUME IInv, LaunchWorker
  PROVE  IInv'
<1> DEFINE i == launched + 1
<1>1. /\ pc = "launch" /\ Decoding /\ Decoding'
      /\ future' = [future EXCEPT ![i] = "running"]
      /\ launched' = i
      /\ pc' = IF i < BatchEnd THEN "launch" ELSE "join"
      /\ UNCHANGED <<thread_count, slice_states, slice_layouts, call, reply,
                     working_states, offset, joined, output>>
  BY DEF LaunchWorker, Decoding
<1>2. /\ TypeOK /\ Count \in Nat /\ Indexes = 1..Count /\ DOMAIN future = Indexes
      /\ Len(future) = Count /\ Len(working_states) = Count
      /\ BatchEnd \in Nat /\ BatchEnd <= Count
      /\ offset \in Nat /\ launched \in Nat /\ joined \in Nat
      /\ offset = joined /\ joined <= launched /\ launched < BatchEnd /\ ParallelSafe
      /\ \A j \in Indexes : future[j] = "none" <=> j > launched
      /\ \A j \in Indexes : j <= joined => future[j] # "running"
  BY <1>1, DecodingFacts DEF IInv, PhaseInv, CountInv, TypeOK
<1>3. i \in Indexes /\ i \in Nat /\ future[i] = "none"
  BY <1>2
<1>4. /\ future' \in Seq({"none", "running", "ok", "failed"}) /\ Len(future') = Count
      /\ future'[i] = "running"
      /\ \A j \in Indexes : j # i => future'[j] = future[j]
  BY <1>1, <1>2, <1>3, ExceptSeq DEF TypeOK
<1>5. /\ TypeOK' /\ CallInv' /\ RasterContinuity'
      /\ Slices' = Slices /\ Count' = Count /\ Indexes' = Indexes
      /\ WorkerCount' = WorkerCount /\ ParallelSafe' = ParallelSafe
  BY <1>1, <1>2, <1>3, <1>4, WithinCall DEF TypeOK
<1>6. BatchEnd' = BatchEnd
  BY <1>1, <1>5 DEF BatchEnd
<1>7. CountInv'
  <2>1. \A j \in Indexes : future'[j] = "none" <=> j > i
    BY <1>2, <1>3, <1>4
  <2>2. \A j \in Indexes : j <= joined => future'[j] # "running"
    BY <1>2, <1>3, <1>4
  <2>3. QED
    BY <1>1, <1>2, <1>5, <2>1, <2>2 DEF CountInv
<1>8. PhaseInv'
  BY <1>1, <1>2, <1>5, <1>6 DEF PhaseInv
<1>9. ResultInv'
  <2>1. \A j \in Indexes : Start(j)' = Start(j)
    BY <1>1, <1>5 DEF Start
  <2>2. QED
    BY <1>1, <1>3, <1>4, <1>5, <2>1 DEF IInv, ResultInv
<1>10. QED
  BY <1>5, <1>7, <1>8, <1>9 DEF IInv

LEMMA LaunchFailsInv ==
  ASSUME IInv, LaunchFails
  PROVE  IInv'
<1>1. /\ pc = "launch" /\ pc' = "unwind" /\ Decoding /\ Decoding'
      /\ UNCHANGED <<thread_count, slice_states, slice_layouts, call, reply,
                     working_states, offset, launched, joined, future, output>>
  BY DEF LaunchFails, Decoding
<1>2. /\ TypeOK /\ Len(future) = Count /\ Len(working_states) = Count
      /\ BatchEnd \in Nat /\ launched \in Nat /\ launched < BatchEnd /\ ParallelSafe
  BY <1>1, DecodingFacts DEF IInv, PhaseInv, TypeOK
<1>3. /\ TypeOK' /\ CallInv' /\ RasterContinuity'
      /\ Slices' = Slices /\ Count' = Count /\ Indexes' = Indexes
      /\ WorkerCount' = WorkerCount /\ ParallelSafe' = ParallelSafe
  BY <1>1, <1>2, WithinCall DEF TypeOK
<1>4. BatchEnd' = BatchEnd
  BY <1>1, <1>3 DEF BatchEnd
<1>5. CountInv' /\ ResultInv'
  <2>1. \A j \in Indexes : Start(j)' = Start(j)
    BY <1>1, <1>3 DEF Start
  <2>2. QED
    BY <1>1, <1>3, <2>1 DEF IInv, CountInv, ResultInv
<1>6. PhaseInv'
  BY <1>1, <1>2, <1>3, <1>4 DEF PhaseInv
<1>7. QED
  BY <1>3, <1>5, <1>6 DEF IInv

LEMMA UnwindInv ==
  ASSUME IInv, Unwind
  PROVE  IInv'
BY RefuseInv DEF Unwind, Codes

LEMMA WorkerInv ==
  ASSUME IInv, NEW i \in DOMAIN future, Worker(i)
  PROVE  IInv'
<1>1. /\ i \in DOMAIN future /\ future[i] = "running" /\ DecodeSlice(i)
      /\ UNCHANGED <<thread_count, slice_states, slice_layouts, call, reply, pc,
                     offset, launched, joined>>
  BY DEF Worker, Running
<1>2. Decoding /\ Decoding'
  <2>1. TypeOK /\ (~Decoding => future = <<>>)
    BY DEF IInv, CallInv
  <2>2. DOMAIN <<>> = {}
    OBVIOUS
  <2>3. QED
    BY <1>1, <2>1, <2>2 DEF Decoding
<1>3. /\ TypeOK /\ Count \in Nat /\ Indexes = 1..Count /\ DOMAIN future = Indexes
      /\ BatchEnd \in Nat /\ launched \in Nat /\ offset \in Nat /\ joined \in Nat
  BY <1>2, DecodingFacts DEF TypeOK
<1>4. /\ future' \in Seq({"none", "running", "ok", "failed"}) /\ Len(future') = Count
      /\ working_states' \in Seq(Seq(Record) \cup {Torn}) /\ Len(working_states') = Count
      /\ output' \in [Cells -> Record \cup {Stale, Torn}]
      /\ future'[i] = IF Decodes(Slices[i]) THEN "ok" ELSE "failed"
      /\ \A j \in Indexes : j # i => future'[j] = future[j]
      /\ ResultInv'
  BY <1>1, <1>2, <1>3, DecodeEffect
<1>5. /\ TypeOK' /\ CallInv' /\ RasterContinuity'
      /\ Slices' = Slices /\ Count' = Count /\ Indexes' = Indexes
      /\ WorkerCount' = WorkerCount /\ ParallelSafe' = ParallelSafe
  BY <1>1, <1>2, <1>3, <1>4, WithinCall
<1>6. BatchEnd' = BatchEnd
  BY <1>1, <1>5 DEF BatchEnd
<1>7. CountInv'
  BY <1>1, <1>2, <1>3, <1>4, <1>5 DEF IInv, CountInv
<1>8. PhaseInv'
  \* In the serial and the report phase no worker runs.
  <2>1. pc # "serial" /\ pc # "report"
    BY <1>1, <1>2, <1>3 DEF IInv, PhaseInv, CountInv
  <2>2. QED
    BY <1>1, <1>3, <1>5, <1>6, <2>1 DEF IInv, PhaseInv
<1>9. QED
  BY <1>4, <1>5, <1>7, <1>8 DEF IInv

LEMMA JoinInv ==
  ASSUME IInv, Join
  PROVE  IInv'
<1> DEFINE i == joined + 1
<1>1. /\ pc = "join" /\ Decoding /\ Decoding' /\ future[i] # "running"
      /\ joined' = i
      /\ offset' = IF i < BatchEnd THEN offset ELSE BatchEnd
      /\ pc' = IF i < BatchEnd THEN "join"
               ELSE IF BatchEnd < Count THEN "launch" ELSE "report"
      /\ UNCHANGED <<thread_count, slice_states, slice_layouts, call, reply,
                     working_states, launched, future, output>>
  BY DEF Join, Decoding
<1>2. /\ TypeOK /\ Count \in Nat /\ Indexes = 1..Count /\ thread_count \in Nat \ {0}
      /\ Len(future) = Count /\ Len(working_states) = Count
      /\ BatchEnd \in Nat /\ BatchEnd <= Count
      /\ offset \in Nat /\ launched \in Nat /\ joined \in Nat
      /\ joined < BatchEnd /\ launched = BatchEnd /\ ParallelSafe
      /\ offset <= joined
      /\ \A j \in Indexes : future[j] = "none" <=> j > launched
      /\ \A j \in Indexes : j <= joined => future[j] # "running"
  BY <1>1, DecodingFacts, CallFacts DEF IInv, PhaseInv, CountInv, TypeOK
<1>3. i \in Nat /\ i \in Indexes /\ i <= BatchEnd /\ offset' \in Nat /\ offset' <= i
  BY <1>1, <1>2
<1>4. /\ TypeOK' /\ CallInv' /\ RasterContinuity'
      /\ Slices' = Slices /\ Count' = Count /\ Indexes' = Indexes
      /\ WorkerCount' = WorkerCount /\ ParallelSafe' = ParallelSafe
  BY <1>1, <1>2, <1>3, WithinCall DEF TypeOK
<1>5. CountInv'
  BY <1>1, <1>2, <1>3, <1>4 DEF CountInv
<1>6. ResultInv'
  <2>1. \A j \in Indexes : Start(j)' = Start(j)
    BY <1>1, <1>4 DEF Start
  <2>2. QED
    BY <1>1, <1>4, <2>1 DEF IInv, ResultInv
<1>7. PhaseInv'
  <2>1. CASE i < BatchEnd
    <3>1. BatchEnd' = BatchEnd
      BY <1>1, <1>4, <2>1 DEF BatchEnd
    <3>2. QED
      BY <1>1, <1>2, <1>3, <1>4, <2>1, <3>1 DEF PhaseInv
  <2>2. CASE i = BatchEnd /\ BatchEnd < Count
    <3>1. BatchEnd' \in Nat /\ BatchEnd < BatchEnd'
      BY <1>1, <1>2, <1>4, <2>2 DEF BatchEnd, WorkerCount
    <3>2. QED
      BY <1>1, <1>2, <1>3, <1>4, <2>2, <3>1 DEF PhaseInv
  <2>3. CASE i = BatchEnd /\ BatchEnd = Count
    BY <1>1, <1>2, <1>3, <1>4, <2>3 DEF PhaseInv
  <2>4. QED
    BY <1>2, <1>3, <2>1, <2>2, <2>3
<1>8. QED
  BY <1>4, <1>5, <1>6, <1>7 DEF IInv

\* What the outcomes collected so far say about the slices themselves.
LEMMA Outcomes ==
  ASSUME IInv, pc = "report"
  PROVE  /\ Failed # {} => /\ Failing(Slices) # {}
                           /\ First(Failed) = First(Failing(Slices))
                           /\ First(Failed) \in Nat
         /\ Failed = {} =>
              /\ Failing(Slices) = {}
              /\ working_states =
                   [i \in DOMAIN Slices |-> DecodedState(Start(i), Slices[i])]
<1>1. /\ Decoding /\ TypeOK /\ Count \in Nat /\ Indexes = 1..Count
      /\ DOMAIN future = Indexes /\ DOMAIN Slices = Indexes
      /\ Len(working_states) = Count
      /\ joined \in Nat /\ joined = launched /\ (Failed # {} \/ joined = Count)
  BY DecodingFacts DEF Decoding, IInv, PhaseInv, TypeOK, Indexes, Slices
<1>2. \A i \in Indexes : i <= joined <=> future[i] \in {"ok", "failed"}
  <2>1. \A i \in Indexes : future[i] \in {"none", "running", "ok", "failed"}
    BY <1>1, ElementOfSeq, LenProperties DEF TypeOK
  <2>2. QED
    BY <1>1, <2>1 DEF IInv, CountInv
<1>3. \A i \in Indexes : /\ future[i] = "ok" => Decodes(Slices[i])
                         /\ future[i] = "failed" => ~Decodes(Slices[i])
  BY <1>1 DEF IInv, ResultInv
<1>4. Failed = {i \in Failing(Slices) : i <= joined}
  BY <1>1, <1>2, <1>3 DEF Failed, Failing
<1>5. ASSUME Failed # {}
      PROVE  First(Failed) = First(Failing(Slices)) /\ First(Failed) \in Nat
  <2>1. Failed \in SUBSET Nat /\ Failing(Slices) \in SUBSET Nat /\ Failing(Slices) # {}
    BY <1>1, <1>4, <1>5 DEF Failing
  <2>2. First(Failed) \in Failed /\ \A j \in Failed : First(Failed) <= j
    BY <1>5, <2>1, FirstIsLeast
  <2>3. /\ First(Failing(Slices)) \in Failing(Slices)
        /\ \A j \in Failing(Slices) : First(Failing(Slices)) <= j
    BY <2>1, FirstIsLeast
  <2>4. First(Failing(Slices)) <= First(Failed)
    BY <1>4, <2>2, <2>3
  <2>5. First(Failing(Slices)) \in Failed
    BY <1>1, <1>4, <2>1, <2>2, <2>3, <2>4
  <2>6. First(Failed) <= First(Failing(Slices))
    BY <2>2, <2>5
  <2>7. First(Failed) \in Nat /\ First(Failing(Slices)) \in Nat
    BY <2>1, <2>2, <2>3
  <2>8. QED
    BY <2>4, <2>6, <2>7
<1>6. ASSUME Failed = {}
      PROVE  /\ Failing(Slices) = {}
             /\ working_states =
                  [i \in DOMAIN Slices |-> DecodedState(Start(i), Slices[i])]
  <2>1. \A i \in Indexes : future[i] = "ok"
    BY <1>1, <1>2, <1>6 DEF Failed
  <2>2. Failing(Slices) = {}
    BY <1>1, <1>3, <2>1 DEF Failing
  <2>3. \A i \in 1..Count : working_states[i] = DecodedState(Start(i), Slices[i])
    BY <1>1, <2>1 DEF IInv, ResultInv
  <2>4. working_states \in Seq(Seq(Record) \cup {Torn})
    BY <1>1 DEF TypeOK
  <2>5. working_states = [i \in 1..Count |-> working_states[i]]
    BY <1>1, <2>4
  <2>6. QED
    BY <1>1, <2>2, <2>3, <2>5
<1>7. QED
  BY <1>4, <1>5, <1>6

LEMMA ReportInv ==
  ASSUME IInv, Report
  PROVE  IInv'
<1>1. pc = "report" /\ Decoding /\ Running = {}
  BY NobodyRuns DEF Report, Decoding, NoOrphanWorker
<1>2. CASE Failed # {} /\ Refuse("DecodeFailed", First(Failed))
  <2>1. First(Failed) \in Nat
    BY <1>1, <1>2, Outcomes
  <2>2. QED
    BY <1>1, <1>2, <2>1, RefuseInv DEF Codes
<1>3. CASE /\ Failed = {}
           /\ slice_states' = working_states
           /\ slice_layouts' = Layouts(Slices)
           /\ Return("Ok", 0)
  <2>1. /\ TypeOK /\ call # NoCall /\ Count \in Nat /\ Indexes = 1..Count
        /\ DOMAIN Slices = 1..Count
        /\ \A i \in Indexes : Slices[i] \in Slice /\ Slices[i].raster \in Rasters
        /\ \A i \in Indexes : Start(i) \in Seq(Record)
    BY <1>1, DecodingFacts, CallFacts DEF Indexes, Slices
  <2>2. /\ Failing(Slices) = {}
        /\ slice_states' = [i \in 1..Count |-> DecodedState(Start(i), Slices[i])]
    BY <1>1, <1>3, <2>1, Outcomes
  <2>3. \A i \in 1..Count : Decodes(Slices[i])
    BY <2>1, <2>2 DEF Failing
  <2>4. \A i \in 1..Count : DecodedState(Start(i), Slices[i]) \in Seq(Record)
    BY <2>1, <2>3, DecodedStateType
  <2>5. slice_states' \in Seq(Seq(Record)) /\ Len(slice_states') = Count
    BY <2>1, <2>2, <2>4
  <2>6. slice_layouts' \in Seq(Rasters) /\ Len(slice_layouts') = Count
    BY <1>3, <2>1 DEF Layouts
  <2>7. RasterContinuity'
    <3> SUFFICES ASSUME NEW i \in 1..Count,
                        NEW k \in DOMAIN DecodedState(Start(i), Slices[i])
                 PROVE  DecodedState(Start(i), Slices[i])[k].raster = Slices[i].raster
      BY <1>3, <2>1, <2>2 DEF RasterContinuity, Layouts
    <3>1. call.keyframe \/ Continues(Slices, slice_states, slice_layouts)
      BY <1>1 DEF IInv, CallInv, Admissible
    <3>2. \A m \in 1..Len(Start(i)) : Start(i)[m].raster = Slices[i].raster
      BY <2>1, <3>1, StartType DEF IInv
    <3>3. /\ Len(Start(i)) \in Nat /\ Start(i) \in Seq(Record)
          /\ Slices[i] \in Slice /\ Decodes(Slices[i])
      BY <2>1, <2>3, LenProperties
    <3>4. /\ Len(DecodedState(Start(i), Slices[i])) = Len(Start(i)) + 1
          /\ \A m \in 1..Len(Start(i)) :
               DecodedState(Start(i), Slices[i])[m] = Start(i)[m]
          /\ DecodedState(Start(i), Slices[i])[Len(Start(i)) + 1].raster = Slices[i].raster
      BY <3>3, DecodedStateType
    <3>5. k \in 1..(Len(Start(i)) + 1)
      BY <2>4, <3>4, LenProperties
    <3>6. QED
      BY <3>2, <3>3, <3>4, <3>5
  <2>8. QED
    BY <1>1, <1>3, <2>5, <2>6, <2>7, ReturnInv DEF Codes
<1>4. QED
  BY <1>2, <1>3 DEF Report

\* Nothing of the invariant depends on more than the variables.
LEMMA StutterInv ==
  ASSUME IInv, UNCHANGED vars
  PROVE  IInv'
<1> USE DEF vars, callVars
<1>1. TypeOK' /\ RasterContinuity'
  BY DEF IInv, TypeOK, RasterContinuity
<1>2. CallInv'
  BY DEF IInv, CallInv, Decoding, Slices, Count
<1>3. CountInv'
  BY DEF IInv, CountInv, Decoding, Count, Indexes
<1>4. PhaseInv'
  BY DEF IInv, PhaseInv, Failed, ParallelSafe, BatchEnd, WorkerCount, Count, Slices
<1>5. ResultInv'
  BY DEF IInv, ResultInv, Decoding, Indexes, Slices, Start
<1>6. QED
  BY <1>1, <1>2, <1>3, <1>4, <1>5 DEF IInv

LEMMA Invariance == Spec => []IInv
<1>1. IInv /\ [Next]_vars => IInv'
  <2> SUFFICES ASSUME IInv, [Next]_vars PROVE IInv'
    OBVIOUS
  <2>1. ASSUME NEW frame \in Frames, NEW key \in BOOLEAN, Decode(frame, key)
        PROVE  IInv'
    BY <2>1, DecodeInv
  <2>2. CASE CallingThread
    BY <2>2, ValidateInv, MatchReferencesInv, SerialDecodeInv, LaunchWorkerInv,
       UnwindInv, JoinInv, ReportInv DEF CallingThread
  <2>3. CASE LaunchFails
    BY <2>3, LaunchFailsInv
  <2>4. ASSUME NEW i \in DOMAIN future, Worker(i)
        PROVE  IInv'
    BY <2>4, WorkerInv
  <2>5. CASE UNCHANGED vars
    BY <2>5, StutterInv
  <2>6. QED
    BY <2>1, <2>2, <2>3, <2>4, <2>5 DEF Next
<1>2. QED
  BY InitInv, <1>1, PTL DEF Spec

(***************************************************************************)
(* What a caller of SliceExecutor::decode relies on.                       *)
(***************************************************************************)

\* Every variable keeps its type: in particular no half-written state of a
\* failed slice is ever committed as a reference state.
THEOREM TypeCorrect == Spec => []TypeOK
BY Invariance, PTL DEF IInv

\* A reference state is never continued for another rectangle than its own.
THEOREM RasterContinuous == Spec => []RasterContinuity
BY Invariance, PTL DEF IInv

\* decode_parallel never leaves a worker behind: neither its normal return nor
\* an exception of std::async overtakes a worker that still holds pointers.
THEOREM NoWorkerIsOrphaned == Spec => []NoOrphanWorker
BY NobodyRuns, Invariance, PTL

\* Workers that run together write disjoint parts of the caller's frame.
THEOREM WorkersAreDisjoint == Spec => []NoSharedCell
<1>1. IInv /\ NoOrphanWorker => NoSharedCell
  <2> SUFFICES ASSUME IInv, NoOrphanWorker,
                      NEW i \in Running, NEW j \in Running, i # j
               PROVE  Cover[Slices[i].raster] \cap Cover[Slices[j].raster] = {}
    BY DEF NoSharedCell
  <2>1. pc \in {"launch", "join", "unwind"} /\ Decoding
    BY DEF NoOrphanWorker, Decoding
  <2>2. i \in DOMAIN Slices /\ j \in DOMAIN Slices
    BY <2>1, DecodingFacts DEF Running, Indexes, Slices
  <2>3. Disjoint(Slices)
    BY <2>1 DEF IInv, PhaseInv, ParallelSafe, CoverageValid
  <2>4. QED
    BY <2>2, <2>3 DEF Disjoint
<1>2. QED
  BY <1>1, Invariance, NoWorkerIsOrphaned, PTL

\* The batches never run more workers than the configured thread count.
THEOREM ThreadsAreBounded == Spec => []ThreadsBounded
<1>1. IInv /\ NoOrphanWorker => ThreadsBounded
  <2> SUFFICES ASSUME IInv, NoOrphanWorker PROVE ThreadsBounded
    OBVIOUS
  <2>1. CASE Running = {}
    <3>1. Cardinality({}) = 0
      BY FS_EmptySet
    <3>2. thread_count \in Nat
      BY FrameAssumption DEF IInv, TypeOK
    <3>3. QED
      BY <2>1, <3>1, <3>2 DEF ThreadsBounded
  <2>2. CASE Running # {}
    <3>1. pc \in {"launch", "join", "unwind"} /\ Decoding
      BY <2>2 DEF NoOrphanWorker, Decoding
    <3>2. /\ Count \in Nat /\ Indexes = 1..Count /\ DOMAIN future = Indexes
          /\ thread_count \in Nat
          /\ offset \in Nat /\ joined \in Nat /\ launched \in Nat
          /\ offset <= joined /\ launched <= BatchEnd
          /\ \A i \in Indexes : future[i] = "none" <=> i > launched
          /\ \A i \in Indexes : i <= joined => future[i] # "running"
      BY <3>1, DecodingFacts, CallFacts DEF IInv, CountInv, PhaseInv, TypeOK
    <3>3. BatchEnd <= offset + thread_count
      BY <3>2 DEF BatchEnd, WorkerCount
    <3>4. Running \subseteq (offset + 1)..launched
      BY <3>2 DEF Running
    <3>5. offset + 1 \in Int /\ launched \in Int
      BY <3>2
    <3>6. /\ IsFiniteSet((offset + 1)..launched)
          /\ Cardinality((offset + 1)..launched) =
               IF offset + 1 > launched THEN 0 ELSE launched - (offset + 1) + 1
      BY <3>5, FS_Interval
    <3>7. Cardinality((offset + 1)..launched) <= thread_count
      BY <3>2, <3>3, <3>6 DEF BatchEnd, WorkerCount
    <3>8. Running \in SUBSET ((offset + 1)..launched)
      BY <3>4
    <3>9. /\ IsFiniteSet(Running)
          /\ Cardinality(Running) <= Cardinality((offset + 1)..launched)
      BY <3>6, <3>8, FS_Subset
    <3>10. Cardinality(Running) \in Nat /\ Cardinality((offset + 1)..launched) \in Nat
      BY <3>6, <3>9, FS_CardinalityType
    <3>11. QED
      BY <3>2, <3>7, <3>9, <3>10 DEF ThreadsBounded
  <2>3. QED
    BY <2>1, <2>2
<1>2. QED
  BY <1>1, Invariance, NoWorkerIsOrphaned, PTL

\* The reference states always belong to one frame, whatever failed in between.
THEOREM DepthIsCommon == Spec => []SameDepth
<1>1. Init => SameDepth
  BY DEF Init, SameDepth
<1>2. IInv /\ SameDepth /\ [Next]_vars => SameDepth'
  <2> SUFFICES ASSUME IInv, SameDepth, [Next]_vars PROVE SameDepth'
    OBVIOUS
  <2>1. CASE UNCHANGED slice_states
    BY <2>1 DEF SameDepth
  <2>2. CASE /\ pc = "report" /\ Failed = {}
             /\ slice_states' = working_states
    <3>1. /\ Decoding /\ TypeOK /\ Count \in Nat /\ Indexes = 1..Count
          /\ DOMAIN Slices = 1..Count
          /\ \A i \in Indexes : Slices[i] \in Slice /\ Start(i) \in Seq(Record)
          /\ call # NoCall
      BY <2>2, DecodingFacts, CallFacts DEF Decoding, Indexes, Slices
    <3>2. /\ Failing(Slices) = {}
          /\ slice_states' = [i \in 1..Count |-> DecodedState(Start(i), Slices[i])]
      BY <2>2, <3>1, Outcomes
    <3>3. \A i \in 1..Count : Len(slice_states'[i]) = Len(Start(i)) + 1
      BY <3>1, <3>2, DecodedStateType DEF Failing
    <3>4. ASSUME NEW i \in 1..Count, NEW j \in 1..Count
          PROVE  Len(Start(i)) = Len(Start(j))
      <4>1. CASE call.keyframe
        BY <4>1 DEF Start, StartState
      <4>2. CASE ~call.keyframe
        <5> DEFINE reference(k) == ReferenceOf(Slices, slice_layouts, k)
        <5>1. /\ Continues(Slices, slice_states, slice_layouts)
              /\ Slices \in Frames /\ slice_layouts \in Seq(Rasters)
              /\ slice_states \in Seq(Seq(Record))
          BY <3>1, <4>2, CallFacts DEF IInv, CallInv, Admissible, TypeOK
        <5>2. reference(i) \in DOMAIN slice_layouts /\ reference(j) \in DOMAIN slice_layouts
          BY <3>1, <5>1, ReferenceMatches
        <5>3. DOMAIN slice_layouts = DOMAIN slice_states
          BY <5>1, LenProperties DEF Continues
        <5>4. Start(i) = slice_states[reference(i)] /\ Start(j) = slice_states[reference(j)]
          BY <4>2 DEF Start, StartState, Slices
        <5>5. QED
          BY <5>2, <5>3, <5>4 DEF SameDepth
      <4>3. QED
        BY <4>1, <4>2
    <3>5. DOMAIN slice_states' = 1..Count
      BY <3>2
    <3>6. QED
      BY <3>3, <3>4, <3>5 DEF SameDepth
  <2>3. QED
    BY <2>1, <2>2
    DEF Next, CallingThread, Decode, Validate, MatchReferences, SerialDecode,
        LaunchWorker, LaunchFails, Unwind, Worker, Join, Report, Refuse, vars
<1>3. QED
  BY <1>1, <1>2, Invariance, PTL DEF Spec

(***************************************************************************)
(* The caller's frame.                                                     *)
(***************************************************************************)

\* Until its slice is decoded, a window is as the call found it.
OutputInv ==
  /\ pc \in {"validate", "match"} => output = [c \in Cells |-> Stale]
  /\ OutputFaithful

\* The decode of slice i writes the window of slice i, as OutputFaithful says,
\* and, when the slices tile the frame, no cell of another window.
LEMMA WindowWritten ==
  ASSUME IInv, OutputFaithful, Decoding, NEW i \in Indexes,
         future[i] \in {"none", "running"},
         DecodeSlice(i), UNCHANGED <<slice_states, slice_layouts, call>>
  PROVE  OutputFaithful'
<1>1. /\ TypeOK /\ Indexes = 1..Count /\ call # NoCall
      /\ DOMAIN future = Indexes /\ DOMAIN Slices = Indexes
      /\ \A j \in Indexes : Slices[j] \in Slice /\ Slices[j].raster \in Rasters
  BY DecodingFacts, CallFacts DEF Indexes, Slices
<1>2. /\ future'[i] = IF Decodes(Slices[i]) THEN "ok" ELSE "failed"
      /\ \A j \in Indexes : j # i => future'[j] = future[j]
      /\ DOMAIN future' = Indexes
  BY <1>1, DecodeEffect DEF DecodeSlice
<1>3. \A j \in Indexes : Cover[Slices[j].raster] \subseteq Cells
  BY <1>1, RasterAssumption
<1>4. ASSUME NEW j \in Indexes, NEW c \in Cover[Slices[j].raster], CoverageValid(Slices)
      PROVE  /\ future'[j] = "ok" =>
                  output'[c] = [raster |-> Slices[j].raster, body |-> Body(Slices[j])]
             /\ future'[j] \in {"none", "running"} => output'[c] = Stale
             /\ future'[j] = "failed" /\ HasReadAhead(Slices[j]) => output'[c] = Stale
  <2>1. c \in Cells
    BY <1>3, <1>4
  <2>2. CASE j = i
    <3>1. output'[c] = CellAfter(Slices[i], output[c])
      BY <1>4, <2>1, <2>2 DEF DecodeSlice
    <3>2. output[c] = Stale
      BY <1>1, <1>4, <2>2 DEF OutputFaithful
    <3>3. QED
      BY <1>2, <2>2, <3>1, <3>2 DEF CellAfter
  <2>3. CASE j # i
    <3>1. c \notin Cover[Slices[i].raster]
      BY <1>1, <1>4, <2>3 DEF CoverageValid, Disjoint
    <3>2. output'[c] = output[c]
      BY <2>1, <3>1 DEF DecodeSlice
    <3>3. QED
      BY <1>1, <1>2, <1>4, <2>3, <3>2 DEF OutputFaithful
  <2>4. QED
    BY <2>2, <2>3
<1>5. Slices' = Slices
  BY DEF Slices
<1>6. QED
  BY <1>2, <1>4, <1>5 DEF OutputFaithful

\* Each window shows the accepted body of its own slice, or nothing of it.
THEOREM OutputIsFaithful == Spec => []OutputFaithful
<1>1. Init => OutputInv
  BY DEF Init, OutputInv, OutputFaithful
<1>2. IInv /\ OutputInv /\ [Next]_vars => OutputInv'
  <2> SUFFICES ASSUME IInv, OutputInv, [Next]_vars PROVE OutputInv'
    OBVIOUS
  <2>1. ASSUME NEW frame \in Frames, NEW key \in BOOLEAN, Decode(frame, key)
        PROVE  OutputInv'
    <3>1. future' = <<>> /\ DOMAIN <<>> = {}
      BY <2>1 DEF Decode, IInv, CallInv, Decoding
    <3>2. QED
      BY <2>1, <3>1 DEF Decode, OutputInv, OutputFaithful
  <2>2. ASSUME NEW code, NEW slice, Return(code, slice)
        PROVE  OutputInv'
    BY <2>2 DEF Return, OutputInv, OutputFaithful
  <2>3. CASE pc' = "match" /\ Validate
    <3>1. UNCHANGED <<output, future, call>> /\ pc = "validate"
      BY <2>3 DEF Validate, Refuse, Return
    <3>2. QED
      BY <2>3, <3>1 DEF OutputInv, OutputFaithful, Slices
  <2>4. CASE /\ pc = "match" /\ pc' \in {"launch", "serial"}
             /\ future' = [i \in Indexes |-> "none"]
             /\ UNCHANGED <<output, call>>
    <3>1. call # NoCall /\ Slices' = Slices /\ DOMAIN Slices = Indexes
      BY <2>4 DEF IInv, CallInv, Slices, Indexes
    <3>2. \A i \in Indexes : Cover[Slices[i].raster] \subseteq Cells
      BY <3>1, CallFacts, RasterAssumption DEF IInv
    <3>3. QED
      BY <2>4, <3>1, <3>2 DEF OutputInv, OutputFaithful
  <2>5. CASE SerialDecode
    <3>1. /\ Decoding /\ joined + 1 \in Indexes /\ future[joined + 1] = "none"
          /\ pc' \in {"serial", "report"}
      BY <2>5, DecodingFacts
      DEF SerialDecode, Decoding, IInv, PhaseInv, CountInv, TypeOK
    <3>2. DecodeSlice(joined + 1) /\ UNCHANGED <<slice_states, slice_layouts, call>>
      BY <2>5 DEF SerialDecode
    <3>3. OutputFaithful'
      BY <3>1, <3>2, WindowWritten DEF OutputInv
    <3>4. QED
      BY <3>1, <3>3 DEF OutputInv
  <2>6. ASSUME NEW i \in DOMAIN future, Worker(i)
        PROVE  OutputInv'
    <3>1. i \in DOMAIN future /\ future[i] = "running" /\ DecodeSlice(i)
          /\ UNCHANGED <<slice_states, slice_layouts, call, pc>>
      BY <2>6 DEF Worker, Running
    <3>2. Decoding
      <4>1. (~Decoding => future = <<>>) /\ DOMAIN <<>> = {}
        BY DEF IInv, CallInv
      <4>2. QED
        BY <3>1, <4>1
    <3>3. i \in Indexes
      BY <3>1, <3>2, DecodingFacts
    <3>4. OutputFaithful'
      BY <3>1, <3>2, <3>3, WindowWritten DEF OutputInv
    <3>5. QED
      BY <3>1, <3>2, <3>4 DEF OutputInv, Decoding
  <2>7. CASE LaunchWorker
    <3> DEFINE i == launched + 1
    <3>1. /\ pc = "launch" /\ Decoding /\ pc' \in {"launch", "join"}
          /\ future' = [future EXCEPT ![i] = "running"]
          /\ UNCHANGED <<output, call>>
      BY <2>7 DEF LaunchWorker, Decoding
    <3>2. /\ DOMAIN future = Indexes /\ Indexes = 1..Count /\ Count \in Nat
          /\ launched \in Nat /\ launched < BatchEnd /\ BatchEnd \in Nat
          /\ BatchEnd <= Count
      BY <3>1, DecodingFacts DEF IInv, PhaseInv, TypeOK
    <3>3. i \in Indexes /\ future[i] = "none" /\ DOMAIN future' = Indexes
      BY <3>1, <3>2 DEF IInv, CountInv
    <3>4. \A j \in Indexes : future'[j] = future[j] \/ (j = i /\ future'[j] = "running")
      BY <3>1, <3>2
    <3>5. QED
      BY <3>1, <3>2, <3>3, <3>4 DEF OutputInv, OutputFaithful, Slices
  <2>8. CASE LaunchFails \/ Join \/ UNCHANGED vars
    <3>1. UNCHANGED <<output, call, future>>
      BY <2>8 DEF LaunchFails, Join, vars, callVars
    <3>2. pc' \in {"validate", "match"} => pc' = pc
      BY <2>8 DEF LaunchFails, Join, vars, callVars
    <3>3. QED
      BY <3>1, <3>2 DEF OutputInv, OutputFaithful, Slices
  <2>9. QED
    BY <2>1, <2>2, <2>3, <2>4, <2>5, <2>6, <2>7, <2>8
    DEF Next, CallingThread, Validate, MatchReferences, Unwind, Report, Refuse
<1>3. QED
  BY <1>1, <1>2, Invariance, PTL DEF Spec, OutputInv

(***************************************************************************)
(* Refinement: the executor implements AtomicExecutor.  AtomicExecutor     *)
(* brings its own copies of the operators of SliceDecoding, which are      *)
(* equal to the copies the executor uses.                                  *)
(***************************************************************************)
LEMMA SameFirst ==
  ASSUME NEW S
  PROVE  Atomic!First(S) = First(S)
BY DEF Atomic!First, First

LEMMA SameDecodes ==
  ASSUME NEW slice
  PROVE  /\ Atomic!Decodes(slice) = Decodes(slice)
         /\ Atomic!Accepted(slice) = Accepted(slice)
BY DEF Atomic!Decodes, Atomic!Accepted, Decodes, Accepted

LEMMA SameDecodedState ==
  ASSUME NEW state, NEW slice
  PROVE  Atomic!DecodedState(state, slice) = DecodedState(state, slice)
BY SameFirst, SameDecodes DEF Atomic!DecodedState, DecodedState, Atomic!Body, Body

LEMMA SameFailing ==
  ASSUME NEW slices
  PROVE  Atomic!Failing(slices) = Failing(slices)
BY SameDecodes DEF Atomic!Failing, Failing

LEMMA SameLayouts ==
  ASSUME NEW slices
  PROVE  Atomic!Layouts(slices) = Layouts(slices)
BY DEF Atomic!Layouts, Layouts

LEMMA SameReference ==
  ASSUME NEW slices, NEW layouts, NEW i
  PROVE  Atomic!ReferenceOf(slices, layouts, i) = ReferenceOf(slices, layouts, i)
<1>1. \A l, j : Atomic!Rank(l, j) = Rank(l, j)
  <2>1. \A S : Atomic!Cardinality(S) = Cardinality(S)
    BY DEF Atomic!Cardinality, Cardinality
  <2>2. QED
    BY <2>1 DEF Atomic!Rank, Rank, Atomic!SortsBefore, SortsBefore
<1>2. QED
  BY <1>1, SameLayouts DEF Atomic!ReferenceOf, ReferenceOf

LEMMA SameStart ==
  ASSUME NEW slices, NEW key, NEW states, NEW layouts, NEW i
  PROVE  Atomic!StartState(slices, key, states, layouts, i)
           = StartState(slices, key, states, layouts, i)
BY SameReference DEF Atomic!StartState, StartState, Atomic!Fresh, Fresh

LEMMA SameAdmissible ==
  ASSUME NEW slices, NEW key, NEW states, NEW layouts, NEW threads
  PROVE  Atomic!Admissible(slices, key, states, layouts, threads)
           <=> Admissible(slices, key, states, layouts, threads)
<1>1. Atomic!CoverageAccepted(slices, threads) <=> CoverageAccepted(slices, threads)
  BY DEF Atomic!CoverageAccepted, CoverageAccepted, Atomic!CoverageValid, CoverageValid,
         Atomic!Disjoint, Disjoint, Atomic!Covered, Covered
<1>2. Atomic!Invalid(slices) = Invalid(slices)
  BY DEF Atomic!Invalid, Invalid, Atomic!Valid, Valid
<1>3. Atomic!Mismatched(slices, layouts) = Mismatched(slices, layouts)
  BY SameReference DEF Atomic!Mismatched, Mismatched
<1>4. QED
  BY <1>1, <1>2, <1>3
  DEF Atomic!Admissible, Admissible, Atomic!Continues, Continues

\* What a call may assume once its slices are admitted.
LEMMA CanDecodeWhileDecoding ==
  ASSUME IInv, Decoding
  PROVE  Atomic!CanDecode /\ call # NoCall
<1>1. Admissible(call.slices, call.keyframe, slice_states, slice_layouts, thread_count)
  BY DEF IInv, CallInv, Slices
<1>2. QED
  BY <1>1, SameAdmissible, DecodingFacts DEF Atomic!CanDecode

\* A call that is refused before its slices are decoded is not admissible.
LEMMA RefuseRefines ==
  ASSUME IInv, call # NoCall, NEW code \in Atomic!Refusals,
         NEW slice \in {0} \cup DOMAIN call.slices, Refuse(code, slice),
         ~Admissible(Slices, call.keyframe, slice_states, slice_layouts, thread_count)
  PROVE  Atomic!Refuse
<1>1. ~Atomic!CanDecode
  BY SameAdmissible DEF Atomic!CanDecode, Slices
<1>2. Atomic!Return(code, slice) /\ UNCHANGED <<slice_states, slice_layouts>>
  BY DEF Refuse, Return, Atomic!Return
<1>3. QED
  BY <1>1, <1>2 DEF Atomic!Refuse

LEMMA ReportRefines ==
  ASSUME IInv, Report
  PROVE  Atomic!Fail \/ Atomic!Commit
<1>1. pc = "report" /\ Decoding /\ Atomic!CanDecode /\ call # NoCall
  BY CanDecodeWhileDecoding DEF Report, Decoding
<1>2. CASE Failed # {} /\ Refuse("DecodeFailed", First(Failed))
  <2>1. /\ Failing(Slices) # {} /\ First(Failed) = First(Failing(Slices))
    BY <1>1, <1>2, Outcomes
  <2>2. /\ Atomic!Failing(call.slices) # {}
        /\ Atomic!First(Atomic!Failing(call.slices)) = First(Failed)
    BY <2>1, SameFailing, SameFirst DEF Slices
  <2>3. /\ Atomic!Return("DecodeFailed", First(Failed))
        /\ UNCHANGED <<slice_states, slice_layouts>>
    BY <1>2 DEF Refuse, Return, Atomic!Return
  <2>4. QED
    BY <1>1, <2>2, <2>3 DEF Atomic!Fail
<1>3. CASE /\ Failed = {}
           /\ slice_states' = working_states
           /\ slice_layouts' = Layouts(Slices)
           /\ Return("Ok", 0)
  <2>1. /\ Failing(Slices) = {}
        /\ slice_states' = [i \in DOMAIN Slices |-> DecodedState(Start(i), Slices[i])]
    BY <1>1, <1>3, Outcomes
  <2>2. Atomic!Failing(call.slices) = {} /\ slice_layouts' = Atomic!Layouts(call.slices)
    BY <1>3, <2>1, SameFailing, SameLayouts DEF Slices
  <2>3. slice_states' =
          [i \in DOMAIN call.slices |->
             Atomic!DecodedState(
               Atomic!StartState(call.slices, call.keyframe,
                                 slice_states, slice_layouts, i),
               call.slices[i])]
    BY <2>1, SameDecodedState, SameStart DEF Start, Slices
  <2>4. Atomic!Return("Ok", 0)
    BY <1>3 DEF Return, Atomic!Return
  <2>5. QED
    BY <1>1, <2>2, <2>3, <2>4 DEF Atomic!Commit
<1>4. QED
  BY <1>2, <1>3 DEF Report

LEMMA MatchRefines ==
  ASSUME IInv, MatchReferences
  PROVE  Atomic!Refuse \/ UNCHANGED Atomic!vars
<1>1. TypeOK /\ call # NoCall
  BY DEF IInv, CallInv, MatchReferences
<1>2. CASE \/ /\ ~call.keyframe
              /\ slice_states = <<>>
              /\ Refuse("NoReference", 0)
           \/ /\ ~call.keyframe
              /\ Len(slice_states) # Count
              /\ Refuse("SlicesDiffer", 0)
  BY <1>1, <1>2, RefuseRefines DEF Atomic!Refusals, Admissible, Continues, Count, Slices
<1>3. CASE /\ ~call.keyframe
           /\ Mismatched(Slices, slice_layouts) # {}
           /\ Refuse("LayoutDiffers", FirstMismatch)
  <2>1. FirstMismatch \in DOMAIN call.slices
    BY <1>1, <1>3, MismatchExists DEF Indexes
  <2>2. ~Admissible(Slices, call.keyframe, slice_states, slice_layouts, thread_count)
    BY <1>3 DEF Admissible, Continues
  <2>3. QED
    BY <1>1, <1>3, <2>1, <2>2, RefuseRefines DEF Atomic!Refusals
<1>4. CASE UNCHANGED <<thread_count, slice_states, slice_layouts, call, reply>>
  BY <1>4 DEF Atomic!vars
<1>5. QED
  BY <1>2, <1>3, <1>4 DEF MatchReferences

LEMMA ValidateRefines ==
  ASSUME IInv, Validate
  PROVE  Atomic!Refuse \/ UNCHANGED Atomic!vars
<1>1. TypeOK /\ call # NoCall
  BY DEF IInv, CallInv, Validate
<1>2. CASE ~CoverageAccepted(Slices, thread_count) /\ Refuse("Coverage", 0)
  BY <1>1, <1>2, RefuseRefines DEF Atomic!Refusals, Admissible
<1>3. CASE /\ Invalid(Slices) # {}
           /\ Refuse("InvalidSlice", First(Invalid(Slices)))
  <2>1. Invalid(Slices) \in SUBSET Nat
    BY <1>1, CallFacts DEF Invalid, Indexes, Slices
  <2>2. First(Invalid(Slices)) \in DOMAIN call.slices
    BY <1>3, <2>1, FirstIsLeast DEF Invalid, Slices
  <2>3. ~Admissible(Slices, call.keyframe, slice_states, slice_layouts, thread_count)
    BY <1>3 DEF Admissible
  <2>4. QED
    BY <1>1, <1>3, <2>2, <2>3, RefuseRefines DEF Atomic!Refusals
<1>4. CASE UNCHANGED <<thread_count, slice_states, slice_layouts, call, reply>>
  BY <1>4 DEF Atomic!vars
<1>5. QED
  BY <1>2, <1>3, <1>4 DEF Validate

\* Threads, batches, joins and read-ahead candidates are invisible to the caller.
THEOREM Refinement == Spec => ImplementsAtomic
<1>1. Init => Atomic!Init
  BY DEF Init, Atomic!Init, NoReply, Atomic!NoReply
<1>2. IInv /\ [Next]_vars => [Atomic!Next]_(Atomic!vars)
  <2> SUFFICES ASSUME IInv, [Next]_vars
               PROVE  Atomic!Next \/ UNCHANGED Atomic!vars
    OBVIOUS
  <2>1. ASSUME NEW frame \in Frames, NEW key \in BOOLEAN, Decode(frame, key)
        PROVE  Atomic!Submit(frame, key)
    <3>1. call = NoCall
      BY <2>1 DEF IInv, CallInv, Decode
    <3>2. QED
      BY <2>1, <3>1 DEF Decode, Atomic!Submit, NoReply, Atomic!NoReply
  <2>2. ASSUME Unwind
        PROVE  Atomic!Abort
    <3>1. Decoding /\ thread_count > 1
      BY <2>2 DEF Unwind, Decoding, IInv, PhaseInv, ParallelSafe
    <3>2. Atomic!CanDecode /\ call # NoCall
      BY <3>1, CanDecodeWhileDecoding
    <3>3. QED
      BY <2>2, <3>1, <3>2 DEF Unwind, Refuse, Return, Atomic!Abort, Atomic!Return
  <2>3. CASE \/ SerialDecode \/ LaunchWorker \/ LaunchFails \/ Join \/ UNCHANGED vars
             \/ \E i \in DOMAIN future : Worker(i)
    BY <2>3
    DEF SerialDecode, LaunchWorker, LaunchFails, Join, Worker, vars, Atomic!vars
  <2>4. QED
    BY <2>1, <2>2, <2>3, ValidateRefines, MatchRefines, ReportRefines
    DEF Next, CallingThread, Atomic!Next
<1>3. QED
  BY <1>1, <1>2, Invariance, PTL DEF Spec, ImplementsAtomic, Atomic!Spec
=============================================================================
