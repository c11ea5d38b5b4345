--------------------------- MODULE SliceDecoding ---------------------------
(***************************************************************************)
(* The data a slice executor works on, shared by the detailed executor     *)
(* (SliceExecutor) and by what it promises (AtomicExecutor).               *)
(*                                                                         *)
(* A slice descriptor is abstracted to its raster rectangle and to the     *)
(* contents its candidate boundaries give.  The entropy state of a slice   *)
(* is abstracted to the history that determines it: the slice bodies that  *)
(* were decoded into it since the last keyframe, with the raster rectangle *)
(* they were decoded for.                                                  *)
(***************************************************************************)
EXTENDS Integers, Sequences, FiniteSets

CONSTANTS
  Rasters,    \* raster rectangles, numbered in the order of their SliceLayout
  Cells,      \* the cells of the slice grid
  Cover,      \* Cover[r] is the set of cells rectangle r covers
  Bodies,     \* the slice contents that decode
  Corrupt,    \* a content that passes SliceDecoder::validate but not decode
  Malformed   \* a content that does not even pass SliceDecoder::validate

ASSUME RasterAssumption ==
  /\ Rasters \subseteq Nat
  /\ Cover \in [Rasters -> SUBSET Cells]

ASSUME ContentAssumption ==
  /\ Corrupt \notin Bodies
  /\ Malformed \notin Bodies
  /\ Corrupt # Malformed

Contents == Bodies \cup {Corrupt, Malformed}

(***************************************************************************)
(* candidates[1] is tried first; there is a second one only when the       *)
(* Golomb-Rice read-ahead boundary of the slice can be tried too.          *)
(***************************************************************************)
Slice ==
  [raster : Rasters,
   candidates : {<<c>> : c \in Contents} \cup (Contents \X Contents)]

HasReadAhead(slice) == Len(slice.candidates) = 2

(***************************************************************************)
(* Validation accepts a slice when any of its boundaries is well formed.   *)
(***************************************************************************)
Valid(slice) == \E k \in DOMAIN slice.candidates : slice.candidates[k] # Malformed

Accepted(slice) == {k \in DOMAIN slice.candidates : slice.candidates[k] \in Bodies}

Decodes(slice) == Accepted(slice) # {}

First(S) == CHOOSE i \in S : \A j \in S : i <= j

Body(slice) == slice.candidates[First(Accepted(slice))]

(***************************************************************************)
(* Entropy states.                                                         *)
(***************************************************************************)
Fresh == <<>>

Record == [raster : Rasters, body : Bodies]

\* Every candidate starts from a copy of the state the slice came with, so
\* only the accepted one leaves its mark.
DecodedState(state, slice) ==
  Append(state, [raster |-> slice.raster, body |-> Body(slice)])

(***************************************************************************)
(* The slices of a frame: sets of their indexes, and raster coverage.      *)
(***************************************************************************)
Invalid(slices) == {i \in DOMAIN slices : ~Valid(slices[i])}

Failing(slices) == {i \in DOMAIN slices : ~Decodes(slices[i])}

Disjoint(slices) ==
  \A i, j \in DOMAIN slices :
    i # j => Cover[slices[i].raster] \cap Cover[slices[j].raster] = {}

Covered(slices) == UNION {Cover[slices[i].raster] : i \in DOMAIN slices}

\* Deviation: the frame is covered, but perhaps twice.
CoverageOverlapping(slices) == Covered(slices) = Cells

CoverageValid(slices) == Disjoint(slices) /\ Covered(slices) = Cells

(***************************************************************************)
(* The pairing of the slices of a non-keyframe with the reference states:  *)
(* both are sorted by layout, and equal ranks are paired.  std::sort leaves *)
(* the order of equal layouts open; only overlapping slices have them, and *)
(* here they keep their payload order.                                     *)
(***************************************************************************)
Layouts(slices) == [i \in DOMAIN slices |-> slices[i].raster]

SortsBefore(layouts, i, j) ==
  layouts[i] < layouts[j] \/ (layouts[i] = layouts[j] /\ i < j)

Rank(layouts, i) == Cardinality({j \in DOMAIN layouts : SortsBefore(layouts, j, i)})

ReferenceOf(slices, layouts, i) ==
  CHOOSE j \in DOMAIN layouts : Rank(layouts, j) = Rank(Layouts(slices), i)

\* Deviation: only the number of slices is compared.
MismatchedIgnored(slices, layouts) == {}

Mismatched(slices, layouts) ==
  {i \in DOMAIN slices :
     slices[i].raster # layouts[ReferenceOf(slices, layouts, i)]}

\* Deviation: a keyframe resizes the old states instead of making fresh ones.
StartStateKept(slices, keyframe, states, layouts, i) ==
  IF keyframe THEN IF i \in DOMAIN states THEN states[i] ELSE Fresh
  ELSE states[ReferenceOf(slices, layouts, i)]

\* The state slice i is decoded from.
StartState(slices, keyframe, states, layouts, i) ==
  IF keyframe THEN Fresh ELSE states[ReferenceOf(slices, layouts, i)]

(***************************************************************************)
(* What decode() checks before it touches any slice.                       *)
(***************************************************************************)
CoverageAccepted(slices, threads) ==
  threads > 1 /\ Len(slices) >= 2 => CoverageValid(slices)

Continues(slices, states, layouts) ==
  /\ states # <<>>
  /\ Len(states) = Len(slices)
  /\ Len(layouts) = Len(states)
  /\ Mismatched(slices, layouts) = {}

Admissible(slices, keyframe, states, layouts, threads) ==
  /\ CoverageAccepted(slices, threads)
  /\ Invalid(slices) = {}
  /\ keyframe \/ Continues(slices, states, layouts)
=============================================================================
