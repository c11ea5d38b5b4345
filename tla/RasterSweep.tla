----------------------------- MODULE RasterSweep -----------------------------
(***************************************************************************)
(* validate_slice_raster_coverage: the area of the slices is summed up,    *)
(* and a sweep over the columns of the grid keeps the rows that are taken, *)
(* as a map from the first row of each active slice to the row behind it.  *)
(***************************************************************************)
EXTENDS SliceGrid, Sequences, FiniteSetsExt

CONSTANT
  Layouts     \* Layouts[stream]: the sequences of rectangles a frame may have

ASSUME LayoutsAssumption ==
  \A s \in Streams : Layouts[s] \subseteq Seq([x : Nat, y : Nat, width : Nat, height : Nat])

VARIABLES
  stream, slices,
  pc,             \* check, sweep, or done
  position,       \* the slices checked so far
  covered_area,   \* of the slices that still fit
  exceeds,        \* covered_area_exceeds_raster
  events,         \* the events that are not swept yet
  active,         \* a function from rows to rows
  status          \* [code, slice]; slice 0 is none

vars == <<stream, slices, pc, position, covered_area, exceeds, events, active, status>>

Ok == [code |-> "ok", slice |-> 0]

Init ==
  /\ stream \in Streams
  /\ slices \in Layouts[stream]
  /\ pc = "check"
  /\ position = 0
  /\ covered_area = 0 /\ exceeds = FALSE
  /\ events = {}
  /\ active = <<>>
  /\ status = Ok

CellCount == stream.h * stream.v

Return(code, slice) ==
  /\ pc' = "done"
  /\ status' = [code |-> code, slice |-> slice]
-----------------------------------------------------------------------------
SliceRefused(r) ==
  \/ Empty(r)
  \/ OutsideRaster(stream, r)
  \/ LimitsSlices(stream) /\ Area(r) > CellCount \div 4

CheckSlice ==
  LET r == slices[position + 1]
  IN /\ pc = "check" /\ position < Len(slices)
     /\ ~SliceRefused(r)
     /\ IF Area(r) > CellCount - covered_area
        THEN exceeds' = TRUE /\ UNCHANGED covered_area
        ELSE covered_area' = covered_area + Area(r) /\ UNCHANGED exceeds
     /\ events' = events \cup
          {[x |-> r.x, slice |-> position + 1, starts |-> TRUE],
           [x |-> r.x + r.width, slice |-> position + 1, starts |-> FALSE]}
     /\ position' = position + 1
     /\ UNCHANGED <<stream, slices, pc, active, status>>

RefuseSlice ==
  /\ pc = "check" /\ position < Len(slices)
  /\ SliceRefused(slices[position + 1])
  /\ Return("refused", position + 1)
  /\ UNCHANGED <<stream, slices, position, covered_area, exceeds, events, active>>

StartSweep ==
  /\ pc = "check" /\ position = Len(slices)
  /\ pc' = "sweep"
  /\ UNCHANGED <<stream, slices, position, covered_area, exceeds, events, active, status>>
-----------------------------------------------------------------------------
\* Deviation: at the same column, slices start before others end.
BeforeStartsFirst(e, f) ==
  \/ e.x < f.x
  \/ e.x = f.x /\ e.starts /\ ~f.starts
  \/ e.x = f.x /\ e.starts = f.starts /\ e.slice < f.slice

Before(e, f) ==
  \/ e.x < f.x
  \/ e.x = f.x /\ ~e.starts /\ f.starts
  \/ e.x = f.x /\ e.starts = f.starts /\ e.slice < f.slice

NextEvent == CHOOSE e \in events : \A f \in events \ {e} : Before(e, f)

\* lower_bound, and the interval before it.
From(row) == {y \in DOMAIN active : y >= row}
Under(row) == {y \in DOMAIN active : y < row}

Overlaps(r) ==
  \/ From(r.y) # {} /\ Min(From(r.y)) < r.y + r.height
  \/ Under(r.y) # {} /\ active[Max(Under(r.y))] > r.y

Erased(row) == [y \in DOMAIN active \ {row} |-> active[y]]

\* emplace leaves an interval that is there.
Emplaced(row, end) ==
  [y \in DOMAIN active \cup {row} |-> IF y \in DOMAIN active THEN active[y] ELSE end]

EndSlice ==
  /\ pc = "sweep" /\ events # {} /\ ~NextEvent.starts
  /\ active' = Erased(slices[NextEvent.slice].y)
  /\ events' = events \ {NextEvent}
  /\ UNCHANGED <<stream, slices, pc, position, covered_area, exceeds, status>>

BeginSlice ==
  LET r == slices[NextEvent.slice]
  IN /\ pc = "sweep" /\ events # {} /\ NextEvent.starts
     /\ ~Overlaps(r)
     /\ active' = Emplaced(r.y, r.y + r.height)
     /\ events' = events \ {NextEvent}
     /\ UNCHANGED <<stream, slices, pc, position, covered_area, exceeds, status>>

FindOverlap ==
  /\ pc = "sweep" /\ events # {} /\ NextEvent.starts
  /\ Overlaps(slices[NextEvent.slice])
  /\ Return("refused", NextEvent.slice)
  /\ UNCHANGED <<stream, slices, position, covered_area, exceeds, events, active>>

Finish ==
  /\ pc = "sweep" /\ events = {}
  /\ IF exceeds \/ covered_area # CellCount THEN Return("refused", 0) ELSE Return("ok", 0)
  /\ UNCHANGED <<stream, slices, position, covered_area, exceeds, events, active>>

Next ==
  \/ CheckSlice \/ RefuseSlice \/ StartSweep
  \/ EndSlice \/ BeginSlice \/ FindOverlap \/ Finish

Spec == Init /\ [][Next]_vars /\ WF_vars(Next)
-----------------------------------------------------------------------------
\* is_incomplete_slice_raster_coverage_status: an error without a slice.
Incomplete == status.code # "ok" /\ status.slice = 0

verdict ==
  IF pc # "done" THEN "none"
  ELSE IF status.code = "ok" THEN "complete"
  ELSE IF Incomplete THEN "incomplete"
  ELSE "refused"

Coverage ==
  INSTANCE RasterCoverage
  WITH stream <- stream, slices <- slices, verdict <- verdict

\* Sorting, the map of rows and the saturated sum of areas decide what the definition of
\* an exact cover decides (slice_raster_validator.cpp:36).
ImplementsCoverage == Coverage!Spec

\* An accepted frame writes each sample of a plane in exactly one slice.
WindowsPartition == Coverage!WindowsPartition

\* A grid that the encoder's profile accepts never fails later: every decoder accepts the
\* coverage and no slice has an empty window in any plane (encoder_profile.cpp:89).
EncoderGridAccepted ==
  ~ProfileRefused(stream) /\ slices = EncoderLayout(stream) =>
    /\ verdict \in {"none", "complete"}
    /\ \A i \in DOMAIN slices :
         ~InputRefused(stream, slices[i]) /\ ~OutputRefused(stream, slices[i])
-----------------------------------------------------------------------------
(***************************************************************************)
(* The inductive invariant.  The events that are swept come before those   *)
(* that are not; the slices that begun are disjoint; and the map holds the *)
(* rows of those that did not end yet.                                     *)
(***************************************************************************)
StartOf(i) == [x |-> slices[i].x, slice |-> i, starts |-> TRUE]
EndOf(i) == [x |-> slices[i].x + slices[i].width, slice |-> i, starts |-> FALSE]

EventsOf(n) == {StartOf(i) : i \in 1..n} \cup {EndOf(i) : i \in 1..n}

Begun == {i \in DOMAIN slices : StartOf(i) \notin events}
Open == {i \in Begun : EndOf(i) \in events}

End(i) == slices[i].y + slices[i].height

Apart(I) == \A i, j \in I : i # j => Cells(slices[i]) \cap Cells(slices[j]) = {}

Union(n) == UNION {Cells(slices[i]) : i \in 1..n}

TypeInv ==
  /\ stream \in Streams /\ slices \in Layouts[stream]
  /\ pc \in {"check", "sweep", "done"}

\* The sum of the areas is the number of cells covered, unless slices overlap.
AreaInv ==
  pc # "done" =>
    /\ position \in 0..Len(slices)
    /\ \A i \in 1..position : ~SliceRefused(slices[i])
    /\ Apart(1..position) => ~exceeds /\ covered_area = Cardinality(Union(position))

CheckInv == pc = "check" => events = EventsOf(position) /\ active = <<>>

OrderInv ==
  pc = "sweep" =>
    /\ position = Len(slices)
    /\ events \subseteq EventsOf(Len(slices))
    /\ \A e \in EventsOf(Len(slices)) \ events, f \in events : Before(e, f)

RowsInv ==
  pc = "sweep" =>
    /\ Apart(Begun)
    /\ DOMAIN active = {slices[i].y : i \in Open}
    /\ \A i \in Open : active[slices[i].y] = End(i)
    /\ \A i, j \in Open : i # j => End(i) <= slices[j].y \/ End(j) <= slices[i].y

VerdictInv == pc = "done" => verdict = Coverage!Verdict(stream, slices)

IInv == TypeInv /\ AreaInv /\ CheckInv /\ OrderInv /\ RowsInv /\ VerdictInv
=============================================================================
