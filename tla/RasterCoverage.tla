--------------------------- MODULE RasterCoverage ---------------------------
(***************************************************************************)
(* What validate_slice_raster_coverage decides, said in cells: slices are  *)
(* accepted when each cell of the grid belongs to exactly one of them.     *)
(* Disjoint slices that leave cells out are told apart from the others, as *)
(* the frame parser goes on reading slices after them.                     *)
(***************************************************************************)
EXTENDS SliceGrid, Sequences

VARIABLES
  stream,
  slices,
  verdict     \* none, complete, incomplete, or refused

vars == <<stream, slices, verdict>>

\* Above CIF a slice may not have more than a quarter of the cells.
TooLarge(s, r) == LimitsSlices(s) /\ Area(r) > (s.h * s.v) \div 4

WellFormed(s, rectangles) ==
  \A i \in DOMAIN rectangles :
    ~Empty(rectangles[i]) /\ ~OutsideRaster(s, rectangles[i]) /\ ~TooLarge(s, rectangles[i])

Disjoint(rectangles) ==
  \A i, j \in DOMAIN rectangles :
    i # j => Cells(rectangles[i]) \cap Cells(rectangles[j]) = {}

Covered(rectangles) == UNION {Cells(rectangles[i]) : i \in DOMAIN rectangles}

Verdict(s, rectangles) ==
  IF ~WellFormed(s, rectangles) \/ ~Disjoint(rectangles) THEN "refused"
  ELSE IF Covered(rectangles) = Grid(s) THEN "complete"
  ELSE "incomplete"

Init ==
  /\ stream \in Streams
  /\ slices \in Seq([x : Nat, y : Nat, width : Nat, height : Nat])
  /\ verdict = "none"

Decide ==
  /\ verdict = "none"
  /\ verdict' = Verdict(stream, slices)
  /\ UNCHANGED <<stream, slices>>

Next == Decide

Spec == Init /\ [][Next]_vars /\ WF_vars(Next)
-----------------------------------------------------------------------------
\* However the samples of a plane are shared out, an accepted frame writes each of them in
\* exactly one slice, and no window is outside its plane (slice_output_window.cpp:94).
WindowsPartition ==
  verdict = "complete" =>
    \A p \in Planes(stream) :
      LET W(i) == Window(stream, slices[i], p)
      IN /\ \A i, j \in DOMAIN slices : i # j => W(i) \cap W(j) = {}
         /\ UNION {W(i) : i \in DOMAIN slices}
              = (0..(PlaneWidth(stream, p) - 1)) \X (0..(PlaneHeight(stream, p) - 1))
=============================================================================
