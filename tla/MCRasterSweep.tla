---------------------------- MODULE MCRasterSweep ----------------------------
(***************************************************************************)
(* Small streams with every frame of a few slices: all the rectangles of   *)
(* the grid, an empty one, and one that leaves the grid.                   *)
(***************************************************************************)
EXTENDS RasterSweep, TLC

Yuv(width, height, log2_h, log2_v, h, v) ==
  [width |-> width, height |-> height, h |-> h, v |-> v, log2_h |-> log2_h,
   log2_v |-> log2_v, chroma |-> TRUE, rgb |-> FALSE, extra |-> FALSE]

\* 4:2:0 with odd extents, a frame above the limit, RGB with an extra plane, and grids that
\* are too fine for the chroma planes, for the limit, and for the frame.
Odd == Yuv(5, 3, 1, 1, 2, 2)
Even == Yuv(6, 4, 1, 1, 2, 1)
Limited == Yuv(7, 5, 1, 0, 2, 2)
Rgb == [Yuv(3, 3, 0, 0, 2, 1) EXCEPT !.rgb = TRUE, !.extra = TRUE]
Wide == Yuv(7, 3, 1, 1, 3, 2)
FineChroma == Yuv(4, 4, 1, 1, 3, 1)
FineLimited == Yuv(9, 4, 1, 1, 3, 1)
FineFrame == [Yuv(2, 3, 0, 0, 3, 1) EXCEPT !.chroma = FALSE]

MCStreams == {Odd, Even, Limited, Rgb, Wide, FineChroma, FineLimited, FineFrame}

Rectangles(s) ==
  {r \in [x : 0..(s.h - 1), y : 0..(s.v - 1), width : 1..s.h, height : 1..s.v] :
     ~OutsideRaster(s, r)}

Bad(s) ==
  {[x |-> 0, y |-> 0, width |-> 0, height |-> 1],
   [x |-> s.h, y |-> 0, width |-> 1, height |-> 1]}

MaxSlices(s) == IF s.v = 1 THEN 4 ELSE IF s.h = 2 THEN 4 ELSE 3

Inside(s) == UNION {[1..n -> Rectangles(s)] : n \in 1..MaxSlices(s)}

Frames(s) ==
  Inside(s) \cup {EncoderLayout(s)}
    \cup {<<r, b>> : r \in Rectangles(s), b \in Bad(s)}
    \cup {<<b, r>> : r \in Rectangles(s), b \in Bad(s)}

MCLayouts ==
  Odd :> Frames(Odd) @@ Even :> Frames(Even) @@ Limited :> Frames(Limited)
  @@ Rgb :> Frames(Rgb) @@ Wide :> Frames(Wide) @@ FineChroma :> Frames(FineChroma)
  @@ FineLimited :> Frames(FineLimited) @@ FineFrame :> Frames(FineFrame)
==============================================================================
