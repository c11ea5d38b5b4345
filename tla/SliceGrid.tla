------------------------------ MODULE SliceGrid ------------------------------
(***************************************************************************)
(* From the cells of the slice grid to the samples of a plane.  A slice    *)
(* names a rectangle of cells; its window in a plane lies between scaled   *)
(* grid positions of the extent of that very plane, which for subsampled   *)
(* chroma is rounded up on its own.                                        *)
(***************************************************************************)
EXTENDS Integers

CONSTANTS
  CifPixels,   \* kVersion3CifPixelCount: 352 * 288
  Streams      \* the streams that are considered; h and v are num_h_slices and num_v_slices

ASSUME CifAssumption == CifPixels \in Nat

ASSUME StreamsAssumption ==
  \A s \in Streams :
    /\ {s.width, s.height} \subseteq Nat
    /\ {s.h, s.v, 2^s.log2_h, 2^s.log2_v} \subseteq Nat \ {0}
    /\ {s.chroma, s.rgb, s.extra} \subseteq BOOLEAN

Planes(s) == 1..(1 + (IF s.chroma THEN 2 ELSE 0) + (IF s.extra THEN 1 ELSE 0))

IsChroma(s, p) == s.chroma /\ p \in {2, 3}

SubsampledExtent(value, log2) == (value + 2^log2 - 1) \div 2^log2

PlaneWidth(s, p) ==
  IF ~s.rgb /\ IsChroma(s, p) THEN SubsampledExtent(s.width, s.log2_h) ELSE s.width

PlaneHeight(s, p) ==
  IF ~s.rgb /\ IsChroma(s, p) THEN SubsampledExtent(s.height, s.log2_v) ELSE s.height

ScaledGridPosition(extent, count, position) == (position * extent) \div count

\* What lies between two grid positions of an extent.
Between(extent, count, position, length) ==
  [from |-> ScaledGridPosition(extent, count, position),
   length |-> ScaledGridPosition(extent, count, position + length)
              - ScaledGridPosition(extent, count, position)]
-----------------------------------------------------------------------------
\* A rectangle of cells: [x, y, width, height : Nat].
Empty(r) == r.width = 0 \/ r.height = 0

Cells(r) == (r.x..(r.x + r.width - 1)) \X (r.y..(r.y + r.height - 1))

Area(r) == r.width * r.height

Grid(s) == (0..(s.h - 1)) \X (0..(s.v - 1))

OutsideRaster(s, r) ==
  \/ r.x > s.h \/ r.y > s.v
  \/ r.width > s.h - r.x \/ r.height > s.v - r.y

\* apply_raster: the samples of the slice in a full plane.
PixelColumns(s, r) == Between(s.width, s.h, r.x, r.width)
PixelRows(s, r) == Between(s.height, s.v, r.y, r.height)

\* Deviation: the columns of a chroma plane are those of the full plane, subsampled.
ColumnsSubsampled(s, r, p) ==
  LET full == PixelColumns(s, r)
  IN IF IsChroma(s, p)
     THEN [from |-> full.from \div 2^s.log2_h,
           length |-> SubsampledExtent(full.length, s.log2_h)]
     ELSE full

\* plane_x and slice_plane_width, plane_y and slice_plane_height.
Columns(s, r, p) ==
  IF IsChroma(s, p) THEN Between(PlaneWidth(s, p), s.h, r.x, r.width)
  ELSE PixelColumns(s, r)

Rows(s, r, p) ==
  IF IsChroma(s, p) THEN Between(PlaneHeight(s, p), s.v, r.y, r.height)
  ELSE PixelRows(s, r)

Window(s, r, p) ==
  LET columns == Columns(s, r, p)
      rows == Rows(s, r, p)
  IN (columns.from..(columns.from + columns.length - 1))
     \X (rows.from..(rows.from + rows.length - 1))

Exceeds(part, extent) == part.from > extent \/ part.length > extent - part.from

\* SliceOutputWindow::validate, for an output of the extents of the stream.
OutputRefused(s, r) ==
  \/ PixelColumns(s, r).length = 0 \/ PixelRows(s, r).length = 0
  \/ Exceeds(PixelColumns(s, r), s.width) \/ Exceeds(PixelRows(s, r), s.height)
  \/ \E p \in Planes(s) :
       Exceeds(Columns(s, r, p), PlaneWidth(s, p)) \/ Exceeds(Rows(s, r, p), PlaneHeight(s, p))

\* SliceInputWindow::validate; it refuses an empty window in any plane.
InputRefused(s, r) ==
  \/ PixelColumns(s, r).length = 0 \/ PixelRows(s, r).length = 0 \/ Empty(r)
  \/ \E p \in Planes(s) :
       \/ Columns(s, r, p).length = 0 \/ Rows(s, r, p).length = 0
       \/ Exceeds(Columns(s, r, p), PlaneWidth(s, p))
       \/ Exceeds(Rows(s, r, p), PlaneHeight(s, p))
-----------------------------------------------------------------------------
\* requires_version3_parallel_slice_limit.
LimitsSlices(s) == s.width * s.height > CifPixels

InvalidGeometry(s) ==
  \/ s.width = 0 \/ s.height = 0 \/ s.h = 0 \/ s.v = 0
  \/ s.rgb /\ (~s.chroma \/ s.log2_h # 0 \/ s.log2_v # 0)
  \/ ~s.chroma /\ (s.log2_h # 0 \/ s.log2_v # 0)
  \/ s.log2_h > 1 \/ s.log2_v > 1 \/ s.log2_v > s.log2_h

\* Deviation: the grid is compared with the first plane only.
ProfileRefusedByLuma(s) ==
  \/ InvalidGeometry(s)
  \/ LimitsSlices(s) /\ s.h * s.v < 4
  \/ s.h > PlaneWidth(s, 1) \/ s.v > PlaneHeight(s, 1)

\* normalize_encoder_profile, as far as it is about geometry.
ProfileRefused(s) ==
  \/ InvalidGeometry(s)
  \/ LimitsSlices(s) /\ s.h * s.v < 4
  \/ \E p \in Planes(s) : s.h > PlaneWidth(s, p) \/ s.v > PlaneHeight(s, p)

\* The encoder's slices are the cells, row by row.
EncoderLayout(s) ==
  [i \in 1..(s.h * s.v) |->
     [x |-> (i - 1) % s.h, y |-> (i - 1) \div s.h, width |-> 1, height |-> 1]]
=============================================================================
