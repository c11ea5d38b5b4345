-------------------------- MODULE RasterSweepProofs --------------------------
(***************************************************************************)
(* Theorems about RasterSweep, for every stream, grid and set of slices.   *)
(* First the geometry: a sample lies in exactly one column and one row of  *)
(* the grid, and so in one cell; then the exact cover; then the sweep.     *)
(***************************************************************************)
EXTENDS RasterSweep, TLAPS, FiniteSetTheorems, WellFoundedInduction

\* A sample lies in a cell of its dimension.
In(extent, count, sample, cell) ==
  /\ ScaledGridPosition(extent, count, cell) <= sample
  /\ sample < ScaledGridPosition(extent, count, cell + 1)
-----------------------------------------------------------------------------
LEMMA LeastElement ==
  ASSUME NEW A \in SUBSET Nat, A # {}
  PROVE  \E least \in A : \A n \in A : least <= n
<1>1. PICK least \in A : \A n \in A : ~ (<<n, least>> \in OpToRel(<, Nat))
  BY NatLessThanWellFounded, WFMin
<1>2. ASSUME NEW n \in A, n < least
      PROVE  FALSE
  <2>1. <<n, least>> \in Nat \X Nat /\ <<n, least>>[1] < <<n, least>>[2]
    BY <1>2
  <2> QED BY <1>1, <2>1, Zenon DEF OpToRel
<1> QED BY <1>2

\* Division rounds down (stream_parameters.hpp:132).
LEMMA Quotient ==
  ASSUME NEW a \in Nat, NEW c \in Nat, c > 0
  PROVE  a \div c \in Nat /\ c * (a \div c) <= a /\ a < c * (a \div c) + c
OBVIOUS

LEMMA QuotientMonotone ==
  ASSUME NEW a \in Nat, NEW b \in Nat, NEW c \in Nat, c > 0, a <= b
  PROVE  a \div c <= b \div c
<1> DEFINE q == a \div c
           r == b \div c
<1>1. q \in Nat /\ c * q <= a
  BY Quotient
<1>2. r \in Nat /\ b < c * r + c
  BY Quotient
<1> HIDE DEF q, r
<1>3. ASSUME r < q PROVE FALSE
  <2>1. r + 1 <= q
    BY <1>1, <1>2, <1>3
  <2>2. c * (r + 1) <= c * q
    BY <1>1, <1>2, <2>1
  <2>3. c * (r + 1) = c * r + c
    BY <1>2
  <2> QED BY <1>1, <1>2, <2>2, <2>3
<1>4. q <= r
  BY <1>1, <1>2, <1>3
<1> QED BY <1>4 DEF q, r

\* Grid positions begin with 0, end with the extent, and never go back.
LEMMA Positions ==
  ASSUME NEW extent \in Nat, NEW count \in Nat \ {0}
  PROVE  /\ \A p \in Nat : ScaledGridPosition(extent, count, p) \in Nat
         /\ \A p, q \in Nat : p <= q => ScaledGridPosition(extent, count, p)
                                          <= ScaledGridPosition(extent, count, q)
         /\ ScaledGridPosition(extent, count, 0) = 0
         /\ ScaledGridPosition(extent, count, count) = extent
<1>1. ASSUME NEW p \in Nat PROVE p * extent \in Nat
  OBVIOUS
<1>2. ASSUME NEW p \in Nat PROVE ScaledGridPosition(extent, count, p) \in Nat
  BY <1>1, Quotient DEF ScaledGridPosition
<1>3. ASSUME NEW p \in Nat, NEW q \in Nat, p <= q
      PROVE  ScaledGridPosition(extent, count, p) <= ScaledGridPosition(extent, count, q)
  <2>1. p * extent <= q * extent
    BY <1>3
  <2> QED BY <1>1, <2>1, QuotientMonotone DEF ScaledGridPosition
<1>4. ScaledGridPosition(extent, count, 0) = 0
  BY DEF ScaledGridPosition
<1>5. ScaledGridPosition(extent, count, count) = extent
  <2> DEFINE q == (count * extent) \div count
  <2>1. q \in Nat /\ count * q <= count * extent /\ count * extent < count * q + count
    BY <1>1, Quotient
  <2> HIDE DEF q
  <2>2. q <= extent
    <3>1. ASSUME q >= extent + 1 PROVE FALSE
      <4>1. count * q >= count * (extent + 1)
        BY <2>1, <3>1
      <4> QED BY <2>1, <4>1
    <3> QED BY <2>1, <3>1
  <2>3. q >= extent
    <3>1. ASSUME extent >= q + 1 PROVE FALSE
      <4>1. count * extent >= count * (q + 1)
        BY <2>1, <3>1
      <4> QED BY <2>1, <4>1
    <3> QED BY <2>1, <3>1
  <2>4. q = extent
    BY <2>1, <2>2, <2>3
  <2> QED BY <2>4 DEF q, ScaledGridPosition
<1> QED BY <1>2, <1>3, <1>4, <1>5

\* Every sample lies in a cell.
LEMMA CellOfSample ==
  ASSUME NEW extent \in Nat, NEW count \in Nat \ {0}, NEW sample \in 0..(extent - 1)
  PROVE  \E cell \in 0..(count - 1) : In(extent, count, sample, cell)
<1> DEFINE f(p) == ScaledGridPosition(extent, count, p)
           behind == {p \in Nat : sample < f(p)}
<1>1. /\ \A p \in Nat : f(p) \in Nat
      /\ f(0) = 0 /\ f(count) = extent
  BY Positions
<1>2. count \in behind
  BY <1>1
<1>3. PICK least \in behind : \A p \in behind : least <= p
  BY <1>2, LeastElement
<1>4. least \in Nat /\ least # 0 /\ least <= count /\ sample < f(least)
  BY <1>1, <1>2, <1>3
<1>5. least - 1 \in Nat /\ least - 1 \notin behind
  BY <1>3, <1>4
<1>6. f(least - 1) <= sample
  BY <1>1, <1>5
<1>7. least - 1 \in 0..(count - 1) /\ In(extent, count, sample, least - 1)
  <2>1. (least - 1) + 1 = least
    BY <1>4
  <2> QED BY <1>4, <1>5, <1>6, <2>1 DEF In
<1> QED BY <1>7

\* What lies between two grid positions is what lies in the cells between them.
LEMMA SampleBetween ==
  ASSUME NEW extent \in Nat, NEW count \in Nat \ {0}, NEW sample \in Nat,
         NEW cell \in Nat, In(extent, count, sample, cell),
         NEW start \in Nat, NEW length \in Nat
  PROVE  LET part == Between(extent, count, start, length)
         IN sample \in part.from..(part.from + part.length - 1)
              <=> cell \in start..(start + length - 1)
<1> DEFINE f(p) == ScaledGridPosition(extent, count, p)
<1>1. /\ \A p \in Nat : f(p) \in Nat
      /\ \A p, q \in Nat : p <= q => f(p) <= f(q)
  BY Positions
<1>2. f(cell) <= sample /\ sample < f(cell + 1)
  BY DEF In
<1>3. /\ Between(extent, count, start, length).from = f(start)
      /\ Between(extent, count, start, length).length = f(start + length) - f(start)
  BY DEF Between
<1> HIDE DEF f
<1>4. f(start) \in Nat /\ f(start + length) \in Nat
  BY <1>1
<1>5. ASSUME cell \in start..(start + length - 1)
      PROVE  f(start) <= sample /\ sample < f(start + length)
  <2>1. f(start) <= f(cell) /\ f(cell + 1) <= f(start + length)
    BY <1>1, <1>5
  <2> QED BY <1>1, <1>2, <1>4, <2>1
<1>6. ASSUME f(start) <= sample, sample < f(start + length)
      PROVE  cell \in start..(start + length - 1)
  <2>1. ASSUME cell < start PROVE FALSE
    <3>1. f(cell + 1) <= f(start)
      BY <1>1, <2>1
    <3> QED BY <1>1, <1>2, <1>4, <1>6, <3>1
  <2>2. ASSUME cell >= start + length PROVE FALSE
    <3>1. f(start + length) <= f(cell)
      BY <1>1, <2>2
    <3> QED BY <1>1, <1>2, <1>4, <1>6, <3>1
  <2> QED BY <2>1, <2>2
<1> QED BY <1>3, <1>4, <1>5, <1>6
-----------------------------------------------------------------------------
\* The extents of a plane are natural numbers (stream_parameters.hpp:106).
LEMMA PlaneExtents ==
  ASSUME NEW s \in Streams, NEW p \in Planes(s)
  PROVE  PlaneWidth(s, p) \in Nat /\ PlaneHeight(s, p) \in Nat
<1>1. /\ s.width \in Nat /\ s.height \in Nat
      /\ 2^s.log2_h \in Nat \ {0} /\ 2^s.log2_v \in Nat \ {0}
  BY StreamsAssumption
<1>2. ASSUME NEW extent \in Nat, NEW log2, 2^log2 \in Nat \ {0}
      PROVE  SubsampledExtent(extent, log2) \in Nat
  <2> DEFINE d == 2^log2
  <2>1. d \in Nat /\ d > 0
    BY <1>2
  <2> HIDE DEF d
  <2>2. extent + d - 1 \in Nat
    BY <2>1
  <2>3. (extent + d - 1) \div d \in Nat
    BY <2>1, <2>2, Quotient
  <2> QED BY <2>3 DEF SubsampledExtent, d
<1>3. SubsampledExtent(s.width, s.log2_h) \in Nat /\ SubsampledExtent(s.height, s.log2_v) \in Nat
  BY <1>1, <1>2
<1> QED BY <1>1, <1>3 DEF PlaneWidth, PlaneHeight

\* The columns and rows of a slice lie between grid positions of the extent of
\* the plane itself, whichever plane it is.
LEMMA WindowOfPlane ==
  ASSUME NEW s \in Streams, NEW p \in Planes(s), NEW r
  PROVE  /\ Columns(s, r, p) = Between(PlaneWidth(s, p), s.h, r.x, r.width)
         /\ Rows(s, r, p) = Between(PlaneHeight(s, p), s.v, r.y, r.height)
BY DEF Columns, Rows, PixelColumns, PixelRows, PlaneWidth, PlaneHeight

Rectangles == [x : Nat, y : Nat, width : Nat, height : Nat]

\* A sample is in the window of a slice when its cell is in the slice.
LEMMA SampleInWindow ==
  ASSUME NEW s \in Streams, NEW p \in Planes(s), NEW r \in Rectangles,
         NEW a \in Nat, NEW b \in Nat, NEW c \in Nat, NEW d \in Nat,
         In(PlaneWidth(s, p), s.h, a, c), In(PlaneHeight(s, p), s.v, b, d)
  PROVE  <<a, b>> \in Window(s, r, p) <=> <<c, d>> \in Cells(r)
<1> DEFINE columns == Between(PlaneWidth(s, p), s.h, r.x, r.width)
           rows == Between(PlaneHeight(s, p), s.v, r.y, r.height)
<1>1. s.h \in Nat \ {0} /\ s.v \in Nat \ {0}
  BY StreamsAssumption
<1>2. PlaneWidth(s, p) \in Nat /\ PlaneHeight(s, p) \in Nat
  BY PlaneExtents
<1>3. r.x \in Nat /\ r.y \in Nat /\ r.width \in Nat /\ r.height \in Nat
  BY DEF Rectangles
<1>4. a \in columns.from..(columns.from + columns.length - 1)
        <=> c \in r.x..(r.x + r.width - 1)
  BY <1>1, <1>2, <1>3, SampleBetween
<1>5. b \in rows.from..(rows.from + rows.length - 1)
        <=> d \in r.y..(r.y + r.height - 1)
  BY <1>1, <1>2, <1>3, SampleBetween
<1>6. Columns(s, r, p) = columns /\ Rows(s, r, p) = rows
  BY WindowOfPlane
<1> HIDE DEF columns, rows
<1> QED BY <1>4, <1>5, <1>6 DEF Window, Cells

\* A slice within the grid has no samples outside the plane.
LEMMA WindowInPlane ==
  ASSUME NEW s \in Streams, NEW p \in Planes(s), NEW r \in Rectangles,
         ~OutsideRaster(s, r), NEW z \in Window(s, r, p)
  PROVE  \E a \in 0..(PlaneWidth(s, p) - 1), b \in 0..(PlaneHeight(s, p) - 1) : z = <<a, b>>
<1>1. s.h \in Nat \ {0} /\ s.v \in Nat \ {0}
  BY StreamsAssumption
<1>2. PlaneWidth(s, p) \in Nat /\ PlaneHeight(s, p) \in Nat
  BY PlaneExtents
<1>3. /\ r.x \in Nat /\ r.y \in Nat /\ r.width \in Nat /\ r.height \in Nat
      /\ r.x + r.width <= s.h /\ r.y + r.height <= s.v
  BY <1>1 DEF Rectangles, OutsideRaster
<1>4. ASSUME NEW extent \in Nat, NEW count \in Nat \ {0},
             NEW start \in Nat, NEW length \in Nat, start + length <= count
      PROVE  LET part == Between(extent, count, start, length)
             IN \A a \in part.from..(part.from + part.length - 1) : a \in 0..(extent - 1)
  <2> DEFINE f(q) == ScaledGridPosition(extent, count, q)
  <2>0. /\ \A q \in Nat : f(q) \in Nat
        /\ \A q, t \in Nat : q <= t => f(q) <= f(t)
        /\ f(count) = extent
    BY Positions
  <2>2. /\ Between(extent, count, start, length).from = f(start)
        /\ Between(extent, count, start, length).length = f(start + length) - f(start)
    BY DEF Between
  <2> HIDE DEF f
  <2>1. start + length \in Nat /\ count \in Nat
    OBVIOUS
  <2>3. /\ f(start) \in Nat /\ f(start + length) \in Nat
        /\ f(start + length) <= extent
    BY <2>0, <2>1, <1>4
  <2> QED BY <2>2, <2>3
<1>5. PICK a \in Columns(s, r, p).from..(Columns(s, r, p).from + Columns(s, r, p).length - 1),
           b \in Rows(s, r, p).from..(Rows(s, r, p).from + Rows(s, r, p).length - 1) :
        z = <<a, b>>
  BY DEF Window
<1>6. a \in 0..(PlaneWidth(s, p) - 1)
  BY <1>1, <1>2, <1>3, <1>4, <1>5, WindowOfPlane
<1>7. b \in 0..(PlaneHeight(s, p) - 1)
  BY <1>1, <1>2, <1>3, <1>4, <1>5, WindowOfPlane
<1> QED BY <1>5, <1>6, <1>7
-----------------------------------------------------------------------------
(***************************************************************************)
(* The exact cover.  RasterCoverage brings its own copies of the operators *)
(* of SliceGrid, which are equal to the copies the sweep uses.             *)
(***************************************************************************)
LEMMA SameGeometry ==
  ASSUME NEW s, NEW r
  PROVE  /\ Coverage!Cells(r) = Cells(r) /\ Coverage!Grid(s) = Grid(s)
         /\ Coverage!Empty(r) <=> Empty(r)
         /\ Coverage!OutsideRaster(s, r) <=> OutsideRaster(s, r)
         /\ Coverage!TooLarge(s, r) <=> LimitsSlices(s) /\ Area(r) > (s.h * s.v) \div 4
         /\ Coverage!Planes(s) = Planes(s)
<1>1. Coverage!Cells(r) = Cells(r) /\ Coverage!Grid(s) = Grid(s)
  BY DEF Coverage!Cells, Cells, Coverage!Grid, Grid
<1>2. Coverage!Empty(r) <=> Empty(r)
  BY DEF Coverage!Empty, Empty
<1>3. Coverage!OutsideRaster(s, r) <=> OutsideRaster(s, r)
  BY DEF Coverage!OutsideRaster, OutsideRaster
<1>4. Coverage!TooLarge(s, r) <=> LimitsSlices(s) /\ Area(r) > (s.h * s.v) \div 4
  BY DEF Coverage!TooLarge, Coverage!LimitsSlices, LimitsSlices, Coverage!Area, Area
<1>5. Coverage!Planes(s) = Planes(s)
  BY DEF Coverage!Planes, Planes
<1> QED BY <1>1, <1>2, <1>3, <1>4, <1>5

LEMMA SameWindow ==
  ASSUME NEW s, NEW r, NEW p
  PROVE  /\ Coverage!PlaneWidth(s, p) = PlaneWidth(s, p)
         /\ Coverage!PlaneHeight(s, p) = PlaneHeight(s, p)
         /\ Coverage!Window(s, r, p) = Window(s, r, p)
<1>1. \A v, l : Coverage!SubsampledExtent(v, l) = SubsampledExtent(v, l)
  BY DEF Coverage!SubsampledExtent, SubsampledExtent
<1>2. Coverage!IsChroma(s, p) <=> IsChroma(s, p)
  BY DEF Coverage!IsChroma, IsChroma
<1>3. /\ Coverage!PlaneWidth(s, p) = PlaneWidth(s, p)
      /\ Coverage!PlaneHeight(s, p) = PlaneHeight(s, p)
  BY <1>1, <1>2 DEF Coverage!PlaneWidth, PlaneWidth, Coverage!PlaneHeight, PlaneHeight
<1>4. \A e, c, q, l : Coverage!Between(e, c, q, l) = Between(e, c, q, l)
  BY DEF Coverage!Between, Between, Coverage!ScaledGridPosition, ScaledGridPosition
<1>5. /\ Coverage!PixelColumns(s, r) = PixelColumns(s, r)
      /\ Coverage!PixelRows(s, r) = PixelRows(s, r)
  BY <1>4 DEF Coverage!PixelColumns, PixelColumns, Coverage!PixelRows, PixelRows
<1>6. /\ Coverage!Columns(s, r, p) = Columns(s, r, p)
      /\ Coverage!Rows(s, r, p) = Rows(s, r, p)
  BY <1>2, <1>3, <1>4, <1>5 DEF Coverage!Columns, Columns, Coverage!Rows, Rows
<1>7. Coverage!Window(s, r, p) = Window(s, r, p)
  BY <1>6 DEF Coverage!Window, Window
<1> QED BY <1>3, <1>7

\* The verdict, in the words of the sweep: which slices are refused one by one,
\* which overlap, and which cells are covered.
LEMMA VerdictOfCover ==
  ASSUME slices \in Seq(Rectangles)
  PROVE  Coverage!Verdict(stream, slices) =
           IF (\E i \in DOMAIN slices : SliceRefused(slices[i])) \/ ~Apart(DOMAIN slices)
           THEN "refused"
           ELSE IF UNION {Cells(slices[i]) : i \in DOMAIN slices} = Grid(stream)
           THEN "complete" ELSE "incomplete"
<1>1. Coverage!WellFormed(stream, slices)
        <=> \A i \in DOMAIN slices : ~SliceRefused(slices[i])
  BY SameGeometry DEF Coverage!WellFormed, SliceRefused, CellCount
<1>2. Coverage!Disjoint(slices) <=> Apart(DOMAIN slices)
  BY SameGeometry DEF Coverage!Disjoint, Apart
<1>3. Coverage!Covered(slices) = UNION {Cells(slices[i]) : i \in DOMAIN slices}
  BY SameGeometry DEF Coverage!Covered
<1>4. Coverage!Grid(stream) = Grid(stream)
  BY SameGeometry
<1> QED BY <1>1, <1>2, <1>3, <1>4 DEF Coverage!Verdict

\* For every stream, grid and frame: slices that are accepted write each sample of
\* a plane exactly once, however its extent divides by the grid, and none outside.
LEMMA CoverGivesPartition ==
  ASSUME stream \in Streams, slices \in Seq(Rectangles),
         verdict = "complete" => Coverage!Verdict(stream, slices) = "complete"
  PROVE  WindowsPartition
<1> SUFFICES ASSUME verdict = "complete", NEW p \in Coverage!Planes(stream)
             PROVE  /\ \A i, j \in DOMAIN slices :
                         i # j => Coverage!Window(stream, slices[i], p)
                                    \cap Coverage!Window(stream, slices[j], p) = {}
                    /\ UNION {Coverage!Window(stream, slices[i], p) : i \in DOMAIN slices}
                         = (0..(Coverage!PlaneWidth(stream, p) - 1))
                           \X (0..(Coverage!PlaneHeight(stream, p) - 1))
  BY DEF WindowsPartition, Coverage!WindowsPartition
<1> DEFINE W(i) == Window(stream, slices[i], p)
           width == PlaneWidth(stream, p)
           height == PlaneHeight(stream, p)
<1>1. /\ stream \in Streams /\ p \in Planes(stream)
      /\ Coverage!Verdict(stream, slices) = "complete"
  BY SameGeometry
<1>2. /\ \A i \in DOMAIN slices : ~SliceRefused(slices[i])
      /\ Apart(DOMAIN slices)
      /\ UNION {Cells(slices[i]) : i \in DOMAIN slices} = Grid(stream)
  BY <1>1, VerdictOfCover
<1>3. \A i \in DOMAIN slices : slices[i] \in Rectangles /\ ~OutsideRaster(stream, slices[i])
  BY <1>2 DEF SliceRefused
<1>4. width \in Nat /\ height \in Nat /\ stream.h \in Nat \ {0} /\ stream.v \in Nat \ {0}
  BY <1>1, PlaneExtents, StreamsAssumption
<1>5. ASSUME NEW i \in DOMAIN slices, NEW z \in W(i)
      PROVE  \E a \in 0..(width - 1), b \in 0..(height - 1) : z = <<a, b>>
  BY <1>1, <1>3, WindowInPlane
<1> HIDE DEF width, height
<1>6. ASSUME NEW a \in 0..(width - 1), NEW b \in 0..(height - 1)
      PROVE  \E c \in 0..(stream.h - 1), d \in 0..(stream.v - 1) :
               \A i \in DOMAIN slices : <<a, b>> \in W(i) <=> <<c, d>> \in Cells(slices[i])
  <2>1. PICK c \in 0..(stream.h - 1) : In(width, stream.h, a, c)
    BY <1>4, CellOfSample
  <2>2. PICK d \in 0..(stream.v - 1) : In(height, stream.v, b, d)
    BY <1>4, CellOfSample
  <2>3. a \in Nat /\ b \in Nat /\ c \in Nat /\ d \in Nat
    BY <1>4
  <2>4. ASSUME NEW i \in DOMAIN slices
        PROVE  <<a, b>> \in W(i) <=> <<c, d>> \in Cells(slices[i])
    <3>1. slices[i] \in Rectangles
      BY <1>3
    <3> QED BY <1>1, <2>1, <2>2, <2>3, <3>1, SampleInWindow DEF width, height
  <2> QED BY <2>4
<1>7. ASSUME NEW i \in DOMAIN slices, NEW j \in DOMAIN slices, i # j
      PROVE  W(i) \cap W(j) = {}
  <2> SUFFICES ASSUME NEW z \in W(i), z \in W(j) PROVE FALSE
    OBVIOUS
  <2>1. PICK a \in 0..(width - 1), b \in 0..(height - 1) : z = <<a, b>>
    BY <1>5
  <2>2. PICK c \in 0..(stream.h - 1), d \in 0..(stream.v - 1) :
          \A n \in DOMAIN slices : <<a, b>> \in W(n) <=> <<c, d>> \in Cells(slices[n])
    BY <1>6
  <2> HIDE DEF W
  <2>3. <<c, d>> \in Cells(slices[i]) /\ <<c, d>> \in Cells(slices[j])
    BY <2>1, <2>2
  <2> QED BY <1>2, <1>7, <2>3 DEF Apart
<1>8. ASSUME NEW z \in (0..(width - 1)) \X (0..(height - 1))
      PROVE  \E i \in DOMAIN slices : z \in W(i)
  <2>1. PICK a \in 0..(width - 1), b \in 0..(height - 1) : z = <<a, b>>
    OBVIOUS
  <2>2. PICK c \in 0..(stream.h - 1), d \in 0..(stream.v - 1) :
          \A n \in DOMAIN slices : <<a, b>> \in W(n) <=> <<c, d>> \in Cells(slices[n])
    BY <1>6
  <2> HIDE DEF W
  <2>3. <<c, d>> \in UNION {Cells(slices[i]) : i \in DOMAIN slices}
    BY <1>2 DEF Grid
  <2>4. PICK i \in DOMAIN slices : <<c, d>> \in Cells(slices[i])
    BY <2>3
  <2> QED BY <2>1, <2>2, <2>4
<1>9. ASSUME NEW i \in DOMAIN slices, NEW z \in W(i)
      PROVE  z \in (0..(width - 1)) \X (0..(height - 1))
  BY <1>5
<1> HIDE DEF W
<1>10. UNION {W(i) : i \in DOMAIN slices} = (0..(width - 1)) \X (0..(height - 1))
  BY <1>8, <1>9
<1>11. /\ Coverage!PlaneWidth(stream, p) = width /\ Coverage!PlaneHeight(stream, p) = height
       /\ \A i : Coverage!Window(stream, slices[i], p) = W(i)
  BY SameWindow DEF W, width, height
<1> QED BY <1>7, <1>10, <1>11
-----------------------------------------------------------------------------
(***************************************************************************)
(* The first pass.  The sum of the areas is the number of cells covered,   *)
(* and it exceeds the grid only when slices overlap.                       *)
(***************************************************************************)
LEMMA IntervalCounted ==
  ASSUME NEW a \in Int, NEW b \in Int, a <= b + 1
  PROVE  IsFiniteSet(a..b) /\ Cardinality(a..b) = (b - a) + 1
<1>1. /\ IsFiniteSet(a..b)
      /\ Cardinality(a..b) = IF a > b THEN 0 ELSE b - a + 1
  BY FS_Interval
<1> DEFINE n == Cardinality(a..b)
<1>2. n = IF a > b THEN 0 ELSE b - a + 1
  BY <1>1
<1> HIDE DEF n
<1>3. n = (b - a) + 1
  BY <1>2
<1> QED BY <1>1, <1>3 DEF n

LEMMA CellsCounted ==
  ASSUME NEW r \in Rectangles
  PROVE  /\ IsFiniteSet(Cells(r))
         /\ Cardinality(Cells(r)) = Area(r) /\ Area(r) \in Nat
<1> DEFINE columns == r.x..(r.x + r.width - 1)
           rows == r.y..(r.y + r.height - 1)
<1>1. r.x \in Nat /\ r.y \in Nat /\ r.width \in Nat /\ r.height \in Nat
  BY DEF Rectangles
<1>2. IsFiniteSet(columns) /\ Cardinality(columns) = r.width
  <2>1. r.x \in Int /\ r.x + r.width - 1 \in Int /\ r.x <= (r.x + r.width - 1) + 1
    BY <1>1
  <2>2. IsFiniteSet(columns) /\ Cardinality(columns) = ((r.x + r.width - 1) - r.x) + 1
    BY <2>1, IntervalCounted
  <2> HIDE DEF columns
  <2> QED BY <1>1, <2>2
<1>3. IsFiniteSet(rows) /\ Cardinality(rows) = r.height
  <2>1. r.y \in Int /\ r.y + r.height - 1 \in Int /\ r.y <= (r.y + r.height - 1) + 1
    BY <1>1
  <2>2. IsFiniteSet(rows) /\ Cardinality(rows) = ((r.y + r.height - 1) - r.y) + 1
    BY <2>1, IntervalCounted
  <2> HIDE DEF rows
  <2> QED BY <1>1, <2>2
<1> HIDE DEF columns, rows
<1>4. IsFiniteSet(columns \X rows) /\ Cardinality(columns \X rows) = r.width * r.height
  BY <1>2, <1>3, FS_Product
<1>5. r.width * r.height \in Nat
  BY <1>1
<1> QED BY <1>4, <1>5 DEF Cells, Area, columns, rows

LEMMA GridCounted ==
  ASSUME stream \in Streams
  PROVE  /\ IsFiniteSet(Grid(stream))
         /\ Cardinality(Grid(stream)) = CellCount /\ CellCount \in Nat
<1> DEFINE columns == 0..(stream.h - 1)
           rows == 0..(stream.v - 1)
<1>1. stream.h \in Nat \ {0} /\ stream.v \in Nat \ {0}
  BY StreamsAssumption
<1>2. IsFiniteSet(columns) /\ Cardinality(columns) = stream.h
  <2>1. 0 \in Int /\ stream.h - 1 \in Int /\ 0 <= (stream.h - 1) + 1
    BY <1>1
  <2>2. IsFiniteSet(columns) /\ Cardinality(columns) = ((stream.h - 1) - 0) + 1
    BY <2>1, IntervalCounted
  <2> HIDE DEF columns
  <2> QED BY <1>1, <2>2
<1>3. IsFiniteSet(rows) /\ Cardinality(rows) = stream.v
  <2>1. 0 \in Int /\ stream.v - 1 \in Int /\ 0 <= (stream.v - 1) + 1
    BY <1>1
  <2>2. IsFiniteSet(rows) /\ Cardinality(rows) = ((stream.v - 1) - 0) + 1
    BY <2>1, IntervalCounted
  <2> HIDE DEF rows
  <2> QED BY <1>1, <2>2
<1> HIDE DEF columns, rows
<1>4. IsFiniteSet(columns \X rows) /\ Cardinality(columns \X rows) = stream.h * stream.v
  BY <1>2, <1>3, FS_Product
<1>5. stream.h * stream.v \in Nat
  BY <1>1
<1> QED BY <1>4, <1>5 DEF Grid, CellCount, columns, rows

LEMMA CellsInGrid ==
  ASSUME NEW s \in Streams, NEW r \in Rectangles, ~OutsideRaster(s, r)
  PROVE  Cells(r) \subseteq Grid(s)
<1>1. s.h \in Nat \ {0} /\ s.v \in Nat \ {0}
  BY StreamsAssumption
<1>2. /\ r.x \in Nat /\ r.y \in Nat /\ r.width \in Nat /\ r.height \in Nat
      /\ r.x + r.width <= s.h /\ r.y + r.height <= s.v
  BY <1>1 DEF Rectangles, OutsideRaster
<1>3. r.x..(r.x + r.width - 1) \subseteq 0..(s.h - 1)
  BY <1>1, <1>2
<1>4. r.y..(r.y + r.height - 1) \subseteq 0..(s.v - 1)
  BY <1>1, <1>2
<1> QED BY <1>3, <1>4 DEF Cells, Grid

LEMMA SlicesTyped ==
  ASSUME TypeInv
  PROVE  /\ stream \in Streams /\ slices \in Seq(Rectangles) /\ Len(slices) \in Nat
         /\ DOMAIN slices = 1..Len(slices)
         /\ \A i \in 1..Len(slices) : slices[i] \in Rectangles
<1>1. stream \in Streams /\ slices \in Seq(Rectangles)
  BY LayoutsAssumption DEF TypeInv, Rectangles
<1> QED BY <1>1

\* Slices that are not refused lie in the grid, and so do their cells.
LEMMA UnionInGrid ==
  ASSUME TypeInv, NEW n \in 0..Len(slices), \A i \in 1..n : ~SliceRefused(slices[i])
  PROVE  /\ Union(n) \subseteq Grid(stream)
         /\ IsFiniteSet(Union(n)) /\ Cardinality(Union(n)) \in Nat
         /\ Cardinality(Union(n)) <= CellCount
         /\ Cardinality(Union(n)) = CellCount => Union(n) = Grid(stream)
<1>1. ASSUME NEW i \in 1..n PROVE Cells(slices[i]) \subseteq Grid(stream)
  BY SlicesTyped, CellsInGrid DEF SliceRefused
<1>2. Union(n) \subseteq Grid(stream)
  BY <1>1 DEF Union
<1>3. /\ IsFiniteSet(Grid(stream))
      /\ Cardinality(Grid(stream)) = CellCount /\ CellCount \in Nat
  BY SlicesTyped, GridCounted
<1>4. /\ IsFiniteSet(Union(n)) /\ Cardinality(Union(n)) <= CellCount
      /\ Cardinality(Union(n)) = CellCount => Union(n) = Grid(stream)
  BY <1>2, <1>3, FS_Subset
<1>5. Cardinality(Union(n)) \in Nat
  BY <1>4, FS_CardinalityType
<1> QED BY <1>2, <1>4, <1>5

\* One more slice: the cells covered grow by its area when it is apart from the others.
LEMMA UnionGrows ==
  ASSUME TypeInv, NEW n \in Nat, n < Len(slices),
         \A i \in 1..(n + 1) : ~SliceRefused(slices[i]), Apart(1..(n + 1))
  PROVE  /\ Cardinality(Union(n + 1)) = Cardinality(Union(n)) + Area(slices[n + 1])
         /\ Area(slices[n + 1]) <= CellCount - Cardinality(Union(n))
         /\ Area(slices[n + 1]) \in Nat
<1> DEFINE r == slices[n + 1]
<1>1. n + 1 \in 1..Len(slices) /\ r \in Rectangles /\ Len(slices) \in Nat
  BY SlicesTyped
<1>2. Union(n + 1) = Union(n) \cup Cells(r)
  <2>1. 1..(n + 1) = (1..n) \cup {n + 1}
    OBVIOUS
  <2> QED BY <2>1, Zenon DEF Union
<1>3. Union(n) \cap Cells(r) = {}
  <2>1. ASSUME NEW i \in 1..n PROVE Cells(slices[i]) \cap Cells(r) = {}
    <3>1. i \in 1..(n + 1) /\ n + 1 \in 1..(n + 1) /\ i # n + 1
      OBVIOUS
    <3> QED BY <3>1, Zenon DEF Apart
  <2> QED BY <2>1 DEF Union
<1>4. /\ IsFiniteSet(Union(n)) /\ Cardinality(Union(n)) \in Nat
      /\ Cardinality(Union(n + 1)) <= CellCount
  <2>1. n \in 0..Len(slices) /\ n + 1 \in 0..Len(slices)
    BY <1>1
  <2>2. \A i \in 1..n : ~SliceRefused(slices[i])
    OBVIOUS
  <2> QED BY <2>1, <2>2, UnionInGrid
<1>5. IsFiniteSet(Cells(r)) /\ Cardinality(Cells(r)) = Area(r) /\ Area(r) \in Nat
  BY <1>1, CellsCounted
<1> HIDE DEF r
<1>6. Cardinality(Union(n) \cup Cells(r)) = Cardinality(Union(n)) + Cardinality(Cells(r))
  <2>1. Cardinality(Union(n) \cup Cells(r))
          = Cardinality(Union(n)) + Cardinality(Cells(r)) - Cardinality(Union(n) \cap Cells(r))
    BY <1>4, <1>5, FS_Union
  <2>2. Cardinality(Union(n) \cap Cells(r)) = 0
    BY <1>3, FS_EmptySet
  <2> QED BY <1>4, <1>5, <2>1, <2>2
<1>7. CellCount \in Nat
  BY SlicesTyped, GridCounted
<1>8. /\ Cardinality(Union(n + 1)) = Cardinality(Union(n)) + Area(r)
      /\ Cardinality(Union(n + 1)) <= CellCount
  BY <1>2, <1>4, <1>5, <1>6
<1>9. Area(r) <= CellCount - Cardinality(Union(n))
  BY <1>4, <1>5, <1>7, <1>8
<1> QED BY <1>5, <1>8, <1>9 DEF r
-----------------------------------------------------------------------------
(***************************************************************************)
(* The order of the events, and what the next one is.                      *)
(***************************************************************************)
LEMMA GreatestElement ==
  ASSUME NEW A \in SUBSET Nat, A # {}, NEW bound \in Nat, \A n \in A : n <= bound
  PROVE  \E greatest \in A : \A n \in A : n <= greatest
<1> DEFINE rest == {bound - n : n \in A}
<1>1. rest \in SUBSET Nat /\ rest # {}
  <2>1. ASSUME NEW n \in A PROVE bound - n \in Nat
    OBVIOUS
  <2>2. PICK some \in A : TRUE
    OBVIOUS
  <2>3. bound - some \in rest
    BY <2>2
  <2> QED BY <2>1, <2>3
<1>2. PICK least \in rest : \A n \in rest : least <= n
  BY <1>1, LeastElement
<1>3. PICK greatest \in A : least = bound - greatest
  BY <1>2
<1>4. ASSUME NEW n \in A PROVE n <= greatest
  <2>1. bound - n \in rest
    OBVIOUS
  <2>2. bound - greatest <= bound - n
    BY <1>2, <1>3, <2>1
  <2> QED BY <2>2
<1> QED BY <1>4

LEMMA MinIsLeast ==
  ASSUME NEW A \in SUBSET Nat, A # {}
  PROVE  Min(A) \in A /\ \A n \in A : Min(A) <= n
<1>1. \E least \in A : \A n \in A : least <= n
  BY LeastElement
<1> QED BY <1>1, Zenon DEF Min

LEMMA MaxIsGreatest ==
  ASSUME NEW A \in SUBSET Nat, A # {}, NEW bound \in Nat, \A n \in A : n <= bound
  PROVE  Max(A) \in A /\ \A n \in A : n <= Max(A)
<1>1. PICK greatest \in A : \A n \in A : greatest >= n
  BY GreatestElement
<1>2. Max(A) \in A /\ \A n \in A : Max(A) >= n
  BY <1>1, Zenon DEF Max
<1> QED BY <1>2

Happenings == [x : Nat, slice : Nat, starts : BOOLEAN]

LEMMA EventsTyped ==
  ASSUME TypeInv, NEW n \in 0..Len(slices)
  PROVE  EventsOf(n) \subseteq Happenings
<1>1. ASSUME NEW i \in 1..n PROVE StartOf(i) \in Happenings /\ EndOf(i) \in Happenings
  <2>1. i \in Nat /\ slices[i] \in Rectangles
    BY SlicesTyped
  <2>2. slices[i].x \in Nat /\ slices[i].x + slices[i].width \in Nat
    BY <2>1 DEF Rectangles
  <2> QED BY <2>1, <2>2 DEF StartOf, EndOf, Happenings
<1> QED BY <1>1, Zenon DEF EventsOf

\* std::sort has one first event: no two events are equal (slice_raster_validator.cpp:66).
LEMMA FirstEvent ==
  ASSUME NEW E \in SUBSET Happenings, E # {}
  PROVE  \E e \in E : \A f \in E \ {e} : Before(e, f)
<1>1. ASSUME NEW e \in E PROVE e.x \in Nat /\ e.slice \in Nat /\ e.starts \in BOOLEAN
  BY DEF Happenings
<1>2. ASSUME NEW e \in E, NEW f \in E, e.x = f.x, e.slice = f.slice, e.starts = f.starts
      PROVE  e = f
  BY <1>2 DEF Happenings
<1> DEFINE columns == {e.x : e \in E}
<1>3. PICK x \in columns : \A n \in columns : x <= n
  <2>1. columns \in SUBSET Nat /\ columns # {}
    BY <1>1
  <2> HIDE DEF columns
  <2> QED BY <2>1, LeastElement
<1> DEFINE atX == {e \in E : e.x = x}
           ending == {e \in atX : ~e.starts}
           first == IF ending # {} THEN ending ELSE atX
           numbers == {e.slice : e \in first}
<1>4. atX # {} /\ atX \subseteq E
  BY <1>3
<1>5. first # {} /\ first \subseteq atX
  BY <1>4
<1>6. numbers \in SUBSET Nat /\ numbers # {}
  <2> HIDE DEF first, atX
  <2> QED BY <1>1, <1>4, <1>5
<1>7. PICK number \in numbers : \A n \in numbers : number <= n
  <2> HIDE DEF numbers
  <2> QED BY <1>6, LeastElement
<1>8. PICK e \in first : e.slice = number
  BY <1>7
<1>9. ASSUME NEW f \in E \ {e} PROVE Before(e, f)
  <2>1. e \in E /\ e.x = x /\ x \in Nat /\ f.x \in columns
    BY <1>1, <1>4, <1>5, <1>8
  <2>2. x <= f.x
    BY <1>3, <2>1
  <2>3. CASE x < f.x
    BY <2>1, <2>3 DEF Before
  <2>4. CASE x = f.x /\ f \in first
    <3>1. f.slice \in numbers
      BY <2>4
    <3>2. number <= f.slice
      BY <1>7, <3>1
    <3>3. e.starts = f.starts
      BY <1>1, <1>8, <2>4
    <3>4. e.slice # f.slice
      BY <1>2, <2>1, <2>4, <3>3
    <3>5. e.slice < f.slice
      BY <1>1, <1>8, <2>1, <3>2, <3>4
    <3> QED BY <2>1, <2>4, <3>3, <3>5 DEF Before
  <2>5. CASE x = f.x /\ f \notin first
    <3>1. f \in atX /\ ending # {} /\ e \in ending /\ f.starts
      BY <1>8, <2>5
    <3> QED BY <2>1, <2>5, <3>1 DEF Before
  <2> QED BY <1>1, <2>1, <2>2, <2>3, <2>4, <2>5
<1> QED BY <1>4, <1>5, <1>9
\* The next event belongs to a slice that was not refused; it comes before all the others.
LEMMA SweptEvent ==
  ASSUME IInv, pc = "sweep", events # {}
  PROVE  /\ NextEvent \in events
         /\ NextEvent.slice \in 1..Len(slices)
         /\ slices[NextEvent.slice] \in Rectangles
         /\ ~SliceRefused(slices[NextEvent.slice])
         /\ NextEvent = IF NextEvent.starts THEN StartOf(NextEvent.slice)
                                            ELSE EndOf(NextEvent.slice)
         /\ \A f \in events \ {NextEvent} : Before(NextEvent, f)
<1>1. TypeInv /\ position = Len(slices) /\ events \subseteq EventsOf(Len(slices))
  BY DEF IInv, OrderInv
<1>2. /\ slices \in Seq(Rectangles) /\ Len(slices) \in Nat
      /\ \A i \in 1..Len(slices) : slices[i] \in Rectangles /\ ~SliceRefused(slices[i])
  BY <1>1, SlicesTyped DEF IInv, AreaInv
<1>3. Len(slices) \in 0..Len(slices)
  BY <1>2
<1>4. events \in SUBSET Happenings
  BY <1>1, <1>3, EventsTyped
<1>5. \E e \in events : \A f \in events \ {e} : Before(e, f)
  BY <1>4, FirstEvent
<1>6. NextEvent \in events /\ \A f \in events \ {NextEvent} : Before(NextEvent, f)
  BY <1>5, Zenon DEF NextEvent
<1>7. PICK i \in 1..Len(slices) : NextEvent = StartOf(i) \/ NextEvent = EndOf(i)
  BY <1>1, <1>6, Zenon DEF EventsOf
<1>8. /\ StartOf(i).slice = i /\ StartOf(i).starts
      /\ EndOf(i).slice = i /\ ~EndOf(i).starts
  BY DEF StartOf, EndOf
<1>9. NextEvent.slice = i
  BY <1>7, <1>8
<1>10. NextEvent = IF NextEvent.starts THEN StartOf(i) ELSE EndOf(i)
  BY <1>7, <1>8
<1> QED BY <1>2, <1>6, <1>9, <1>10

\* What the order says of the events of one slice and of two.
LEMMA OrderOfEvents ==
  ASSUME NEW i, NEW j, slices[i] \in Rectangles, slices[j] \in Rectangles
  PROVE  /\ Before(StartOf(j), StartOf(i)) => slices[j].x <= slices[i].x
         /\ Before(StartOf(i), EndOf(j)) => slices[i].x < slices[j].x + slices[j].width
         /\ Before(EndOf(j), StartOf(i)) => slices[j].x + slices[j].width <= slices[i].x
         /\ ~Empty(slices[i]) => ~Before(EndOf(i), StartOf(i))
         /\ StartOf(i) # EndOf(j)
         /\ i # j => StartOf(i) # StartOf(j) /\ EndOf(i) # EndOf(j)
<1>1. /\ slices[i].x \in Nat /\ slices[i].width \in Nat
      /\ slices[j].x \in Nat /\ slices[j].width \in Nat
  BY DEF Rectangles
<1>2. /\ StartOf(i).x = slices[i].x /\ StartOf(i).starts /\ StartOf(i).slice = i
      /\ StartOf(j).x = slices[j].x /\ StartOf(j).starts /\ StartOf(j).slice = j
      /\ EndOf(i).x = slices[i].x + slices[i].width /\ ~EndOf(i).starts /\ EndOf(i).slice = i
      /\ EndOf(j).x = slices[j].x + slices[j].width /\ ~EndOf(j).starts /\ EndOf(j).slice = j
  BY DEF StartOf, EndOf
<1>3. ASSUME ~Empty(slices[i]) PROVE slices[i].width > 0
  BY <1>1, <1>3 DEF Empty
<1>4. Before(StartOf(j), StartOf(i)) => slices[j].x <= slices[i].x
  BY <1>1, <1>2 DEF Before
<1>5. Before(StartOf(i), EndOf(j)) => slices[i].x < slices[j].x + slices[j].width
  BY <1>1, <1>2 DEF Before
<1>6. Before(EndOf(j), StartOf(i)) => slices[j].x + slices[j].width <= slices[i].x
  <2> DEFINE end == slices[j].x + slices[j].width
             start == slices[i].x
  <2>1. end \in Nat /\ start \in Nat /\ EndOf(j).x = end /\ StartOf(i).x = start
    BY <1>1, <1>2
  <2> HIDE DEF end, start
  <2>2. Before(EndOf(j), StartOf(i)) => end < start \/ end = start
    BY <1>2, <2>1, Zenon DEF Before
  <2> QED BY <2>1, <2>2 DEF end, start
<1>7. ~Empty(slices[i]) => ~Before(EndOf(i), StartOf(i))
  <2> DEFINE end == slices[i].x + slices[i].width
             start == slices[i].x
  <2>1. /\ end \in Nat /\ start \in Nat /\ EndOf(i).x = end /\ StartOf(i).x = start
        /\ ~Empty(slices[i]) => start < end
    BY <1>1, <1>2, <1>3
  <2> HIDE DEF end, start
  <2>2. Before(EndOf(i), StartOf(i)) => end < start \/ end = start
    BY <1>2, <2>1, Zenon DEF Before
  <2> QED BY <2>1, <2>2
<1> QED BY <1>2, <1>4, <1>5, <1>6, <1>7

\* Swept events stay before those to come, when the first of them is taken away.
LEMMA OrderKept ==
  ASSUME IInv, pc = "sweep", events # {}, events' = events \ {NextEvent},
         UNCHANGED <<stream, slices, pc, position>>
  PROVE  OrderInv'
<1>1. NextEvent \in events /\ \A f \in events \ {NextEvent} : Before(NextEvent, f)
  BY SweptEvent
<1>2. /\ position = Len(slices) /\ events \subseteq EventsOf(Len(slices))
      /\ \A e \in EventsOf(Len(slices)) \ events, f \in events : Before(e, f)
  BY DEF IInv, OrderInv
<1>3. EventsOf(Len(slices))' = EventsOf(Len(slices))
  BY DEF EventsOf, StartOf, EndOf
<1>4. ASSUME NEW e \in EventsOf(Len(slices)) \ events', NEW f \in events' PROVE Before(e, f)
  BY <1>1, <1>2, <1>4
<1>5. events' \subseteq EventsOf(Len(slices))
  BY <1>2
<1> QED BY <1>2, <1>3, <1>4, <1>5 DEF OrderInv, Before

\* The slices that are open and those that begun, when an event is taken away.
LEMMA OthersKept ==
  ASSUME IInv, pc = "sweep", events # {}, events' = events \ {NextEvent}, UNCHANGED slices
  PROVE  LET i == NextEvent.slice
         IN /\ NextEvent.starts =>
                 /\ i \notin Begun /\ EndOf(i) \in events
                 /\ Begun' = Begun \cup {i} /\ Open' = Open \cup {i}
            /\ ~NextEvent.starts =>
                 i \in Open /\ Begun' = Begun /\ Open' = Open \ {i}
<1> DEFINE i == NextEvent.slice
<1>1. /\ NextEvent \in events /\ i \in 1..Len(slices) /\ ~SliceRefused(slices[i])
      /\ NextEvent = IF NextEvent.starts THEN StartOf(i) ELSE EndOf(i)
      /\ \A f \in events \ {NextEvent} : Before(NextEvent, f)
  BY SweptEvent
<1> HIDE DEF i
<1>2. /\ DOMAIN slices = 1..Len(slices)
      /\ \A j \in 1..Len(slices) : slices[j] \in Rectangles
  BY SlicesTyped DEF IInv
<1>3. /\ \A j \in 1..Len(slices) : StartOf(i) # EndOf(j) /\ EndOf(i) # StartOf(j)
      /\ \A j \in 1..Len(slices) : i # j => StartOf(i) # StartOf(j) /\ EndOf(i) # EndOf(j)
      /\ ~Before(EndOf(i), StartOf(i))
  BY <1>1, <1>2, OrderOfEvents DEF SliceRefused
<1>4. ASSUME NEW j PROVE StartOf(j)' = StartOf(j) /\ EndOf(j)' = EndOf(j)
  BY DEF StartOf, EndOf
<1>5. /\ StartOf(i) \in EventsOf(Len(slices)) /\ EndOf(i) \in EventsOf(Len(slices))
      /\ \A e \in EventsOf(Len(slices)) \ events, f \in events : Before(e, f)
  BY <1>1, Zenon DEF IInv, OrderInv, EventsOf
<1>6. /\ Begun' = {j \in DOMAIN slices : StartOf(j) \notin events'}
      /\ Open' = {j \in Begun' : EndOf(j) \in events'}
  BY <1>4 DEF Begun, Open
<1>7. CASE NextEvent.starts
  <2>1. events' = events \ {StartOf(i)} /\ StartOf(i) \in events
    BY <1>1, <1>7
  <2>2. i \notin Begun /\ EndOf(i) \in events
    BY <1>3, <1>5, <2>1 DEF Begun
  <2>3. Begun' = Begun \cup {i}
    BY <1>1, <1>2, <1>3, <1>6, <2>1 DEF Begun
  <2>4. Open' = Open \cup {i}
    BY <1>1, <1>2, <1>3, <1>6, <2>1, <2>2, <2>3 DEF Open, Begun
  <2> QED BY <1>7, <2>2, <2>3, <2>4 DEF i
<1>8. CASE ~NextEvent.starts
  <2>1. events' = events \ {EndOf(i)} /\ EndOf(i) \in events /\ StartOf(i) # EndOf(i)
    BY <1>1, <1>3, <1>8
  <2>2. StartOf(i) \notin events
    <3>1. ASSUME StartOf(i) \in events PROVE FALSE
      <4>1. Before(EndOf(i), StartOf(i))
        BY <1>1, <1>8, <2>1, <3>1
      <4> QED BY <1>3, <4>1
    <3> QED BY <3>1
  <2>3. i \in Open
    BY <1>1, <1>2, <2>1, <2>2 DEF Open, Begun
  <2>4. Begun' = Begun
    BY <1>1, <1>2, <1>3, <1>6, <2>1 DEF Begun
  <2>5. Open' = Open \ {i}
    BY <1>1, <1>2, <1>3, <1>6, <2>1, <2>4 DEF Open, Begun
  <2> QED BY <1>8, <2>3, <2>4, <2>5 DEF i
<1> QED BY <1>7, <1>8
-----------------------------------------------------------------------------
(***************************************************************************)
(* Slices that begin: a row map that shows no overlap shows that no cell   *)
(* is shared, and one that shows an overlap shows a cell that is.          *)
(***************************************************************************)
LEMMA RowsTyped ==
  ASSUME IInv, pc = "sweep", NEW i \in Open
  PROVE  /\ i \in 1..Len(slices) /\ i \in Begun /\ EndOf(i) \in events
         /\ slices[i].y \in Nat /\ End(i) \in Nat /\ slices[i].y < End(i)
         /\ slices[i].x \in Nat /\ slices[i].width \in Nat /\ slices[i].height \in Nat
         /\ slices[i].y \in DOMAIN active /\ active[slices[i].y] = End(i)
<1>1. i \in 1..Len(slices) /\ i \in Begun /\ EndOf(i) \in events
  BY SlicesTyped DEF IInv, Open, Begun
<1>2. slices[i] \in Rectangles /\ ~SliceRefused(slices[i])
  BY <1>1, SlicesTyped DEF IInv, AreaInv, OrderInv
<1>3. /\ slices[i].y \in Nat /\ slices[i].height \in Nat /\ slices[i].height # 0
      /\ slices[i].x \in Nat /\ slices[i].width \in Nat
  BY <1>2 DEF Rectangles, SliceRefused, Empty
<1>4. End(i) \in Nat /\ slices[i].y < End(i)
  BY <1>3 DEF End
<1>5. slices[i].y \in DOMAIN active /\ active[slices[i].y] = End(i)
  BY DEF IInv, RowsInv
<1> QED BY <1>1, <1>3, <1>4, <1>5

LEMMA RowsAreNatural ==
  ASSUME IInv, pc = "sweep"
  PROVE  /\ DOMAIN active \in SUBSET Nat
         /\ \A row \in DOMAIN active : \E i \in Open : row = slices[i].y
<1>1. DOMAIN active = {slices[i].y : i \in Open}
  BY DEF IInv, RowsInv
<1>2. \A i \in Open : slices[i].y \in Nat
  BY RowsTyped
<1> QED BY <1>1, <1>2

\* lower_bound and the interval before it are enough, as open intervals are disjoint
\* (slice_raster_validator.cpp:93).
LEMMA NoOverlapIsApart ==
  ASSUME IInv, pc = "sweep", NEW r \in Rectangles, ~Empty(r), ~Overlaps(r), NEW j \in Open
  PROVE  End(j) <= r.y \/ r.y + r.height <= slices[j].y
<1>1. r.y \in Nat /\ r.height \in Nat /\ r.height # 0
  BY DEF Rectangles, Empty
<1>2. /\ slices[j].y \in DOMAIN active /\ slices[j].y \in Nat /\ End(j) \in Nat
      /\ slices[j].y < End(j) /\ active[slices[j].y] = End(j)
  BY RowsTyped
<1>3. DOMAIN active \in SUBSET Nat
  BY RowsAreNatural
<1>4. CASE slices[j].y >= r.y
  <2>1. From(r.y) \in SUBSET Nat /\ slices[j].y \in From(r.y)
    BY <1>2, <1>3, <1>4 DEF From
  <2>2. Min(From(r.y)) \in Nat /\ Min(From(r.y)) <= slices[j].y
    BY <2>1, MinIsLeast
  <2>3. ~(Min(From(r.y)) < r.y + r.height)
    BY <2>1 DEF Overlaps
  <2> QED BY <1>1, <1>2, <2>2, <2>3
<1>5. CASE slices[j].y < r.y
  <2>1. /\ Under(r.y) \in SUBSET Nat /\ slices[j].y \in Under(r.y)
        /\ \A row \in Under(r.y) : row <= r.y
    BY <1>1, <1>2, <1>3, <1>5 DEF Under
  <2>2. Max(Under(r.y)) \in Under(r.y) /\ slices[j].y <= Max(Under(r.y))
    BY <1>1, <2>1, MaxIsGreatest
  <2>3. PICK k \in Open : Max(Under(r.y)) = slices[k].y
    BY <2>2, RowsAreNatural DEF Under
  <2>4. /\ slices[k].y \in Nat /\ End(k) \in Nat /\ slices[k].y < End(k)
        /\ active[slices[k].y] = End(k)
    BY RowsTyped
  <2>5. slices[k].y < r.y /\ slices[j].y <= slices[k].y
    BY <2>2, <2>3 DEF Under
  <2>6. End(k) <= r.y
    BY <1>1, <2>1, <2>3, <2>4 DEF Overlaps
  <2>7. j = k \/ End(j) <= slices[k].y \/ End(k) <= slices[j].y
    BY DEF IInv, RowsInv
  <2>8. CASE j = k
    BY <2>6, <2>8
  <2>9. CASE End(j) <= slices[k].y \/ End(k) <= slices[j].y
    BY <1>1, <1>2, <2>4, <2>5, <2>9
  <2> QED BY <2>7, <2>8, <2>9
<1> QED BY <1>1, <1>2, <1>4, <1>5

LEMMA OverlapIsShared ==
  ASSUME IInv, pc = "sweep", NEW r \in Rectangles, ~Empty(r), Overlaps(r)
  PROVE  \E j \in Open, row \in r.y..(r.y + r.height - 1) :
           row \in slices[j].y..(End(j) - 1)
<1>1. r.y \in Nat /\ r.height \in Nat /\ r.height # 0
  BY DEF Rectangles, Empty
<1>2. DOMAIN active \in SUBSET Nat
  BY RowsAreNatural
<1>3. CASE From(r.y) # {} /\ Min(From(r.y)) < r.y + r.height
  <2>1. From(r.y) \in SUBSET Nat
    BY <1>2 DEF From
  <2>2. Min(From(r.y)) \in From(r.y)
    BY <1>3, <2>1, MinIsLeast
  <2>3. PICK j \in Open : Min(From(r.y)) = slices[j].y
    BY <2>2, RowsAreNatural DEF From
  <2>4. slices[j].y \in Nat /\ End(j) \in Nat /\ slices[j].y < End(j)
    BY RowsTyped
  <2>5. slices[j].y >= r.y /\ slices[j].y < r.y + r.height
    BY <1>3, <2>2, <2>3 DEF From
  <2>6. slices[j].y \in r.y..(r.y + r.height - 1) /\ slices[j].y \in slices[j].y..(End(j) - 1)
    BY <1>1, <2>4, <2>5
  <2> QED BY <2>6
<1>4. CASE Under(r.y) # {} /\ active[Max(Under(r.y))] > r.y
  <2>1. /\ Under(r.y) \in SUBSET Nat /\ \A row \in Under(r.y) : row <= r.y
    BY <1>1, <1>2 DEF Under
  <2>2. Max(Under(r.y)) \in Under(r.y)
    BY <1>1, <1>4, <2>1, MaxIsGreatest
  <2>3. PICK j \in Open : Max(Under(r.y)) = slices[j].y
    BY <2>2, RowsAreNatural DEF Under
  <2>4. /\ slices[j].y \in Nat /\ End(j) \in Nat
        /\ active[slices[j].y] = End(j)
    BY RowsTyped
  <2>5. slices[j].y < r.y /\ End(j) > r.y
    BY <1>4, <2>2, <2>3, <2>4 DEF Under
  <2>6. r.y \in r.y..(r.y + r.height - 1) /\ r.y \in slices[j].y..(End(j) - 1)
    BY <1>1, <2>4, <2>5
  <2> QED BY <2>6
<1> QED BY <1>3, <1>4 DEF Overlaps

\* Rows or columns that are apart make cells that are apart.
LEMMA ApartCells ==
  ASSUME NEW r \in Rectangles, NEW s \in Rectangles,
         \/ r.x + r.width <= s.x
         \/ r.y + r.height <= s.y \/ s.y + s.height <= r.y
  PROVE  Cells(r) \cap Cells(s) = {} /\ Cells(s) \cap Cells(r) = {}
<1>1. /\ r.x \in Nat /\ r.y \in Nat /\ r.width \in Nat /\ r.height \in Nat
      /\ s.x \in Nat /\ s.y \in Nat /\ s.width \in Nat /\ s.height \in Nat
  BY DEF Rectangles
<1> SUFFICES ASSUME NEW z \in Cells(r), z \in Cells(s) PROVE FALSE
  OBVIOUS
<1>2. PICK a \in r.x..(r.x + r.width - 1), b \in r.y..(r.y + r.height - 1) : z = <<a, b>>
  BY DEF Cells
<1>3. a \in s.x..(s.x + s.width - 1) /\ b \in s.y..(s.y + s.height - 1)
  BY <1>2 DEF Cells
<1> QED BY <1>1, <1>2, <1>3
LEMMA EndSliceKeepsRows ==
  ASSUME IInv, EndSlice
  PROVE  RowsInv'
<1> DEFINE i == NextEvent.slice
<1>1. /\ pc = "sweep" /\ events # {} /\ ~NextEvent.starts
      /\ active' = Erased(slices[i].y)
      /\ events' = events \ {NextEvent} /\ UNCHANGED <<stream, slices, pc>>
  BY DEF EndSlice
<1>2. i \in Open /\ Begun' = Begun /\ Open' = Open \ {i}
  BY <1>1, OthersKept
<1> HIDE DEF i
<1>3. /\ Apart(Begun)
      /\ DOMAIN active = {slices[j].y : j \in Open}
      /\ \A j \in Open : active[slices[j].y] = End(j)
      /\ \A j, k \in Open : j # k => End(j) <= slices[k].y \/ End(k) <= slices[j].y
  BY <1>1 DEF IInv, RowsInv
<1>4. ASSUME NEW j \in Open \ {i} PROVE slices[j].y # slices[i].y
  <2>1. /\ slices[j].y \in Nat /\ End(j) \in Nat /\ slices[j].y < End(j)
        /\ slices[i].y \in Nat /\ End(i) \in Nat /\ slices[i].y < End(i)
    BY <1>1, <1>2, RowsTyped
  <2>2. End(j) <= slices[i].y \/ End(i) <= slices[j].y
    BY <1>2, <1>3
  <2> QED BY <2>1, <2>2
<1>5. /\ DOMAIN active' = {slices[j].y : j \in Open \ {i}}
      /\ \A row \in DOMAIN active' : active'[row] = active[row]
  BY <1>1, <1>2, <1>3, <1>4 DEF Erased
<1>6. \A j \in Open \ {i} : active'[slices[j].y] = End(j)
  BY <1>3, <1>5
<1>7. Apart(Begun)' /\ \A j : End(j)' = End(j)
  BY <1>1, <1>2, <1>3 DEF Apart, End
<1> QED BY <1>1, <1>2, <1>3, <1>5, <1>6, <1>7 DEF RowsInv

LEMMA BeginSliceKeepsRows ==
  ASSUME IInv, BeginSlice
  PROVE  RowsInv'
<1> DEFINE i == NextEvent.slice
           r == slices[i]
<1>1. /\ pc = "sweep" /\ events # {} /\ NextEvent.starts /\ ~Overlaps(r)
      /\ active' = Emplaced(r.y, r.y + r.height)
      /\ events' = events \ {NextEvent} /\ UNCHANGED <<stream, slices, pc>>
  BY DEF BeginSlice
<1>2. /\ i \notin Begun /\ EndOf(i) \in events
      /\ Begun' = Begun \cup {i} /\ Open' = Open \cup {i}
  BY <1>1, OthersKept
<1>3. /\ i \in 1..Len(slices) /\ r \in Rectangles /\ ~Empty(r)
      /\ NextEvent = StartOf(i) /\ NextEvent \in events
  BY <1>1, SweptEvent DEF SliceRefused
<1> HIDE DEF i
<1>4. /\ Apart(Begun)
      /\ DOMAIN active = {slices[j].y : j \in Open}
      /\ \A j \in Open : active[slices[j].y] = End(j)
      /\ \A j, k \in Open : j # k => End(j) <= slices[k].y \/ End(k) <= slices[j].y
  BY <1>1 DEF IInv, RowsInv
<1>5. r.y \in Nat /\ r.height \in Nat /\ r.height # 0 /\ End(i) = r.y + r.height
  BY <1>3 DEF Rectangles, Empty, End
<1>6. ASSUME NEW j \in Open PROVE End(j) <= r.y \/ End(i) <= slices[j].y
  BY <1>1, <1>3, <1>5, NoOverlapIsApart
<1>7. ASSUME NEW j \in Open PROVE slices[j].y # r.y
  <2>1. slices[j].y \in Nat /\ End(j) \in Nat /\ slices[j].y < End(j)
    BY <1>1, RowsTyped
  <2> QED BY <1>5, <1>6, <2>1
<1>8. r.y \notin DOMAIN active
  BY <1>4, <1>7
<1>9. /\ DOMAIN active' = {slices[j].y : j \in Open \cup {i}}
      /\ \A j \in Open \cup {i} : active'[slices[j].y] = End(j)
  <2>1. DOMAIN active' = DOMAIN active \cup {r.y}
    BY <1>1 DEF Emplaced
  <2>2. active'[r.y] = End(i)
    BY <1>1, <1>5, <1>8 DEF Emplaced
  <2>3. \A row \in DOMAIN active : active'[row] = active[row]
    BY <1>1 DEF Emplaced
  <2> QED BY <1>4, <2>1, <2>2, <2>3
<1>10. ASSUME NEW j \in Begun
       PROVE  /\ Cells(slices[j]) \cap Cells(r) = {}
              /\ Cells(r) \cap Cells(slices[j]) = {}
  <2>1. j \in 1..Len(slices) /\ slices[j] \in Rectangles
    BY SlicesTyped DEF IInv, Begun
  <2>2. CASE j \in Open
    BY <1>3, <1>5, <1>6, <2>1, <2>2, ApartCells DEF End
  <2>3. CASE j \notin Open
    <3>1. EndOf(j) \in EventsOf(Len(slices)) \ events
      BY <2>1, <2>3 DEF EventsOf, Open
    <3>2. Before(EndOf(j), StartOf(i))
      BY <1>1, <1>3, <3>1 DEF IInv, OrderInv
    <3>3. slices[j].x + slices[j].width <= r.x
      BY <1>3, <2>1, <3>2, OrderOfEvents
    <3> QED BY <1>3, <2>1, <3>3, ApartCells
  <2> QED BY <2>2, <2>3
<1>11. Apart(Begun \cup {i})
  BY <1>4, <1>10 DEF Apart
<1>12. Apart(Begun)' /\ \A j : End(j)' = End(j)
  BY <1>1, <1>2, <1>11 DEF Apart, End
<1>13. \A j, k \in Open \cup {i} :
         j # k => End(j) <= slices[k].y \/ End(k) <= slices[j].y
  BY <1>4, <1>6
<1> QED BY <1>1, <1>2, <1>9, <1>12, <1>13 DEF RowsInv

\* A slice that overlaps an open one shares a cell with it, so it is rightly refused.
LEMMA FindOverlapIsRight ==
  ASSUME IInv, FindOverlap
  PROVE  ~Apart(DOMAIN slices) /\ NextEvent.slice # 0
<1> DEFINE i == NextEvent.slice
           r == slices[i]
<1>1. pc = "sweep" /\ events # {} /\ NextEvent.starts /\ Overlaps(r)
  BY DEF FindOverlap
<1>2. /\ i \in 1..Len(slices) /\ r \in Rectangles /\ ~Empty(r)
      /\ NextEvent = StartOf(i) /\ NextEvent \in events
      /\ \A f \in events \ {NextEvent} : Before(NextEvent, f)
  BY <1>1, SweptEvent DEF SliceRefused
<1> HIDE DEF i
<1>3. PICK j \in Open, row \in r.y..(r.y + r.height - 1) : row \in slices[j].y..(End(j) - 1)
  BY <1>1, <1>2, OverlapIsShared
<1>4. /\ j \in 1..Len(slices) /\ j \in Begun /\ EndOf(j) \in events
      /\ DOMAIN slices = 1..Len(slices) /\ slices[j] \in Rectangles
  BY <1>1, RowsTyped, SlicesTyped DEF IInv
<1>5. i # j /\ StartOf(j) \in EventsOf(Len(slices)) \ events
  BY <1>2, <1>4 DEF Begun, EventsOf
<1>6. Before(StartOf(j), StartOf(i))
  BY <1>1, <1>2, <1>5 DEF IInv, OrderInv
<1>7. Before(StartOf(i), EndOf(j))
  <2>1. StartOf(i) # EndOf(j)
    BY <1>2, <1>4, OrderOfEvents
  <2> QED BY <1>2, <1>4, <2>1
<1>8. slices[j].x <= r.x /\ r.x < slices[j].x + slices[j].width
  BY <1>2, <1>4, <1>6, <1>7, OrderOfEvents
<1>9. /\ r.x \in Nat /\ r.width \in Nat /\ r.width # 0
      /\ slices[j].x \in Nat /\ slices[j].width \in Nat
  BY <1>2, <1>4 DEF Rectangles, Empty
<1>10. r.x \in r.x..(r.x + r.width - 1) /\ r.x \in slices[j].x..(slices[j].x + slices[j].width - 1)
  BY <1>8, <1>9
<1>11. <<r.x, row>> \in Cells(r) /\ <<r.x, row>> \in Cells(slices[j])
  <2>1. row \in r.y..(r.y + r.height - 1)
    OBVIOUS
  <2>2. row \in slices[j].y..(slices[j].y + slices[j].height - 1)
    <3>1. slices[j].y \in Nat /\ slices[j].height \in Nat
      BY <1>4 DEF Rectangles
    <3>2. row \in slices[j].y..((slices[j].y + slices[j].height) - 1)
      BY <1>3 DEF End
    <3> QED BY <3>1, <3>2
  <2> DEFINE x == r.x
  <2>3. /\ x \in r.x..(r.x + r.width - 1)
        /\ x \in slices[j].x..(slices[j].x + slices[j].width - 1)
    BY <1>10
  <2> HIDE DEF x, r
  <2>4. <<x, row>> \in Cells(r) /\ <<x, row>> \in Cells(slices[j])
    BY <2>1, <2>2, <2>3 DEF Cells
  <2> QED BY <2>4 DEF x
<1>12. ~Apart(DOMAIN slices)
  BY <1>2, <1>4, <1>5, <1>11 DEF Apart
<1> QED BY <1>2, <1>12 DEF i
-----------------------------------------------------------------------------
(***************************************************************************)
(* The inductive invariant, action by action.                              *)
(***************************************************************************)
LEMMA InitEstablishesIInv ==
  ASSUME Init
  PROVE  IInv
<1>1. TypeInv
  BY DEF Init, TypeInv
<1>2. /\ pc = "check" /\ position = 0 /\ covered_area = 0 /\ exceeds = FALSE
      /\ events = {} /\ active = <<>> /\ Len(slices) \in Nat
  BY <1>1, SlicesTyped DEF Init
<1>3. AreaInv
  <2>1. Union(0) = {}
    BY DEF Union
  <2>2. Cardinality(Union(0)) = 0
    BY <2>1, FS_EmptySet
  <2>3. 0 \in 0..Len(slices) /\ 1..0 = {}
    BY <1>2
  <2> QED BY <1>2, <2>2, <2>3 DEF AreaInv
<1>4. CheckInv
  <2>1. EventsOf(0) = {}
    BY DEF EventsOf
  <2> QED BY <1>2, <2>1 DEF CheckInv
<1>5. OrderInv /\ RowsInv /\ VerdictInv
  BY <1>2 DEF OrderInv, RowsInv, VerdictInv
<1> QED BY <1>1, <1>3, <1>4, <1>5 DEF IInv

\* What stays of the first pass when its variables do not change.
LEMMA AreaKept ==
  ASSUME IInv, pc # "done",
         UNCHANGED <<stream, slices, position, covered_area, exceeds>>
  PROVE  TypeInv /\ AreaInv'
<1>1. ASSUME NEW r PROVE SliceRefused(r)' <=> SliceRefused(r)
  BY DEF SliceRefused, CellCount
<1>2. /\ Apart(1..position)' <=> Apart(1..position)
      /\ Union(position)' = Union(position)
  BY DEF Apart, Union
<1> QED BY <1>1, <1>2 DEF IInv, AreaInv

\* A verdict is not changed by later steps, as the stream and the slices are not.
LEMMA VerdictKept ==
  ASSUME UNCHANGED <<stream, slices>>
  PROVE  Coverage!Verdict(stream, slices)' = Coverage!Verdict(stream, slices)
OBVIOUS

LEMMA CheckSliceKeepsIInv ==
  ASSUME IInv, CheckSlice
  PROVE  IInv'
<1>0. PICK n : n = position
  OBVIOUS
<1> DEFINE r == slices[n + 1]
<1>1. /\ pc = "check" /\ n < Len(slices) /\ ~SliceRefused(r)
      /\ IF Area(r) > CellCount - covered_area
         THEN exceeds' = TRUE /\ UNCHANGED covered_area
         ELSE covered_area' = covered_area + Area(r) /\ UNCHANGED exceeds
      /\ events' = events \cup
           {[x |-> r.x, slice |-> n + 1, starts |-> TRUE],
            [x |-> r.x + r.width, slice |-> n + 1, starts |-> FALSE]}
      /\ position' = n + 1
      /\ UNCHANGED <<stream, slices, pc, active, status>>
  BY <1>0 DEF CheckSlice
<1>2. /\ TypeInv /\ n \in 0..Len(slices) /\ Len(slices) \in Nat
      /\ \A i \in 1..n : ~SliceRefused(slices[i])
      /\ Apart(1..n) => ~exceeds /\ covered_area = Cardinality(Union(n))
      /\ events = EventsOf(n) /\ active = <<>>
  BY <1>0, <1>1, SlicesTyped DEF IInv, AreaInv, CheckInv
<1>3. /\ n \in Nat /\ n + 1 \in 0..Len(slices)
      /\ 1..(n + 1) = (1..n) \cup {n + 1}
  BY <1>1, <1>2
<1>4. \A i \in 1..(n + 1) : ~SliceRefused(slices[i])
  BY <1>1, <1>2, <1>3
<1>5. ASSUME Apart(1..(n + 1))
      PROVE  ~exceeds' /\ covered_area' = Cardinality(Union(n + 1))
  <2>1. Apart(1..n)
    BY <1>3, <1>5 DEF Apart
  <2>2. /\ Cardinality(Union(n + 1)) = Cardinality(Union(n)) + Area(r)
        /\ Area(r) <= CellCount - Cardinality(Union(n)) /\ Area(r) \in Nat
    BY <1>1, <1>2, <1>3, <1>4, <1>5, UnionGrows
  <2>3. covered_area = Cardinality(Union(n)) /\ ~exceeds
    BY <1>2, <2>1
  <2>4. CellCount - covered_area \in Int
    <3>1. CellCount \in Nat /\ covered_area \in Nat
      BY <1>2, <2>3, SlicesTyped, GridCounted, UnionInGrid
    <3> QED BY <3>1
  <2> DEFINE rest == CellCount - covered_area
             area == Area(r)
  <2>5. ~(area > rest)
    <3>1. area \in Nat /\ rest \in Int /\ area <= rest
      BY <2>2, <2>3, <2>4
    <3> HIDE DEF area, rest
    <3> QED BY <3>1
  <2> QED BY <1>1, <2>2, <2>3, <2>5
<1>6. ASSUME NEW s PROVE SliceRefused(s)' <=> SliceRefused(s)
  BY <1>1 DEF SliceRefused, CellCount
<1>7. EventsOf(position)' = EventsOf(n + 1)
  BY <1>1 DEF EventsOf, StartOf, EndOf
<1>8. TypeInv'
  BY <1>1, <1>2 DEF TypeInv
<1>9. AreaInv'
  <2>1. /\ position' \in 0..Len(slices')
        /\ \A i \in 1..position' : ~SliceRefused(slices[i])'
    BY <1>1, <1>3, <1>4, <1>6
  <2>2. Apart(1..position)' => ~exceeds' /\ covered_area' = Cardinality(Union(position))'
    <3>1. Apart(1..position)' <=> Apart(1..(n + 1))
      BY <1>1 DEF Apart
    <3>2. Union(position)' = Union(n + 1)
      BY <1>1 DEF Union
    <3> QED BY <1>5, <3>1, <3>2
  <2> QED BY <2>1, <2>2 DEF AreaInv
<1>10. CheckInv'
  <2>1. EventsOf(n + 1) = EventsOf(n) \cup {StartOf(n + 1), EndOf(n + 1)}
    BY <1>3, Zenon DEF EventsOf
  <2>2. events' = EventsOf(n) \cup {StartOf(n + 1), EndOf(n + 1)}
    BY <1>1, <1>2 DEF StartOf, EndOf
  <2> QED BY <1>1, <1>2, <1>7, <2>1, <2>2 DEF CheckInv
<1>11. OrderInv' /\ RowsInv' /\ VerdictInv'
  BY <1>1 DEF OrderInv, RowsInv, VerdictInv
<1> QED BY <1>8, <1>9, <1>10, <1>11 DEF IInv

LEMMA RefuseSliceKeepsIInv ==
  ASSUME IInv, RefuseSlice
  PROVE  IInv'
<1>1. /\ pc = "check" /\ position < Len(slices)
      /\ SliceRefused(slices[position + 1])
      /\ pc' = "done" /\ status' = [code |-> "refused", slice |-> position + 1]
      /\ UNCHANGED <<stream, slices>>
  BY DEF RefuseSlice, Return
<1>2. TypeInv /\ position \in 0..Len(slices)
  BY <1>1 DEF IInv, AreaInv
<1>3. /\ slices \in Seq(Rectangles) /\ position + 1 \in DOMAIN slices /\ position + 1 # 0
  BY <1>1, <1>2, SlicesTyped
<1>4. Coverage!Verdict(stream, slices) = "refused"
  BY <1>1, <1>3, VerdictOfCover
<1>5. verdict' = "refused"
  BY <1>1, <1>3 DEF verdict, Incomplete
<1>6. TypeInv'
  BY <1>1, <1>2 DEF TypeInv
<1> QED BY <1>1, <1>4, <1>5, <1>6, VerdictKept
        DEF IInv, AreaInv, CheckInv, OrderInv, RowsInv, VerdictInv

LEMMA StartSweepKeepsIInv ==
  ASSUME IInv, StartSweep
  PROVE  IInv'
<1>1. /\ pc = "check" /\ position = Len(slices) /\ pc' = "sweep"
      /\ UNCHANGED <<stream, slices, position, covered_area, exceeds, events, active, status>>
  BY DEF StartSweep
<1>2. events = EventsOf(Len(slices)) /\ active = <<>> /\ TypeInv
  BY <1>1 DEF IInv, CheckInv
<1>3. DOMAIN slices = 1..Len(slices)
  BY <1>2, SlicesTyped
<1>4. TypeInv' /\ AreaInv'
  BY <1>1, <1>2, AreaKept DEF TypeInv
<1>5. OrderInv'
  <2>1. EventsOf(Len(slices))' = EventsOf(Len(slices))
    BY <1>1 DEF EventsOf, StartOf, EndOf
  <2> QED BY <1>1, <1>2, <2>1 DEF OrderInv
<1>6. Begun' = {} /\ Open' = {}
  <2>1. \A i \in DOMAIN slices : StartOf(i) \in events
    BY <1>2, <1>3 DEF EventsOf
  <2>2. Begun' = {i \in DOMAIN slices : StartOf(i) \notin events}
    BY <1>1 DEF Begun, StartOf
  <2> QED BY <2>1, <2>2 DEF Open
<1>7. RowsInv'
  <2>1. DOMAIN active' = {}
    BY <1>1, <1>2
  <2> QED BY <1>6, <2>1 DEF RowsInv, Apart
<1> QED BY <1>1, <1>4, <1>5, <1>7 DEF IInv, CheckInv, VerdictInv
LEMMA SweepKeepsIInv ==
  ASSUME IInv, EndSlice \/ BeginSlice
  PROVE  IInv'
<1>1. /\ pc = "sweep" /\ events # {} /\ events' = events \ {NextEvent}
      /\ UNCHANGED <<stream, slices, pc, position, covered_area, exceeds, status>>
  BY DEF EndSlice, BeginSlice
<1>2. TypeInv' /\ AreaInv'
  BY <1>1, AreaKept DEF TypeInv
<1>3. OrderInv'
  BY <1>1, OrderKept
<1>4. RowsInv'
  BY EndSliceKeepsRows, BeginSliceKeepsRows
<1> QED BY <1>1, <1>2, <1>3, <1>4 DEF IInv, CheckInv, VerdictInv

LEMMA FindOverlapKeepsIInv ==
  ASSUME IInv, FindOverlap
  PROVE  IInv'
<1>1. /\ pc = "sweep" /\ pc' = "done"
      /\ status' = [code |-> "refused", slice |-> NextEvent.slice]
      /\ UNCHANGED <<stream, slices>>
  BY DEF FindOverlap, Return
<1>2. ~Apart(DOMAIN slices) /\ NextEvent.slice # 0
  BY FindOverlapIsRight
<1>3. slices \in Seq(Rectangles)
  BY SlicesTyped DEF IInv
<1>4. Coverage!Verdict(stream, slices) = "refused"
  BY <1>2, <1>3, VerdictOfCover
<1>5. verdict' = "refused"
  BY <1>1, <1>2 DEF verdict, Incomplete
<1>6. TypeInv'
  BY <1>1 DEF IInv, TypeInv
<1> QED BY <1>1, <1>4, <1>5, <1>6, VerdictKept
        DEF IInv, AreaInv, CheckInv, OrderInv, RowsInv, VerdictInv

\* All slices begun, so none overlap; the sum of the areas tells whether a cell is left out.
LEMMA FinishKeepsIInv ==
  ASSUME IInv, Finish
  PROVE  IInv'
<1>1. /\ pc = "sweep" /\ pc' = "done" /\ events = {} /\ UNCHANGED <<stream, slices>>
      /\ status' = IF exceeds \/ covered_area # CellCount
                   THEN [code |-> "refused", slice |-> 0] ELSE [code |-> "ok", slice |-> 0]
  BY DEF Finish, Return
<1>2. /\ slices \in Seq(Rectangles) /\ stream \in Streams /\ Len(slices) \in Nat
      /\ DOMAIN slices = 1..Len(slices)
  BY SlicesTyped DEF IInv
<1>3. Begun = DOMAIN slices
  BY <1>1 DEF Begun
<1>4. Apart(DOMAIN slices)
  BY <1>1, <1>3 DEF IInv, RowsInv
<1>5. /\ \A i \in 1..Len(slices) : ~SliceRefused(slices[i])
      /\ ~exceeds /\ covered_area = Cardinality(Union(Len(slices)))
  BY <1>1, <1>2, <1>4 DEF IInv, AreaInv, OrderInv
<1>6. covered_area = CellCount <=> Union(Len(slices)) = Grid(stream)
  <2>1. TypeInv /\ Len(slices) \in 0..Len(slices)
    BY <1>2 DEF IInv
  <2>2. Cardinality(Union(Len(slices))) = CellCount => Union(Len(slices)) = Grid(stream)
    BY <1>5, <2>1, UnionInGrid
  <2>3. Cardinality(Grid(stream)) = CellCount
    BY <1>2, GridCounted
  <2> QED BY <1>5, <2>2, <2>3
<1>7. Union(Len(slices)) = UNION {Cells(slices[i]) : i \in DOMAIN slices}
  BY <1>2 DEF Union
<1>8. Coverage!Verdict(stream, slices)
        = IF Union(Len(slices)) = Grid(stream) THEN "complete" ELSE "incomplete"
  BY <1>2, <1>4, <1>5, <1>7, VerdictOfCover
<1>9. verdict' = IF covered_area = CellCount THEN "complete" ELSE "incomplete"
  BY <1>1, <1>5 DEF verdict, Incomplete
<1>10. TypeInv'
  BY <1>1 DEF IInv, TypeInv
<1> QED BY <1>1, <1>6, <1>8, <1>9, <1>10, VerdictKept
        DEF IInv, AreaInv, CheckInv, OrderInv, RowsInv, VerdictInv

LEMMA NextKeepsIInv ==
  ASSUME IInv, [Next]_vars
  PROVE  IInv'
<1>1. CASE CheckSlice
  BY <1>1, CheckSliceKeepsIInv
<1>2. CASE RefuseSlice
  BY <1>2, RefuseSliceKeepsIInv
<1>3. CASE StartSweep
  BY <1>3, StartSweepKeepsIInv
<1>4. CASE EndSlice \/ BeginSlice
  BY <1>4, SweepKeepsIInv
<1>5. CASE FindOverlap
  BY <1>5, FindOverlapKeepsIInv
<1>6. CASE Finish
  BY <1>6, FinishKeepsIInv
<1>7. CASE UNCHANGED vars
  <2>1. /\ UNCHANGED <<stream, slices, pc, position, covered_area>>
        /\ UNCHANGED <<exceeds, events, active, status>>
    BY <1>7 DEF vars
  <2>2. TypeInv'
    BY <2>1 DEF IInv, TypeInv
  <2>3. AreaInv'
    BY <2>1, AreaKept DEF AreaInv
  <2>4. \A n : EventsOf(n)' = EventsOf(n)
    BY <2>1 DEF EventsOf, StartOf, EndOf
  <2>5. CheckInv' /\ OrderInv'
    BY <2>1, <2>4 DEF IInv, CheckInv, OrderInv, Before
  <2>6. Begun' = Begun /\ Open' = Open /\ \A i : End(i)' = End(i)
    BY <2>1 DEF Begun, Open, StartOf, EndOf, End
  <2>7. RowsInv'
    BY <2>1, <2>6 DEF IInv, RowsInv, Apart
  <2>8. VerdictInv'
    BY <2>1, VerdictKept DEF IInv, VerdictInv, verdict, Incomplete
  <2> QED BY <2>2, <2>3, <2>5, <2>7, <2>8 DEF IInv
<1> QED BY <1>1, <1>2, <1>3, <1>4, <1>5, <1>6, <1>7 DEF Next

THEOREM InductiveInvariant == Spec => []IInv
<1>1. Init => IInv
  BY InitEstablishesIInv
<1>2. IInv /\ [Next]_vars => IInv'
  BY NextKeepsIInv
<1> QED BY <1>1, <1>2, PTL DEF Spec
-----------------------------------------------------------------------------
\* For every stream, grid and frame: the sweep accepts exactly the covers of the grid, and
\* tells slices that leave cells out from slices that are refused; the safety part of
\* ImplementsCoverage (slice_raster_validator.cpp:36).
THEOREM SweepDecidesCoverage == Spec => Coverage!Init /\ [][Coverage!Next]_(Coverage!vars)
<1>1. Init => Coverage!Init
  <2> SUFFICES ASSUME Init PROVE Coverage!Init
    OBVIOUS
  <2>1. IInv
    BY InitEstablishesIInv
  <2>2. stream \in Streams /\ slices \in Seq(Rectangles) /\ verdict = "none"
    BY <2>1, SlicesTyped DEF IInv, Init, verdict
  <2> QED BY <2>2 DEF Coverage!Init, Rectangles
<1>2. IInv /\ IInv' /\ [Next]_vars => [Coverage!Next]_(Coverage!vars)
  <2> SUFFICES ASSUME IInv, IInv', [Next]_vars
               PROVE  Coverage!Decide \/ UNCHANGED <<stream, slices, verdict>>
    BY DEF Coverage!Next, Coverage!vars
  <2>1. UNCHANGED <<stream, slices>>
    BY DEF Next, vars, CheckSlice, RefuseSlice, StartSweep, EndSlice, BeginSlice,
           FindOverlap, Finish
  <2>2. CASE pc' # "done"
    <3>1. pc # "done"
      BY <2>2 DEF Next, vars, CheckSlice, RefuseSlice, StartSweep, EndSlice, BeginSlice,
                  FindOverlap, Finish, Return
    <3>2. verdict = "none" /\ verdict' = "none"
      BY <2>2, <3>1 DEF verdict
    <3> QED BY <2>1, <3>2
  <2>3. CASE pc = "done"
    <3>1. UNCHANGED <<pc, status>>
      BY <2>3 DEF Next, vars, CheckSlice, RefuseSlice, StartSweep, EndSlice, BeginSlice,
                  FindOverlap, Finish
    <3>2. verdict' = verdict
      BY <3>1 DEF verdict, Incomplete
    <3> QED BY <2>1, <3>2
  <2>4. CASE pc' = "done" /\ pc # "done"
    <3>1. verdict = "none"
      BY <2>4 DEF verdict
    <3>2. verdict' = Coverage!Verdict(stream, slices)
      BY <2>1, <2>4, VerdictKept DEF IInv, VerdictInv
    <3> QED BY <2>1, <3>1, <3>2 DEF Coverage!Decide
  <2> QED BY <2>2, <2>3, <2>4
<1> QED BY <1>1, <1>2, InductiveInvariant, PTL DEF Spec

\* For every stream, grid and frame: slices that are accepted write each sample of a plane
\* exactly once, and none outside it (slice_output_window.cpp:94).
THEOREM AcceptedSlicesPartition == Spec => []WindowsPartition
<1>1. IInv => WindowsPartition
  <2> SUFFICES ASSUME IInv PROVE WindowsPartition
    OBVIOUS
  <2>1. stream \in Streams /\ slices \in Seq(Rectangles)
    BY SlicesTyped DEF IInv
  <2>2. verdict = "complete" => Coverage!Verdict(stream, slices) = "complete"
    BY DEF IInv, VerdictInv, verdict
  <2> QED BY <2>1, <2>2, CoverGivesPartition
<1> QED BY <1>1, InductiveInvariant, PTL
-----------------------------------------------------------------------------
(***************************************************************************)
(* The encoder's grid: one slice to a cell, row by row.                    *)
(***************************************************************************)
LEMMA Remainder ==
  ASSUME NEW a \in Nat, NEW c \in Nat, c > 0
  PROVE  a % c \in 0..(c - 1) /\ a = c * (a \div c) + (a % c)
OBVIOUS

LEMMA QuotientOfCell ==
  ASSUME NEW c \in Nat, c > 0, NEW a \in 0..(c - 1), NEW b \in Nat
  PROVE  (c * b + a) \div c = b /\ (c * b + a) % c = a
<1> DEFINE t == c * b + a
           q == t \div c
           m == t % c
<1>1. c * b \in Nat /\ t \in Nat
  OBVIOUS
<1>2. q \in Nat /\ m \in 0..(c - 1) /\ t = c * q + m
  BY <1>1, Quotient, Remainder
<1>3. c * b + a = c * q + m
  BY <1>2
<1> HIDE DEF t, q, m
<1>4. ASSUME q < b PROVE FALSE
  <2>1. c * (q + 1) <= c * b
    BY <1>2, <1>4
  <2> QED BY <1>1, <1>2, <1>3, <2>1
<1>5. ASSUME b < q PROVE FALSE
  <2>1. c * (b + 1) <= c * q
    BY <1>2, <1>5
  <2> QED BY <1>1, <1>2, <1>3, <2>1
<1>6. q = b
  BY <1>2, <1>4, <1>5
<1>7. m = a
  BY <1>1, <1>2, <1>3, <1>6
<1> QED BY <1>6, <1>7 DEF t, q, m

LEMMA CellsOfLayout ==
  ASSUME NEW s \in Streams
  PROVE  /\ s.h \in Nat \ {0} /\ s.v \in Nat \ {0} /\ s.h * s.v \in Nat
         /\ DOMAIN EncoderLayout(s) = 1..(s.h * s.v)
         /\ \A i \in 1..(s.h * s.v) :
              LET r == EncoderLayout(s)[i]
              IN /\ r.x \in 0..(s.h - 1) /\ r.y \in 0..(s.v - 1)
                 /\ r.width = 1 /\ r.height = 1 /\ r \in Rectangles
                 /\ Cells(r) = {<<r.x, r.y>>}
                 /\ i = s.h * r.y + r.x + 1
<1> DEFINE h == s.h
           v == s.v
           n == h * v
<1>1. h \in Nat \ {0} /\ v \in Nat \ {0} /\ n \in Nat
  BY StreamsAssumption
<1>2. /\ DOMAIN EncoderLayout(s) = 1..n
      /\ \A i \in 1..n :
           /\ EncoderLayout(s)[i].x = (i - 1) % h
           /\ EncoderLayout(s)[i].y = (i - 1) \div h
           /\ EncoderLayout(s)[i].width = 1
           /\ EncoderLayout(s)[i].height = 1
           /\ EncoderLayout(s)[i] = [x |-> (i - 1) % h, y |-> (i - 1) \div h,
                                     width |-> 1, height |-> 1]
  BY DEF EncoderLayout
<1>3. ASSUME NEW i \in 1..n
      PROVE  LET r == EncoderLayout(s)[i]
             IN /\ r.x \in 0..(h - 1) /\ r.y \in 0..(v - 1)
                /\ r.width = 1 /\ r.height = 1 /\ r \in Rectangles
                /\ Cells(r) = {<<r.x, r.y>>}
                /\ i = h * r.y + r.x + 1
  <2> DEFINE q == (i - 1) \div h
             m == (i - 1) % h
  <2> HIDE DEF h, v
  <2>1. /\ q \in Nat /\ m \in 0..(h - 1) /\ i - 1 = h * q + m /\ i - 1 \in Nat
    BY <1>1, Quotient, Remainder
  <2> HIDE DEF q, m
  <2>2. ASSUME q >= v PROVE FALSE
    <3>1. h * q >= h * v
      BY <1>1, <2>1, <2>2
    <3>2. h * q \in Nat /\ h * q <= i - 1
      BY <1>1, <2>1
    <3> QED BY <1>1, <2>1, <3>1, <3>2
  <2>3. q \in 0..(v - 1)
    BY <1>1, <2>1, <2>2
  <2>4. i = h * q + m + 1
    <3>1. h * q \in Nat
      BY <1>1, <2>1
    <3> QED BY <2>1, <3>1
  <2>5. EncoderLayout(s)[i] = [x |-> m, y |-> q, width |-> 1, height |-> 1]
    BY <1>2 DEF q, m
  <2>6. EncoderLayout(s)[i] \in Rectangles
    BY <1>1, <2>1, <2>3, <2>5 DEF Rectangles
  <2>7. Cells(EncoderLayout(s)[i]) = {<<m, q>>}
    <3>1. m..(m + 1 - 1) = {m} /\ q..(q + 1 - 1) = {q}
      BY <1>1, <2>1
    <3> QED BY <2>5, <3>1 DEF Cells
  <2> QED BY <2>1, <2>3, <2>4, <2>5, <2>6, <2>7
<1> QED BY <1>1, <1>2, <1>3

LEMMA LayoutReachesCell ==
  ASSUME NEW s \in Streams, NEW a \in 0..(s.h - 1), NEW b \in 0..(s.v - 1)
  PROVE  \E i \in 1..(s.h * s.v) :
           EncoderLayout(s)[i].x = a /\ EncoderLayout(s)[i].y = b
<1> DEFINE h == s.h
           v == s.v
           n == h * v
           t == h * b + a
<1>1. h \in Nat \ {0} /\ v \in Nat \ {0} /\ n \in Nat
  BY StreamsAssumption
<1>2. \A i \in 1..n :
        EncoderLayout(s)[i].x = (i - 1) % h /\ EncoderLayout(s)[i].y = (i - 1) \div h
  BY DEF EncoderLayout
<1>3. a \in 0..(h - 1) /\ b \in 0..(v - 1)
  OBVIOUS
<1> HIDE DEF h, v
<1>4. b \in Nat /\ h * b \in Nat /\ t \in Nat
  BY <1>1, <1>3
<1>5. t \div h = b /\ t % h = a
  BY <1>1, <1>3, <1>4, QuotientOfCell
<1>6. t < n
  <2>1. h * (b + 1) <= h * v
    BY <1>1, <1>3
  <2>2. h * (b + 1) = h * b + h
    BY <1>1, <1>3
  <2> QED BY <1>1, <1>3, <1>4, <2>1, <2>2
<1> HIDE DEF t, n
<1>7. t + 1 \in 1..n /\ (t + 1) - 1 = t
  BY <1>1, <1>4, <1>6
<1>8. EncoderLayout(s)[t + 1].x = a /\ EncoderLayout(s)[t + 1].y = b
  BY <1>2, <1>5, <1>7
<1> QED BY <1>7, <1>8 DEF n, h, v

\* The layout is a cover of the grid that no limit refuses.
LEMMA LayoutIsCover ==
  ASSUME stream \in Streams, ~ProfileRefused(stream), slices = EncoderLayout(stream),
         slices \in Seq(Rectangles)
  PROVE  Coverage!Verdict(stream, slices) = "complete"
<1> DEFINE h == stream.h
           v == stream.v
<1>1. /\ h \in Nat \ {0} /\ v \in Nat \ {0} /\ h * v \in Nat
      /\ DOMAIN slices = 1..(h * v)
      /\ \A i \in 1..(h * v) :
           /\ slices[i].x \in 0..(h - 1) /\ slices[i].y \in 0..(v - 1)
           /\ slices[i].width = 1 /\ slices[i].height = 1
           /\ Cells(slices[i]) = {<<slices[i].x, slices[i].y>>}
           /\ i = h * slices[i].y + slices[i].x + 1
      /\ \A a \in 0..(h - 1), b \in 0..(v - 1) :
           \E i \in 1..(h * v) : slices[i].x = a /\ slices[i].y = b
  <2>1. /\ h \in Nat \ {0} /\ v \in Nat \ {0} /\ h * v \in Nat
        /\ DOMAIN EncoderLayout(stream) = 1..(h * v)
    BY CellsOfLayout
  <2>2. ASSUME NEW i \in 1..(h * v)
        PROVE  /\ slices[i].x \in 0..(h - 1) /\ slices[i].y \in 0..(v - 1)
               /\ slices[i].width = 1 /\ slices[i].height = 1
               /\ Cells(slices[i]) = {<<slices[i].x, slices[i].y>>}
               /\ i = h * slices[i].y + slices[i].x + 1
    BY CellsOfLayout
  <2>3. ASSUME NEW a \in 0..(h - 1), NEW b \in 0..(v - 1)
        PROVE  \E i \in 1..(h * v) : slices[i].x = a /\ slices[i].y = b
    BY LayoutReachesCell
  <2> HIDE DEF h, v
  <2> QED BY <2>1, <2>2, <2>3
<1>2. LimitsSlices(stream) => 1 <= CellCount \div 4
  <2> SUFFICES ASSUME LimitsSlices(stream) PROVE 1 <= CellCount \div 4
    OBVIOUS
  <2> DEFINE n == CellCount
  <2>1. n \in Nat /\ n >= 4
    BY <1>1 DEF ProfileRefused, CellCount
  <2> HIDE DEF n
  <2>2. n \div 4 \in Nat /\ n < 4 * (n \div 4) + 4
    BY <2>1, Quotient
  <2>3. 1 <= n \div 4
    BY <2>1, <2>2
  <2> QED BY <2>3 DEF n
<1> HIDE DEF h, v
<1>3. ASSUME NEW i \in DOMAIN slices PROVE ~SliceRefused(slices[i])
  <2>1. /\ slices[i].x \in 0..(h - 1) /\ slices[i].y \in 0..(v - 1)
        /\ slices[i].width = 1 /\ slices[i].height = 1
    BY <1>1
  <2>2. ~Empty(slices[i])
    BY <2>1 DEF Empty
  <2>3. ~OutsideRaster(stream, slices[i])
    <3> DEFINE x == slices[i].x
               y == slices[i].y
    <3>1. x \in 0..(h - 1) /\ y \in 0..(v - 1)
      BY <2>1
    <3> HIDE DEF x, y
    <3>2. ~(x > h) /\ ~(y > v) /\ ~(1 > h - x) /\ ~(1 > v - y)
      BY <1>1, <3>1
    <3> QED BY <2>1, <3>2 DEF OutsideRaster, h, v, x, y
  <2>4. Area(slices[i]) = 1
    BY <2>1 DEF Area
  <2>5. ~(LimitsSlices(stream) /\ Area(slices[i]) > CellCount \div 4)
    <3> DEFINE quarter == CellCount \div 4
    <3>1. quarter \in Nat
      <4>1. CellCount \in Nat
        BY GridCounted
      <4> QED BY <4>1, Quotient
    <3>2. LimitsSlices(stream) => 1 <= quarter
      BY <1>2
    <3> HIDE DEF quarter
    <3>3. LimitsSlices(stream) => ~(1 > quarter)
      BY <3>1, <3>2
    <3> QED BY <2>4, <3>3 DEF quarter
  <2> QED BY <2>2, <2>3, <2>5 DEF SliceRefused
<1>4. Apart(DOMAIN slices)
  <2> SUFFICES ASSUME NEW i \in DOMAIN slices, NEW j \in DOMAIN slices, i # j
               PROVE  Cells(slices[i]) \cap Cells(slices[j]) = {}
    BY DEF Apart
  <2>1. /\ Cells(slices[i]) = {<<slices[i].x, slices[i].y>>}
        /\ Cells(slices[j]) = {<<slices[j].x, slices[j].y>>}
    BY <1>1
  <2>2. ASSUME slices[i].x = slices[j].x, slices[i].y = slices[j].y PROVE FALSE
    <3>1. i = h * slices[i].y + slices[i].x + 1 /\ j = h * slices[j].y + slices[j].x + 1
      BY <1>1
    <3> QED BY <2>2, <3>1
  <2> QED BY <2>1, <2>2
<1>5. UNION {Cells(slices[i]) : i \in DOMAIN slices} = Grid(stream)
  <2>1. ASSUME NEW i \in DOMAIN slices PROVE Cells(slices[i]) \subseteq Grid(stream)
    BY <1>1 DEF Grid, h, v
  <2>2. ASSUME NEW z \in Grid(stream) PROVE \E i \in DOMAIN slices : z \in Cells(slices[i])
    <3>1. PICK a \in 0..(h - 1), b \in 0..(v - 1) : z = <<a, b>>
      BY DEF Grid, h, v
    <3>2. PICK i \in 1..(h * v) : slices[i].x = a /\ slices[i].y = b
      BY <1>1
    <3>3. i \in DOMAIN slices /\ Cells(slices[i]) = {<<slices[i].x, slices[i].y>>}
      BY <1>1
    <3> QED BY <3>1, <3>2, <3>3
  <2> QED BY <2>1, <2>2
<1> QED BY <1>3, <1>4, <1>5, VerdictOfCover
\* A plane with a sample for each grid position has a sample in each cell.
LEMMA PositionsGrow ==
  ASSUME NEW extent \in Nat, NEW count \in Nat \ {0}, count <= extent, NEW cell \in Nat
  PROVE  ScaledGridPosition(extent, count, cell) < ScaledGridPosition(extent, count, cell + 1)
<1> DEFINE a == cell * extent
           b == (cell + 1) * extent
           p == a \div count
           q == b \div count
<1>1. a \in Nat /\ b \in Nat /\ b = a + extent
  OBVIOUS
<1> HIDE DEF a, b
<1>2. p \in Nat /\ count * p <= a /\ q \in Nat /\ b < count * q + count
  BY <1>1, Quotient
<1> HIDE DEF p, q
<1>3. ASSUME q <= p PROVE FALSE
  <2>1. count * q <= count * p
    BY <1>2, <1>3
  <2>2. count * q \in Nat /\ count * p \in Nat
    BY <1>2
  <2> QED BY <1>1, <1>2, <2>1, <2>2
<1>4. p < q
  BY <1>2, <1>3
<1> QED BY <1>4 DEF ScaledGridPosition, p, q, a, b

\* One cell of a dimension is a part that is neither empty nor outside.
LEMMA CellIsWithin ==
  ASSUME NEW extent \in Nat, NEW count \in Nat \ {0}, count <= extent,
         NEW cell \in 0..(count - 1)
  PROVE  /\ Between(extent, count, cell, 1).length # 0
         /\ ~Exceeds(Between(extent, count, cell, 1), extent)
<1> DEFINE p == ScaledGridPosition(extent, count, cell)
           q == ScaledGridPosition(extent, count, cell + 1)
<1>1. cell \in Nat /\ cell + 1 \in Nat /\ count \in Nat /\ cell + 1 <= count
  OBVIOUS
<1>2. p \in Nat /\ q \in Nat /\ p < q /\ q <= extent
  <2>1. /\ p \in Nat /\ q \in Nat
        /\ q <= ScaledGridPosition(extent, count, count)
        /\ ScaledGridPosition(extent, count, count) = extent
    BY <1>1, Positions
  <2>2. p < q
    BY <1>1, PositionsGrow
  <2> QED BY <2>1, <2>2
<1>3. Between(extent, count, cell, 1) = [from |-> p, length |-> q - p]
  BY DEF Between
<1> HIDE DEF p, q
<1>4. q - p # 0 /\ ~(p > extent) /\ ~(q - p > extent - p)
  BY <1>2
<1> QED BY <1>3, <1>4 DEF Exceeds

LEMMA LayoutIsWritten ==
  ASSUME NEW s \in Streams, ~ProfileRefused(s), NEW i \in 1..(s.h * s.v)
  PROVE  ~InputRefused(s, EncoderLayout(s)[i]) /\ ~OutputRefused(s, EncoderLayout(s)[i])
<1> DEFINE r == EncoderLayout(s)[i]
<1>1. /\ r.x \in 0..(s.h - 1) /\ r.y \in 0..(s.v - 1) /\ r.width = 1 /\ r.height = 1
      /\ s.h \in Nat \ {0} /\ s.v \in Nat \ {0}
  BY CellsOfLayout
<1> HIDE DEF r
<1>2. ASSUME NEW p \in Planes(s)
      PROVE  /\ PlaneWidth(s, p) \in Nat /\ PlaneHeight(s, p) \in Nat
             /\ s.h <= PlaneWidth(s, p) /\ s.v <= PlaneHeight(s, p)
  <2>1. PlaneWidth(s, p) \in Nat /\ PlaneHeight(s, p) \in Nat
    BY PlaneExtents
  <2>2. ~(s.h > PlaneWidth(s, p)) /\ ~(s.v > PlaneHeight(s, p))
    BY DEF ProfileRefused
  <2> QED BY <1>1, <2>1, <2>2
<1>3. ASSUME NEW p \in Planes(s)
      PROVE  /\ Columns(s, r, p).length # 0 /\ ~Exceeds(Columns(s, r, p), PlaneWidth(s, p))
             /\ Rows(s, r, p).length # 0 /\ ~Exceeds(Rows(s, r, p), PlaneHeight(s, p))
  <2>1. /\ Columns(s, r, p) = Between(PlaneWidth(s, p), s.h, r.x, 1)
        /\ Rows(s, r, p) = Between(PlaneHeight(s, p), s.v, r.y, 1)
    BY <1>1, WindowOfPlane
  <2> QED BY <1>1, <1>2, <2>1, CellIsWithin
<1>4. /\ PixelColumns(s, r).length # 0 /\ ~Exceeds(PixelColumns(s, r), s.width)
      /\ PixelRows(s, r).length # 0 /\ ~Exceeds(PixelRows(s, r), s.height)
  <2>1. 1 \in Planes(s) /\ ~IsChroma(s, 1)
    BY DEF Planes, IsChroma
  <2>2. /\ Columns(s, r, 1) = PixelColumns(s, r) /\ PlaneWidth(s, 1) = s.width
        /\ Rows(s, r, 1) = PixelRows(s, r) /\ PlaneHeight(s, 1) = s.height
    BY <2>1 DEF Columns, Rows, PlaneWidth, PlaneHeight
  <2> QED BY <1>3, <2>1, <2>2
<1>5. ~Empty(r)
  BY <1>1 DEF Empty
<1> QED BY <1>3, <1>4, <1>5 DEF InputRefused, OutputRefused, r

\* For every stream whose profile the encoder accepts: no decoder refuses the coverage of
\* its slices, and none of them is empty in a plane (encoder_profile.cpp:89).
THEOREM EncoderGridIsAccepted == Spec => []EncoderGridAccepted
<1>1. IInv => EncoderGridAccepted
  <2> SUFFICES ASSUME IInv, ~ProfileRefused(stream), slices = EncoderLayout(stream)
               PROVE  /\ verdict \in {"none", "complete"}
                      /\ \A i \in DOMAIN slices :
                           ~InputRefused(stream, slices[i]) /\ ~OutputRefused(stream, slices[i])
    BY DEF EncoderGridAccepted
  <2>1. stream \in Streams /\ slices \in Seq(Rectangles)
    BY SlicesTyped DEF IInv
  <2>2. Coverage!Verdict(stream, slices) = "complete"
    BY <2>1, LayoutIsCover
  <2>3. verdict \in {"none", "complete"}
    BY <2>2 DEF IInv, VerdictInv, verdict
  <2>4. ASSUME NEW i \in DOMAIN slices
        PROVE  ~InputRefused(stream, slices[i]) /\ ~OutputRefused(stream, slices[i])
    <3>1. i \in 1..(stream.h * stream.v)
      BY <2>1, CellsOfLayout
    <3> QED BY <2>1, <3>1, LayoutIsWritten
  <2> QED BY <2>3, <2>4
<1> QED BY <1>1, InductiveInvariant, PTL
=============================================================================
