-------------------------- MODULE FrameSlicesProofs --------------------------
(***************************************************************************)
(* Theorems about FrameSlices, for every set of frames an encoder may      *)
(* send, with slices of any number, place and content, and everything that *)
(* may happen to them on the way.                                          *)
(***************************************************************************)
EXTENDS FrameSlices, TLAPS, SequenceTheorems, FiniteSetTheorems, WellFoundedInduction

(***************************************************************************)
(* Covers of the grid.                                                     *)
(***************************************************************************)
Fitting(s, rectangles) ==
  \A i \in DOMAIN rectangles :
    /\ ~Empty(rectangles[i]) /\ ~OutsideRaster(s, rectangles[i])
    /\ ~Coverage!TooLarge(s, rectangles[i])

Apart(rectangles) ==
  \A i, j \in DOMAIN rectangles :
    i # j => Cells(rectangles[i]) \cap Cells(rectangles[j]) = {}

AllCells(rectangles) == UNION {Cells(rectangles[i]) : i \in DOMAIN rectangles}

\* RasterCoverage's verdict, in the terms of this module.
LEMMA VerdictMeans ==
  ASSUME NEW s, NEW rectangles
  PROVE  Coverage!Verdict(s, rectangles) =
           IF ~Fitting(s, rectangles) \/ ~Apart(rectangles) THEN "refused"
           ELSE IF AllCells(rectangles) = Grid(s) THEN "complete" ELSE "incomplete"
<1>1. \A r : Coverage!Cells(r) = Cells(r)
  BY DEF Coverage!Cells, Cells
<1>2. \A r : Coverage!Empty(r) = Empty(r)
  BY DEF Coverage!Empty, Empty
<1>3. \A r : Coverage!OutsideRaster(s, r) = OutsideRaster(s, r)
  BY DEF Coverage!OutsideRaster, OutsideRaster
<1>4. Coverage!Grid(s) = Grid(s)
  BY DEF Coverage!Grid, Grid
<1>5. Coverage!WellFormed(s, rectangles) = Fitting(s, rectangles)
  BY <1>2, <1>3 DEF Coverage!WellFormed, Fitting
<1>6. Coverage!Disjoint(rectangles) = Apart(rectangles)
  BY <1>1 DEF Coverage!Disjoint, Apart
<1>7. Coverage!Covered(rectangles) = AllCells(rectangles)
  BY <1>1 DEF Coverage!Covered, AllCells
<1>8. QED
  BY <1>4, <1>5, <1>6, <1>7 DEF Coverage!Verdict

LEMMA IntervalCounted ==
  ASSUME NEW a \in Int, NEW b \in Int, a <= b + 1
  PROVE  IsFiniteSet(a..b) /\ Cardinality(a..b) = (b - a) + 1
<1>1. /\ IsFiniteSet(a..b)
      /\ Cardinality(a..b) = IF a > b THEN 0 ELSE b - a + 1
  BY FS_Interval
<1> DEFINE n == Cardinality(a..b)
<1>2. n = IF a > b THEN 0 ELSE b - a + 1
  BY <1>1
<1> HIDE DEF n
<1>3. n = (b - a) + 1
  BY <1>2
<1>4. QED
  BY <1>1, <1>3 DEF n

LEMMA GridCounted ==
  ASSUME NEW s \in Streams
  PROVE  /\ IsFiniteSet(Grid(s)) /\ Cardinality(Grid(s)) = s.h * s.v
         /\ s.h \in Nat \ {0} /\ s.v \in Nat \ {0} /\ s.h * s.v \in Nat /\ s.h * s.v >= 1
<1> DEFINE columns == 0..(s.h - 1)
           rows == 0..(s.v - 1)
           h == s.h
           v == s.v
<1>1. h \in Nat \ {0} /\ v \in Nat \ {0}
  BY StreamsAssumption
<1>2. IsFiniteSet(columns) /\ Cardinality(columns) = h
  <2>1. 0 \in Int /\ h - 1 \in Int /\ 0 <= (h - 1) + 1
    BY <1>1
  <2>2. IsFiniteSet(columns) /\ Cardinality(columns) = ((h - 1) - 0) + 1
    BY <2>1, IntervalCounted
  <2> HIDE DEF columns
  <2>3. QED
    BY <1>1, <2>2
<1>3. IsFiniteSet(rows) /\ Cardinality(rows) = v
  <2>1. 0 \in Int /\ v - 1 \in Int /\ 0 <= (v - 1) + 1
    BY <1>1
  <2>2. IsFiniteSet(rows) /\ Cardinality(rows) = ((v - 1) - 0) + 1
    BY <2>1, IntervalCounted
  <2> HIDE DEF rows
  <2>3. QED
    BY <1>1, <2>2
<1> HIDE DEF columns, rows
<1>4. IsFiniteSet(columns \X rows) /\ Cardinality(columns \X rows) = h * v
  BY <1>2, <1>3, FS_Product
<1> HIDE DEF h, v
<1>5. h * v \in Nat /\ h * v >= 1
  BY <1>1
<1>6. QED
  BY <1>1, <1>4, <1>5 DEF Grid, columns, rows, h, v

LEMMA FirstOfInterval ==
  ASSUME NEW a \in 0..3, NEW b \in 1..4
  PROVE  a \in a..(a + b - 1)
OBVIOUS

LEMMA CellsOfRect ==
  ASSUME NEW s \in Streams, NEW r \in Rects, ~OutsideRaster(s, r)
  PROVE  <<r.x, r.y>> \in Cells(r) /\ Cells(r) \subseteq Grid(s)
<1>1. /\ r.x \in 0..3 /\ r.y \in 0..3 /\ r.width \in 1..4 /\ r.height \in 1..4
  BY DEF Rects
<1>2. s.h \in Nat \ {0} /\ s.v \in Nat \ {0}
  BY StreamsAssumption
<1>3. /\ r.x + r.width - 1 <= s.h - 1 /\ r.y + r.height - 1 <= s.v - 1
  BY <1>1, <1>2 DEF OutsideRaster
<1>4. r.x \in r.x..(r.x + r.width - 1) /\ r.y \in r.y..(r.y + r.height - 1)
  BY <1>1, FirstOfInterval
<1>5. /\ (r.x..(r.x + r.width - 1)) \subseteq 0..(s.h - 1)
      /\ (r.y..(r.y + r.height - 1)) \subseteq 0..(s.v - 1)
  BY <1>1, <1>2, <1>3
<1>6. QED
  BY <1>4, <1>5 DEF Cells, Grid

\* There are at most as many slices as cells, and no fewer cells than that are left out.
LEMMA Pigeonhole ==
  ASSUME NEW s \in Streams, NEW rectangles \in Seq(Rects),
         Fitting(s, rectangles), Apart(rectangles)
  PROVE  /\ Len(rectangles) <= s.h * s.v
         /\ Len(rectangles) = s.h * s.v => AllCells(rectangles) = Grid(s)
<1> DEFINE n == Len(rectangles)
           grid == Grid(s)
           f == [i \in 1..n |-> <<rectangles[i].x, rectangles[i].y>>]
<1>1. n \in Nat /\ DOMAIN rectangles = 1..n /\ \A i \in 1..n : rectangles[i] \in Rects
  OBVIOUS
<1>2. \A i \in 1..n : f[i] \in Cells(rectangles[i]) /\ Cells(rectangles[i]) \subseteq grid
  BY <1>1, CellsOfRect DEF Fitting
<1>3. \A i, j \in 1..n : i # j => Cells(rectangles[i]) \cap Cells(rectangles[j]) = {}
  BY <1>1 DEF Apart
<1>4. AllCells(rectangles) \subseteq grid
  BY <1>1, <1>2 DEF AllCells
<1>5. f \in [1..n -> grid] /\ \A i, j \in 1..n : f[i] = f[j] => i = j
  <2> HIDE DEF grid, n
  <2>1. \A i \in 1..n : f[i] \in grid
    BY <1>2
  <2>2. f \in [1..n -> grid]
    BY <2>1
  <2> HIDE DEF f
  <2>3. QED
    BY <1>2, <1>3, <2>2
<1>6. \A i \in 1..n : f[i] \in AllCells(rectangles)
  BY <1>1, <1>2 DEF AllCells
<1> HIDE DEF f, n, grid
<1>7. f \in Injection(1..n, grid)
  BY <1>5 DEF Injection, IsInjective
<1>8. /\ IsFiniteSet(grid) /\ Cardinality(grid) = s.h * s.v /\ s.h * s.v \in Nat
  BY GridCounted DEF grid
<1>9. Cardinality(1..n) = n
  <2>1. IsFiniteSet(1..n) /\ Cardinality(1..n) = (n - 1) + 1
    BY <1>1, IntervalCounted
  <2>2. QED
    BY <1>1, <2>1
<1>10. /\ Cardinality(1..n) <= Cardinality(grid)
       /\ Cardinality(1..n) = Cardinality(grid) <=> f \in Surjection(1..n, grid)
  BY <1>7, <1>8, FS_Injection
<1>11. n <= s.h * s.v
  BY <1>8, <1>9, <1>10
<1>12. ASSUME n = s.h * s.v
       PROVE  AllCells(rectangles) = grid
  <2>1. f \in Surjection(1..n, grid)
    BY <1>8, <1>9, <1>10, <1>12
  <2>2. \A c \in grid : \E i \in 1..n : f[i] = c
    BY <2>1 DEF Surjection
  <2>3. grid \subseteq AllCells(rectangles)
    BY <1>6, <2>2
  <2>4. QED
    BY <1>4, <2>3
<1>13. QED
  BY <1>11, <1>12 DEF n, grid

\* A part of a cover leaves cells out, and is nothing to be refused.
LEMMA PrefixIncomplete ==
  ASSUME NEW s \in Streams, NEW rectangles \in Seq(Rects),
         Coverage!Verdict(s, rectangles) = "complete",
         NEW part \in Seq(Rects), Len(part) < Len(rectangles),
         \A i \in 1..Len(part) : part[i] = rectangles[i]
  PROVE  Coverage!Verdict(s, part) = "incomplete"
<1> DEFINE n == Len(part)
           m == Len(rectangles)
<1>1. n \in Nat /\ m \in Nat /\ n < m /\ DOMAIN part = 1..n /\ DOMAIN rectangles = 1..m
  OBVIOUS
<1>2. Fitting(s, rectangles) /\ Apart(rectangles)
  BY VerdictMeans
<1>3. 1..n \subseteq 1..m /\ n + 1 \in 1..m /\ n + 1 \notin 1..n
  BY <1>1
<1> HIDE DEF n, m
<1>4. Fitting(s, part)
  BY <1>1, <1>2, <1>3 DEF Fitting, n
<1>5. Apart(part)
  BY <1>1, <1>2, <1>3 DEF Apart, n
<1>6. AllCells(part) # Grid(s)
  <2> DEFINE r == rectangles[n + 1]
             c == <<r.x, r.y>>
  <2>1. r \in Rects /\ ~OutsideRaster(s, r)
    BY <1>1, <1>2, <1>3 DEF Fitting, m
  <2>2. c \in Cells(r) /\ Cells(r) \subseteq Grid(s)
    BY <2>1, CellsOfRect
  <2>3. \A i \in 1..n : c \notin Cells(part[i])
    <3>1. \A i \in 1..n : Cells(rectangles[i]) \cap Cells(r) = {}
      BY <1>1, <1>2, <1>3 DEF Apart
    <3>2. \A i \in 1..n : part[i] = rectangles[i]
      BY DEF n
    <3> HIDE DEF r, c
    <3>3. QED
      BY <2>2, <3>1, <3>2
  <2>4. c \notin AllCells(part)
    <3> HIDE DEF c
    <3>1. QED
      BY <1>1, <2>3 DEF AllCells
  <2>5. QED
    BY <2>2, <2>4
<1>7. QED
  BY <1>4, <1>5, <1>6, VerdictMeans

(***************************************************************************)
(* Recursive functions.                                                    *)
(***************************************************************************)
LEMMA LeastElement ==
  ASSUME NEW A \in SUBSET Nat, A # {}
  PROVE  \E least \in A : \A n \in A : least <= n
<1>1. PICK least \in A : \A n \in A : ~ (<<n, least>> \in OpToRel(<, Nat))
  BY NatLessThanWellFounded, WFMin
<1>2. ASSUME NEW n \in A, n < least
      PROVE  FALSE
  BY <1>1, <1>2 DEF OpToRel
<1>3. QED
  BY <1>2

\* Induction, over the members of a set.
LEMMA SetInduction ==
  ASSUME NEW S, 0 \in S, \A n \in Nat : n \in S => n + 1 \in S
  PROVE  Nat \subseteq S
<1> SUFFICES ASSUME Nat \ S # {}
             PROVE  FALSE
  OBVIOUS
<1>1. PICK least \in Nat \ S : \A n \in Nat \ S : least <= n
  BY LeastElement
<1>2. least # 0
  OBVIOUS
<1>3. least - 1 \in Nat /\ least - 1 \in S
  BY <1>1, <1>2
<1>4. QED
  BY <1>1, <1>3

Iterates(f, T, base, step, n) ==
  /\ f \in [0..n -> T]
  /\ f[0] = base
  /\ \A i \in 1..n : f[i] = step[<<i, f[i - 1]>>]

LEMMA IterationExists ==
  ASSUME NEW T, NEW base \in T, NEW step \in [Nat \X T -> T], NEW n \in Nat
  PROVE  \E f : Iterates(f, T, base, step, n)
<1> DEFINE S == {m \in Nat : \E f : Iterates(f, T, base, step, m)}
<1>1. 0 \in S
  <2> DEFINE f == [i \in 0..0 |-> base]
  <2>1. Iterates(f, T, base, step, 0)
    BY DEF Iterates
  <2>2. QED
    BY <2>1
<1>2. ASSUME NEW m \in Nat, m \in S
      PROVE  m + 1 \in S
  <2>1. PICK g : Iterates(g, T, base, step, m)
    BY <1>2
  <2> DEFINE top == step[<<m + 1, g[m]>>]
             h == [i \in 0..(m + 1) |-> IF i = m + 1 THEN top ELSE g[i]]
  <2>2. /\ g \in [0..m -> T] /\ g[0] = base
        /\ \A i \in 1..m : g[i] = step[<<i, g[i - 1]>>]
    BY <2>1 DEF Iterates
  <2>3. top \in T
    <3>1. g[m] \in T /\ m + 1 \in Nat
      BY <2>2
    <3>2. QED
      BY <3>1
  <2>4. \A i \in 0..m : h[i] = g[i]
    OBVIOUS
  <2>5. h[m + 1] = top
    OBVIOUS
  <2>6. h \in [0..(m + 1) -> T] /\ h[0] = base
    <3> HIDE DEF top
    <3>1. QED
      BY <2>2, <2>3
  <2> HIDE DEF h
  <2>7. ASSUME NEW i \in 1..(m + 1)
        PROVE  h[i] = step[<<i, h[i - 1]>>]
    <3>1. CASE i = m + 1
      <4>1. i - 1 = m /\ m \in 0..m
        BY <3>1
      <4>2. QED
        BY <2>4, <2>5, <3>1, <4>1
    <3>2. CASE i # m + 1
      <4>1. i \in 1..m /\ i \in 0..m /\ i - 1 \in 0..m
        BY <3>2
      <4>2. QED
        BY <2>2, <2>4, <4>1
    <3>3. QED
      BY <3>1, <3>2
  <2>8. Iterates(h, T, base, step, m + 1)
    BY <2>6, <2>7 DEF Iterates
  <2>9. QED
    BY <2>8
<1> HIDE DEF S
<1>3. n \in S
  BY <1>1, <1>2, SetInduction
<1>4. QED
  BY <1>3 DEF S

(***************************************************************************)
(* Where the pieces of a frame begin.                                      *)
(***************************************************************************)
LEMMA PiecesBefore ==
  ASSUME NEW pieces \in Seq(Seq(Byte))
  PROVE  /\ BytesBefore(pieces, 1) = 0
         /\ \A i \in 1..Len(pieces) :
              /\ BytesBefore(pieces, i) \in Nat
              /\ BytesBefore(pieces, i + 1) = BytesBefore(pieces, i) + Len(pieces[i])
         /\ BytesBefore(pieces, Len(pieces) + 1) \in Nat
<1> DEFINE n == Len(pieces)
           F(before) == [k \in 1..(n + 1) |->
                           IF k = 1 THEN 0 ELSE before[k - 1] + Len(pieces[k - 1])]
           h == CHOOSE before : before = F(before)
           D == 1..n
           step == [w \in Nat \X Nat |->
                      w[2] + (IF w[1] \in D THEN Len(pieces[w[1]]) ELSE 0)]
<1>1. n \in Nat /\ \A i \in D : Len(pieces[i]) \in Nat
  OBVIOUS
<1>2. \A i : BytesBefore(pieces, i) = h[i]
  BY DEF BytesBefore
<1>3. step \in [Nat \X Nat -> Nat]
  <2> HIDE DEF D, n
  <2>1. \A w \in Nat \X Nat : w[2] + (IF w[1] \in D THEN Len(pieces[w[1]]) ELSE 0) \in Nat
    BY <1>1
  <2>2. QED
    BY <2>1
<1>4. PICK g : Iterates(g, Nat, 0, step, n)
  <2> HIDE DEF step
  <2>1. QED
    BY <1>1, <1>3, IterationExists
<1>5. \A i \in D : g[i - 1] \in Nat /\ g[i] = g[i - 1] + Len(pieces[i])
  <2> SUFFICES ASSUME NEW i \in D
               PROVE  g[i - 1] \in Nat /\ g[i] = g[i - 1] + Len(pieces[i])
    OBVIOUS
  <2>1. g[i - 1] \in Nat /\ g[i] = step[<<i, g[i - 1]>>] /\ i \in Nat
    <3> HIDE DEF step
    <3>1. i - 1 \in 0..n /\ i \in 1..n /\ i \in Nat
      BY <1>1
    <3>2. QED
      BY <1>4, <3>1 DEF Iterates
  <2>2. QED
    BY <2>1
<1>6. g[0] = 0
  BY <1>4 DEF Iterates
<1> DEFINE b == [k \in 1..(n + 1) |-> g[k - 1]]
<1>7. b = F(b)
  <2>1. ASSUME NEW k \in 1..(n + 1)
        PROVE  g[k - 1] = IF k = 1 THEN 0 ELSE b[k - 1] + Len(pieces[k - 1])
    <3>1. CASE k = 1
      BY <1>6, <3>1
    <3>2. CASE k # 1
      <4>1. k - 1 \in D /\ k - 1 \in 1..(n + 1)
        BY <1>1, <3>2
      <4>2. b[k - 1] = g[(k - 1) - 1]
        BY <4>1
      <4>3. g[k - 1] = g[(k - 1) - 1] + Len(pieces[k - 1])
        BY <1>5, <4>1
      <4>4. QED
        BY <3>2, <4>2, <4>3
    <3>3. QED
      BY <3>1, <3>2
  <2>2. QED
    BY <2>1
<1> HIDE DEF b
<1>8. h = F(h)
  BY <1>7
<1> HIDE DEF h
<1>9. \A k \in 1..(n + 1) : h[k] = IF k = 1 THEN 0 ELSE h[k - 1] + Len(pieces[k - 1])
  BY <1>8
<1>10. h[1] = 0
  <2>1. 1 \in 1..(n + 1)
    BY <1>1
  <2>2. QED
    BY <1>9, <2>1
<1>11. \A i \in D : h[i + 1] = h[i] + Len(pieces[i])
  <2> SUFFICES ASSUME NEW i \in D
               PROVE  h[i + 1] = h[i] + Len(pieces[i])
    OBVIOUS
  <2>1. i + 1 \in 1..(n + 1) /\ i + 1 # 1 /\ (i + 1) - 1 = i
    BY <1>1
  <2>2. QED
    BY <1>9, <2>1
<1>12. \A i \in 1..(n + 1) : h[i] \in Nat
  <2> DEFINE S == {m \in Nat : m <= n => h[m + 1] \in Nat}
  <2>1. 0 \in S
    BY <1>10
  <2>2. ASSUME NEW m \in Nat, m \in S
        PROVE  m + 1 \in S
    <3>1. CASE m + 1 <= n
      <4>1. m + 1 \in D /\ h[m + 1] \in Nat
        BY <2>2, <3>1
      <4>2. h[(m + 1) + 1] = h[m + 1] + Len(pieces[m + 1]) /\ Len(pieces[m + 1]) \in Nat
        BY <1>1, <1>11, <4>1
      <4>3. QED
        BY <4>1, <4>2
    <3>2. CASE ~(m + 1 <= n)
      BY <3>2
    <3>3. QED
      BY <3>1, <3>2
  <2> HIDE DEF S
  <2>3. \A m \in Nat : m \in S
    BY <2>1, <2>2, SetInduction
  <2>4. ASSUME NEW i \in 1..(n + 1)
        PROVE  h[i] \in Nat
    <3>1. i - 1 \in Nat /\ i - 1 <= n /\ (i - 1) + 1 = i
      BY <1>1
    <3>2. i - 1 \in S
      BY <2>3, <3>1
    <3>3. QED
      BY <3>1, <3>2 DEF S
  <2>5. QED
    BY <2>4
<1>13. D \subseteq 1..(n + 1) /\ n + 1 \in 1..(n + 1)
  BY <1>1
<1>14. QED
  BY <1>2, <1>10, <1>11, <1>12, <1>13

LEMMA Concatenation ==
  ASSUME NEW S, NEW s \in Seq(S), NEW t \in Seq(S)
  PROVE  s \o t \in Seq(S) /\ Len(s \o t) = Len(s) + Len(t)
OBVIOUS

LEMMA ConcatenationAt ==
  ASSUME NEW S, NEW s \in Seq(S), NEW t \in Seq(S), NEW j \in Nat, j >= 1
  PROVE  /\ j <= Len(s) => (s \o t)[j] = s[j]
         /\ j > Len(s) /\ j <= Len(s) + Len(t) => (s \o t)[j] = t[j - Len(s)]
OBVIOUS

(***************************************************************************)
(* Joined pieces, where each byte of each of them is.                      *)
(***************************************************************************)
Holds(pieces, m, bytes) ==
  /\ bytes \in Seq(Byte)
  /\ Len(bytes) = BytesBefore(pieces, m + 1)
  /\ \A i \in 1..m :
       /\ BytesBefore(pieces, i) + Len(pieces[i]) <= Len(bytes)
       /\ \A k \in 1..Len(pieces[i]) : bytes[BytesBefore(pieces, i) + k] = pieces[i][k]

LEMMA OneMorePiece ==
  ASSUME NEW pieces \in Seq(Seq(Byte)), NEW m \in Nat, m + 1 <= Len(pieces),
         NEW bytes, Holds(pieces, m, bytes)
  PROVE  Holds(pieces, m + 1, bytes \o pieces[m + 1])
<1> DEFINE piece == pieces[m + 1]
           B(i) == BytesBefore(pieces, i)
           all == bytes \o piece
<1>1. piece \in Seq(Byte) /\ m + 1 \in 1..Len(pieces) /\ Len(piece) \in Nat
  OBVIOUS
<1>2. bytes \in Seq(Byte) /\ Len(bytes) = B(m + 1) /\ Len(bytes) \in Nat
  BY DEF Holds
<1>3. B((m + 1) + 1) = B(m + 1) + Len(piece)
  BY <1>1, PiecesBefore
<1>4. all \in Seq(Byte) /\ Len(all) = Len(bytes) + Len(piece)
  <2> HIDE DEF piece
  <2>1. QED
    BY <1>1, <1>2, Concatenation
<1>5. ASSUME NEW i \in 1..(m + 1)
      PROVE  /\ B(i) + Len(pieces[i]) <= Len(all)
             /\ \A k \in 1..Len(pieces[i]) : all[B(i) + k] = pieces[i][k]
  <2>1. CASE i = m + 1
    <3>1. B(i) + Len(pieces[i]) <= Len(all)
      <4> HIDE DEF all, B
      <4>1. QED
        BY <1>1, <1>2, <1>4, <2>1
    <3>2. ASSUME NEW k \in 1..Len(piece)
          PROVE  all[B(m + 1) + k] = piece[k]
      <4> HIDE DEF piece, B
      <4>1. k \in Nat /\ k >= 1 /\ k <= Len(piece)
        BY <1>1
      <4> DEFINE j == Len(bytes) + k
      <4>2. j \in Nat /\ j >= 1 /\ j > Len(bytes) /\ j <= Len(bytes) + Len(piece) /\ j - Len(bytes) = k
        BY <1>1, <1>2, <4>1
      <4> HIDE DEF j
      <4>3. all[j] = piece[j - Len(bytes)]
        BY <1>1, <1>2, <4>2, ConcatenationAt
      <4>4. j = B(m + 1) + k
        BY <1>2 DEF j
      <4> HIDE DEF all
      <4>5. QED
        BY <4>2, <4>3, <4>4
    <3>3. QED
      BY <2>1, <3>1, <3>2
  <2>2. CASE i # m + 1
    <3>1. i \in 1..m /\ i \in 1..Len(pieces)
      BY <2>2
    <3>2. /\ B(i) + Len(pieces[i]) <= Len(bytes)
          /\ \A k \in 1..Len(pieces[i]) : bytes[B(i) + k] = pieces[i][k]
      BY <3>1 DEF Holds
    <3>3. B(i) \in Nat /\ Len(pieces[i]) \in Nat
      BY <3>1, PiecesBefore
    <3> DEFINE size == Len(pieces[i])
    <3> HIDE DEF piece, B, size
    <3>4. B(i) + size <= Len(all)
      <4> HIDE DEF all
      <4>1. QED
        BY <1>1, <1>2, <1>4, <3>2, <3>3 DEF size
    <3>5. ASSUME NEW k \in 1..size
          PROVE  all[B(i) + k] = pieces[i][k]
      <4> DEFINE j == B(i) + k
      <4>1. j \in Nat /\ j >= 1 /\ j <= Len(bytes)
        BY <1>2, <3>2, <3>3 DEF size
      <4> HIDE DEF j
      <4>2. all[j] = bytes[j]
        BY <1>1, <1>2, <4>1, ConcatenationAt
      <4> HIDE DEF all
      <4>3. QED
        BY <3>2, <4>2 DEF j, size
    <3>6. QED
      BY <3>4, <3>5 DEF size
  <2>3. QED
    BY <2>1, <2>2
<1>6. Len(all) = B((m + 1) + 1)
  <2> HIDE DEF all, piece, B
  <2>1. QED
    BY <1>2, <1>3, <1>4
<1>7. QED
  BY <1>4, <1>5, <1>6 DEF Holds

LEMMA Flattened ==
  ASSUME NEW pieces \in Seq(Seq(Byte)), Len(pieces) >= 1
  PROVE  Holds(pieces, Len(pieces), FlattenSeq(pieces))
<1> DEFINE n == Len(pieces)
           D == 1..n
           F(flatten) == [i \in D |-> IF i = 1 THEN pieces[i] ELSE flatten[i - 1] \o pieces[i]]
           h == CHOOSE flatten : flatten = F(flatten)
           T == Seq(Byte)
           step == [w \in Nat \X T |-> IF w[1] \in D THEN w[2] \o pieces[w[1]] ELSE w[2]]
<1>1. n \in Nat /\ n >= 1 /\ \A i \in D : pieces[i] \in T
  OBVIOUS
<1>2. FlattenSeq(pieces) = h[n]
  BY <1>1 DEF FlattenSeq
<1>3. step \in [Nat \X T -> T]
  <2> HIDE DEF D, n
  <2>1. ASSUME NEW w \in Nat \X T
        PROVE  (IF w[1] \in D THEN w[2] \o pieces[w[1]] ELSE w[2]) \in T
    <3>1. w[2] \in T /\ w[1] \in Nat
      OBVIOUS
    <3>2. CASE w[1] \in D
      <4>1. pieces[w[1]] \in T
        BY <1>1, <3>2
      <4>2. w[2] \o pieces[w[1]] \in T
        BY <3>1, <4>1, Concatenation
      <4>3. QED
        BY <3>2, <4>2
    <3>3. CASE w[1] \notin D
      BY <3>1, <3>3
    <3>4. QED
      BY <3>2, <3>3
  <2>2. QED
    BY <2>1
<1>4. <<>> \in T
  OBVIOUS
<1>5. PICK g : Iterates(g, T, <<>>, step, n)
  <2> HIDE DEF step, T
  <2>1. QED
    BY <1>1, <1>3, <1>4, IterationExists
<1>6. \A i \in D : g[i - 1] \in T /\ g[i] = g[i - 1] \o pieces[i]
  <2> SUFFICES ASSUME NEW i \in D
               PROVE  g[i - 1] \in T /\ g[i] = g[i - 1] \o pieces[i]
    OBVIOUS
  <2>1. g[i - 1] \in T /\ g[i] = step[<<i, g[i - 1]>>] /\ i \in Nat
    <3> HIDE DEF step, T
    <3>1. i - 1 \in 0..n /\ i \in 1..n /\ i \in Nat
      BY <1>1
    <3>2. QED
      BY <1>5, <3>1 DEF Iterates
  <2>2. QED
    BY <2>1
<1>7. g[0] = <<>>
  BY <1>5 DEF Iterates
<1> DEFINE b == [i \in D |-> g[i]]
<1>8. b = F(b)
  <2>1. ASSUME NEW i \in D
        PROVE  g[i] = IF i = 1 THEN pieces[i] ELSE b[i - 1] \o pieces[i]
    <3>1. CASE i = 1
      <4>1. g[i - 1] = <<>>
        BY <1>7, <3>1
      <4>2. g[i] = <<>> \o pieces[i] /\ pieces[i] \in Seq(Byte)
        BY <1>1, <1>6, <4>1
      <4>3. <<>> \o pieces[i] = pieces[i]
        BY <4>2
      <4>4. QED
        BY <3>1, <4>2, <4>3
    <3>2. CASE i # 1
      <4>1. i - 1 \in D
        BY <1>1, <3>2
      <4>2. b[i - 1] = g[i - 1]
        BY <4>1
      <4>3. QED
        BY <1>6, <3>2, <4>2
    <3>3. QED
      BY <3>1, <3>2
  <2>2. QED
    BY <2>1
<1> HIDE DEF b
<1>9. h = F(h)
  BY <1>8
<1> HIDE DEF h
<1>10. \A i \in D : h[i] = IF i = 1 THEN pieces[i] ELSE h[i - 1] \o pieces[i]
  BY <1>9
<1>11. Holds(pieces, 1, pieces[1])
  <2>1. Holds(pieces, 0, <<>>)
    <3>1. BytesBefore(pieces, 0 + 1) = 0
      BY PiecesBefore
    <3>2. QED
      BY <3>1 DEF Holds
  <2>2. Holds(pieces, 0 + 1, <<>> \o pieces[0 + 1])
    <3>1. 0 \in Nat /\ 0 + 1 <= Len(pieces)
      BY <1>1
    <3>2. QED
      BY <2>1, <3>1, OneMorePiece
  <2>3. 0 + 1 = 1 /\ <<>> \o pieces[1] = pieces[1]
    <3>1. pieces[1] \in Seq(Byte)
      BY <1>1
    <3>2. QED
      BY <3>1
  <2>4. QED
    BY <2>2, <2>3
<1> DEFINE S == {m \in Nat : m + 1 <= n => Holds(pieces, m + 1, h[m + 1])}
<1>12. 0 \in S
  <2>1. 1 \in D
    BY <1>1
  <2>2. h[1] = pieces[1]
    BY <1>10, <2>1
  <2>3. Holds(pieces, 0 + 1, h[0 + 1])
    BY <1>11, <2>2
  <2>4. QED
    BY <2>3
<1>13. ASSUME NEW m \in Nat, m \in S
       PROVE  m + 1 \in S
  <2> SUFFICES ASSUME (m + 1) + 1 <= n
               PROVE  Holds(pieces, (m + 1) + 1, h[(m + 1) + 1])
    OBVIOUS
  <2> DEFINE k == m + 1
  <2>1. k \in Nat /\ k + 1 \in D /\ k + 1 # 1 /\ (k + 1) - 1 = k /\ k <= n
    BY <1>1
  <2>2. Holds(pieces, k, h[k])
    BY <1>13, <2>1
  <2> HIDE DEF k
  <2>3. h[k + 1] = h[k] \o pieces[k + 1]
    BY <1>10, <2>1
  <2>4. Holds(pieces, k + 1, h[k] \o pieces[k + 1])
    BY <2>1, <2>2, OneMorePiece
  <2>5. QED
    BY <2>3, <2>4 DEF k
<1> HIDE DEF S
<1>14. n - 1 \in S /\ (n - 1) + 1 = n
  <2>1. \A m \in Nat : m \in S
    BY <1>12, <1>13, SetInduction
  <2>2. n - 1 \in Nat /\ (n - 1) + 1 = n
    BY <1>1
  <2>3. QED
    BY <2>1, <2>2
<1>15. Holds(pieces, n, h[n])
  BY <1>14 DEF S
<1>16. QED
  BY <1>2, <1>15

(***************************************************************************)
(* The checksum of a completed slice.                                      *)
(***************************************************************************)
IsSum(bytes, f) ==
  /\ f \in [0..Len(bytes) -> Byte]
  /\ f[0] = 0
  /\ \A k \in 1..Len(bytes) : f[k] = (f[k - 1] + bytes[k]) % 256

LEMMA Added ==
  ASSUME NEW a \in Byte, NEW b \in Byte
  PROVE  (a + b) % 256 \in Byte
BY DEF Byte

LEMMA ChecksumIsSum ==
  ASSUME NEW bytes \in Seq(Byte)
  PROVE  \E f : IsSum(bytes, f) /\ Checksum(bytes) = f[Len(bytes)]
<1> DEFINE n == Len(bytes)
           F(sum) == [k \in 0..n |-> IF k = 0 THEN 0 ELSE (sum[k - 1] + bytes[k]) % 256]
           h == CHOOSE sum : sum = F(sum)
           D == 1..n
           step == [w \in Nat \X Byte |-> IF w[1] \in D THEN (w[2] + bytes[w[1]]) % 256 ELSE 0]
<1>1. n \in Nat /\ \A k \in D : bytes[k] \in Byte
  OBVIOUS
<1>2. Checksum(bytes) = h[n]
  BY DEF Checksum
<1>3. step \in [Nat \X Byte -> Byte]
  <2> HIDE DEF D, n
  <2>1. 0 \in Byte
    BY DEF Byte
  <2>2. ASSUME NEW w \in Nat \X Byte
        PROVE  (IF w[1] \in D THEN (w[2] + bytes[w[1]]) % 256 ELSE 0) \in Byte
    <3>1. w[2] \in Byte
      OBVIOUS
    <3>2. w[1] \in D => (w[2] + bytes[w[1]]) % 256 \in Byte
      BY <1>1, <3>1, Added
    <3>3. QED
      BY <2>1, <3>2
  <2>3. QED
    BY <2>2
<1>4. PICK g : Iterates(g, Byte, 0, step, n)
  <2> HIDE DEF step
  <2>1. 0 \in Byte
    BY DEF Byte
  <2>2. QED
    BY <1>1, <1>3, <2>1, IterationExists
<1>5. \A k \in D : g[k] = (g[k - 1] + bytes[k]) % 256
  <2> SUFFICES ASSUME NEW k \in D
               PROVE  g[k] = (g[k - 1] + bytes[k]) % 256
    OBVIOUS
  <2>1. g[k - 1] \in Byte /\ g[k] = step[<<k, g[k - 1]>>] /\ k \in Nat
    <3> HIDE DEF step
    <3>1. k - 1 \in 0..n /\ k \in 1..n /\ k \in Nat
      BY <1>1
    <3>2. QED
      BY <1>4, <3>1 DEF Iterates
  <2>2. QED
    BY <2>1
<1>6. g \in [0..n -> Byte] /\ g[0] = 0
  BY <1>4 DEF Iterates
<1>7. g = F(g)
  <2>1. ASSUME NEW k \in 0..n
        PROVE  g[k] = IF k = 0 THEN 0 ELSE (g[k - 1] + bytes[k]) % 256
    <3>1. k # 0 => k \in D
      BY <1>1
    <3>2. QED
      BY <1>5, <1>6, <3>1
  <2>2. QED
    BY <1>6, <2>1
<1>8. h = F(h)
  BY <1>7
<1> HIDE DEF h
<1> DEFINE S == {m \in Nat : m <= n => h[m] = g[m]}
<1>9. \A k \in 0..n : h[k] = IF k = 0 THEN 0 ELSE (h[k - 1] + bytes[k]) % 256
  BY <1>8
<1>10. 0 \in S
  <2>1. 0 \in 0..n
    BY <1>1
  <2>2. QED
    BY <1>6, <1>9, <2>1
<1>11. ASSUME NEW m \in Nat, m \in S
       PROVE  m + 1 \in S
  <2> SUFFICES ASSUME m + 1 <= n
               PROVE  h[m + 1] = g[m + 1]
    OBVIOUS
  <2>1. m + 1 \in D /\ m + 1 \in 0..n /\ m + 1 # 0 /\ (m + 1) - 1 = m /\ h[m] = g[m]
    BY <1>1, <1>11
  <2>2. QED
    BY <1>5, <1>9, <2>1
<1> HIDE DEF S
<1>12. n \in S
  BY <1>1, <1>10, <1>11, SetInduction
<1>13. h[n] = g[n]
  BY <1>12 DEF S
<1>14. IsSum(bytes, g)
  BY <1>5, <1>6 DEF IsSum
<1>15. QED
  BY <1>2, <1>13, <1>14

LEMMA ChecksumAppend ==
  ASSUME NEW bytes \in Seq(Byte), NEW b \in Byte
  PROVE  /\ Append(bytes, b) \in Seq(Byte)
         /\ Checksum(bytes) \in Byte
         /\ Checksum(Append(bytes, b)) = (Checksum(bytes) + b) % 256
<1> DEFINE more == Append(bytes, b)
           n == Len(bytes)
<1>1. /\ more \in Seq(Byte) /\ Len(more) = n + 1 /\ n \in Nat
      /\ more[n + 1] = b /\ \A k \in 1..n : more[k] = bytes[k]
  OBVIOUS
<1>2. PICK f : IsSum(bytes, f) /\ Checksum(bytes) = f[n]
  BY ChecksumIsSum
<1> HIDE DEF more
<1>3. PICK g : IsSum(more, g) /\ Checksum(more) = g[n + 1]
  BY <1>1, ChecksumIsSum
<1> DEFINE S == {m \in Nat : m <= n => f[m] = g[m]}
<1>4. 0 \in S
  BY <1>2, <1>3 DEF IsSum
<1>5. ASSUME NEW m \in Nat, m \in S
      PROVE  m + 1 \in S
  <2> SUFFICES ASSUME m + 1 <= n
               PROVE  f[m + 1] = g[m + 1]
    OBVIOUS
  <2> DEFINE k == m + 1
  <2>1. k \in 1..n /\ k \in 1..(n + 1) /\ k - 1 = m /\ f[m] = g[m]
    BY <1>1, <1>5
  <2> HIDE DEF k
  <2>2. f[k] = (f[k - 1] + bytes[k]) % 256
    BY <1>2, <2>1 DEF IsSum
  <2>3. g[k] = (g[k - 1] + more[k]) % 256
    BY <1>1, <1>3, <2>1 DEF IsSum
  <2>4. QED
    BY <1>1, <2>1, <2>2, <2>3 DEF k
<1> HIDE DEF S
<1>6. n \in S
  BY <1>1, <1>4, <1>5, SetInduction
<1>7. f[n] = g[n]
  BY <1>1, <1>6 DEF S
<1>8. g[n + 1] = (g[n] + b) % 256
  <2>1. n + 1 \in 1..(n + 1) /\ (n + 1) - 1 = n
    BY <1>1
  <2>2. QED
    BY <1>1, <1>3, <2>1 DEF IsSum
<1>9. f[n] \in Byte
  <2>1. n \in 0..n
    BY <1>1
  <2>2. QED
    BY <1>2, <2>1 DEF IsSum
<1>10. QED
  BY <1>1, <1>2, <1>3, <1>7, <1>8, <1>9 DEF more

LEMMA FourMore ==
  ASSUME NEW bytes \in Seq(Byte), NEW b \in Byte
  PROVE  bytes \o <<0, 0, 0, b>> = Append(Append(Append(Append(bytes, 0), 0), 0), b)
BY DEF Byte

LEMMA Complement ==
  ASSUME NEW c \in Byte
  PROVE  /\ (256 - c) % 256 \in Byte /\ (c + 0) % 256 = c
         /\ (c + ((256 - c) % 256)) % 256 = 0
BY DEF Byte

\* A slice that is completed with its parity has a checksum of zero.
LEMMA ParityCompletes ==
  ASSUME NEW bytes \in Seq(Byte)
  PROVE  /\ Parity(bytes) \in Seq(Byte) /\ Len(Parity(bytes)) = 4
         /\ Checksum(bytes \o Parity(bytes)) = 0
<1> DEFINE c == Checksum(bytes)
           b == (256 - c) % 256
           one == Append(bytes, 0)
           two == Append(one, 0)
           three == Append(two, 0)
<1>1. 0 \in Byte
  BY DEF Byte
<1>2. c \in Byte
  BY <1>1, ChecksumAppend
<1> HIDE DEF c
<1>3. b \in Byte /\ (c + 0) % 256 = c /\ (c + b) % 256 = 0
  BY <1>2, Complement
<1>4. Parity(bytes) = <<0, 0, 0, b>>
  BY DEF Parity, c
<1> HIDE DEF b
<1>5. <<0, 0, 0, b>> \in Seq(Byte) /\ Len(<<0, 0, 0, b>>) = 4
  BY <1>1, <1>3
<1>6. bytes \o <<0, 0, 0, b>> = Append(three, b)
  BY <1>3, FourMore
<1>7. one \in Seq(Byte) /\ Checksum(one) = c
  BY <1>1, <1>3, ChecksumAppend DEF c
<1> HIDE DEF one
<1>8. two \in Seq(Byte) /\ Checksum(two) = c
  BY <1>1, <1>3, <1>7, ChecksumAppend
<1> HIDE DEF two
<1>9. three \in Seq(Byte) /\ Checksum(three) = c
  BY <1>1, <1>3, <1>8, ChecksumAppend
<1> HIDE DEF three
<1>10. Checksum(Append(three, b)) = 0
  BY <1>3, <1>9, ChecksumAppend
<1>11. QED
  BY <1>4, <1>5, <1>6, <1>10

(***************************************************************************)
(* Headers, sizes and pieces.                                              *)
(***************************************************************************)
LEMMA PowersSplit ==
  ASSUME NEW x \in 0..3, NEW y \in 0..3, NEW w \in 0..3, NEW h \in 0..3
  PROVE  LET byte == x + (4 * y) + (16 * w) + (64 * h)
         IN /\ byte \in Byte
            /\ byte % 4 = x /\ (byte \div 4) % 4 = y
            /\ (byte \div 16) % 4 = w /\ (byte \div 64) % 4 = h
BY DEF Byte

\* What the parser makes of a header is the rectangle it was written for.
LEMMA HeaderReadBack ==
  ASSUME NEW r \in Rects
  PROVE  HeaderByte(r) \in Byte /\ HeaderOf(HeaderByte(r)) = r
<1> DEFINE x == r.x
           y == r.y
           w == r.width - 1
           h == r.height - 1
           byte == x + (4 * y) + (16 * w) + (64 * h)
<1>1. /\ x \in 0..3 /\ y \in 0..3 /\ w \in 0..3 /\ h \in 0..3
      /\ 1 + w = r.width /\ 1 + h = r.height
      /\ r = [x |-> x, y |-> y, width |-> r.width, height |-> r.height]
  BY DEF Rects
<1>2. HeaderByte(r) = byte
  BY DEF HeaderByte
<1> HIDE DEF x, y, w, h
<1>3. /\ byte \in Byte
      /\ byte % 4 = x /\ (byte \div 4) % 4 = y
      /\ (byte \div 16) % 4 = w /\ (byte \div 64) % 4 = h
  BY <1>1, PowersSplit
<1> HIDE DEF byte
<1>4. HeaderOf(byte) = [x |-> x, y |-> y, width |-> 1 + w, height |-> 1 + h]
  BY <1>3 DEF HeaderOf
<1>5. QED
  BY <1>1, <1>2, <1>3, <1>4

LEMMA HeaderIsRect ==
  ASSUME NEW byte \in Byte
  PROVE  HeaderOf(byte) \in Rects
<1>1. /\ byte % 4 \in 0..3 /\ (byte \div 4) % 4 \in 0..3
      /\ 1 + ((byte \div 16) % 4) \in 1..4 /\ 1 + ((byte \div 64) % 4) \in 1..4
  BY DEF Byte
<1>2. QED
  BY <1>1 DEF HeaderOf, Rects

\* The 24 bits of a size are the size.
LEMMA SizeReadBack ==
  ASSUME NEW n \in Nat, n < 16777216
  PROVE  /\ Size24(n) \in Seq(Byte) /\ Len(Size24(n)) = 3
         /\ 65536 * Size24(n)[1] + 256 * Size24(n)[2] + Size24(n)[3] = n
<1> DEFINE a == n \div 65536
           b == (n \div 256) % 256
           c == n % 256
<1>1. a \in Byte /\ b \in Byte /\ c \in Byte
  BY DEF Byte
<1>2. 65536 * a + 256 * b + c = n
  OBVIOUS
<1>3. Size24(n) = <<a, b, c>>
  BY DEF Size24
<1> HIDE DEF a, b, c
<1>4. QED
  BY <1>1, <1>2, <1>3

LEMMA MembersOfSeq ==
  ASSUME NEW S, NEW q \in Seq(S)
  PROVE  Len(q) \in Nat /\ DOMAIN q = 1..Len(q) /\ \A i \in 1..Len(q) : q[i] \in S
OBVIOUS

LEMMA SourceTypes ==
  ASSUME NEW s \in Sources
  PROVE  /\ s.stream \in Streams /\ s.slices \in Seq([rect : Rects, data : Seq(Byte)])
         /\ s.ec \in BOOLEAN /\ s.verify \in BOOLEAN /\ s.legacy \in BOOLEAN
         /\ s.intra \in BOOLEAN /\ s.keyframe \in BOOLEAN
         /\ s.legacy => ~s.ec
         /\ s.intra => s.keyframe
         /\ Len(s.slices) \in Nat /\ DOMAIN s.slices = 1..Len(s.slices)
         /\ \A i \in 1..Len(s.slices) :
              s.slices[i].rect \in Rects /\ s.slices[i].data \in Seq(Byte)
<1>1. /\ s.stream \in Streams /\ s.slices \in Seq([rect : Rects, data : Seq(Byte)])
      /\ s.ec \in BOOLEAN /\ s.verify \in BOOLEAN /\ s.legacy \in BOOLEAN
      /\ s.intra \in BOOLEAN /\ s.keyframe \in BOOLEAN
      /\ s.legacy => ~s.ec
      /\ s.intra => s.keyframe
  BY SourcesAssumption
<1>2. /\ Len(s.slices) \in Nat /\ DOMAIN s.slices = 1..Len(s.slices)
      /\ \A i \in 1..Len(s.slices) : s.slices[i] \in [rect : Rects, data : Seq(Byte)]
  <2> DEFINE S == [rect : Rects, data : Seq(Byte)]
             q == s.slices
  <2>1. q \in Seq(S)
    BY <1>1
  <2> HIDE DEF S, q
  <2>2. Len(q) \in Nat /\ DOMAIN q = 1..Len(q) /\ \A i \in 1..Len(q) : q[i] \in S
    BY <2>1, MembersOfSeq
  <2>3. QED
    BY <2>2 DEF S, q
<1>3. QED
  BY <1>1, <1>2

LEMMA FlagTypes ==
  ASSUME NEW s \in Sources
  PROVE  /\ Flag(s) \in Seq(Byte) /\ Len(Flag(s)) = 1 /\ Flag(s)[1] \in Byte
         /\ IsKeyframe(Flag(s)[1]) = s.keyframe
<1>1. 1 \in Byte /\ 0 \in Byte
  BY DEF Byte
<1>2. s.keyframe \in BOOLEAN
  BY SourceTypes
<1>3. CASE s.keyframe
  <2>1. Flag(s) = <<1>>
    BY <1>3 DEF Flag
  <2>2. 1 % 2 = 1
    OBVIOUS
  <2>3. <<1>> \in Seq(Byte) /\ Len(<<1>>) = 1 /\ <<1>>[1] = 1
    BY <1>1
  <2>4. IsKeyframe(1) = TRUE
    BY <2>2 DEF IsKeyframe
  <2>5. QED
    BY <1>1, <1>2, <1>3, <2>1, <2>3, <2>4
<1>4. CASE ~s.keyframe
  <2>1. Flag(s) = <<0>>
    BY <1>4 DEF Flag
  <2>2. 0 % 2 = 0
    OBVIOUS
  <2>3. <<0>> \in Seq(Byte) /\ Len(<<0>>) = 1 /\ <<0>>[1] = 0
    BY <1>1
  <2>4. IsKeyframe(0) = FALSE
    BY <2>2 DEF IsKeyframe
  <2>5. QED
    BY <1>1, <1>2, <1>4, <2>1, <2>3, <2>4
<1>5. QED
  BY <1>3, <1>4

\* What the parser finds at the front of a slice.
LEMMA ContentTypes ==
  ASSUME NEW s \in Sources, NEW i \in 1..Len(s.slices)
  PROVE  LET first == IF i = 1 THEN 1 ELSE 0
         IN /\ Content(s, i) \in Seq(Byte)
            /\ Len(Content(s, i)) \in Nat /\ Len(Content(s, i)) < 16777216
            /\ first + 1 <= Len(Content(s, i))
            /\ Content(s, i)[first + 1] = HeaderByte(s.slices[i].rect)
            /\ i = 1 => Content(s, i)[1] = Flag(s)[1]
<1> DEFINE first == IF i = 1 THEN 1 ELSE 0
           flag == IF i = 1 THEN Flag(s) ELSE <<>>
           byte == HeaderByte(s.slices[i].rect)
           data == s.slices[i].data
<1>1. flag \in Seq(Byte) /\ Len(flag) = first /\ (i = 1 => flag[1] = Flag(s)[1])
  <2>1. CASE i = 1
    <3>1. flag = Flag(s) /\ first = 1
      BY <2>1
    <3>2. Flag(s) \in Seq(Byte) /\ Len(Flag(s)) = 1
      BY FlagTypes
    <3>3. QED
      BY <3>1, <3>2
  <2>2. CASE i # 1
    BY <2>2
  <2>3. QED
    BY <2>1, <2>2
<1>2. byte \in Byte /\ data \in Seq(Byte)
  BY SourceTypes, HeaderReadBack
<1>3. Content(s, i) = flag \o <<byte>> \o data
  BY DEF Content
<1>4. Len(Content(s, i)) < 16777216
  BY SourceTypes, SizeAssumption
<1>5. first \in Nat /\ (i = 1 => first = 1)
  OBVIOUS
<1> HIDE DEF first, flag, byte, data
<1> DEFINE front == flag \o <<byte>>
<1>6. <<byte>> \in Seq(Byte) /\ Len(<<byte>>) = 1
  BY <1>2
<1>7. front \in Seq(Byte) /\ Len(front) = first + 1 /\ front[first + 1] = byte
  BY ONLY <1>1, <1>2, <1>5
<1>8. i = 1 => front[1] = flag[1]
  BY ONLY <1>1, <1>2, <1>5
<1> HIDE DEF front
<1> DEFINE all == front \o data
<1>9. all \in Seq(Byte) /\ Len(all) = Len(front) + Len(data) /\ Len(data) \in Nat
  BY <1>2, <1>7, Concatenation
<1>10. all[first + 1] = byte
  BY <1>2, <1>5, <1>7, ConcatenationAt
<1>11. i = 1 => all[1] = front[1]
  BY <1>2, <1>5, <1>7, ConcatenationAt
<1>12. Content(s, i) = all
  BY <1>3 DEF front
<1> HIDE DEF all
<1>13. Len(all) \in Nat /\ first + 1 <= Len(all)
  BY <1>5, <1>7, <1>9
<1>14. QED
  BY <1>1, <1>4, <1>8, <1>9, <1>10, <1>11, <1>12, <1>13 DEF first, byte

\* What a scan relies on at the end of a slice.
Completed(bytes, ec, piece) ==
  /\ piece \in Seq(Byte)
  /\ Len(piece) = Len(bytes) + FooterSize(ec)
  /\ \A k \in 1..Len(bytes) : piece[k] = bytes[k]
  /\ 65536 * piece[Len(bytes) + 1] + 256 * piece[Len(bytes) + 2] + piece[Len(bytes) + 3]
       = Len(bytes)
  /\ ec => piece[Len(bytes) + 4] = 0 /\ Checksum(piece) = 0

LEMMA JoinedAt ==
  ASSUME NEW s \in Seq(Byte), NEW t \in Seq(Byte), NEW n, n = Len(s)
  PROVE  /\ s \o t \in Seq(Byte) /\ Len(s \o t) = n + Len(t)
         /\ \A k \in 1..n : (s \o t)[k] = s[k]
         /\ \A k \in 1..Len(t) : (s \o t)[n + k] = t[k]
<1> DEFINE all == s \o t
<1>1. all \in Seq(Byte) /\ Len(all) = n + Len(t) /\ n \in Nat /\ Len(t) \in Nat
  BY Concatenation
<1>2. ASSUME NEW k \in 1..n
      PROVE  all[k] = s[k]
  <2>1. k \in Nat /\ k >= 1 /\ k <= Len(s)
    BY <1>1
  <2> HIDE DEF all
  <2>2. QED
    BY <2>1, ConcatenationAt DEF all
<1>3. ASSUME NEW k \in 1..Len(t)
      PROVE  all[n + k] = t[k]
  <2> DEFINE j == n + k
  <2>1. j \in Nat /\ j >= 1 /\ j > Len(s) /\ j <= Len(s) + Len(t) /\ j - Len(s) = k
    BY <1>1
  <2> HIDE DEF j
  <2>2. all[j] = t[j - Len(s)]
    BY <2>1, ConcatenationAt
  <2>3. QED
    BY <2>1, <2>2 DEF j
<1>4. QED
  BY <1>1, <1>2, <1>3

\* A slice with its footer is what a scan relies on.
LEMMA FooterAppended ==
  ASSUME NEW bytes \in Seq(Byte), Len(bytes) < 16777216, NEW ec \in BOOLEAN
  PROVE  Completed(bytes, ec, WithFooter(bytes, ec))
<1> DEFINE n == Len(bytes)
           size == Size24(n)
           sized == bytes \o size
<1>1. n \in Nat /\ n < 16777216
  OBVIOUS
<1> HIDE DEF n
<1>2. /\ size \in Seq(Byte) /\ Len(size) = 3
      /\ 65536 * size[1] + 256 * size[2] + size[3] = n
  BY <1>1, SizeReadBack
<1> HIDE DEF size
<1>3. /\ sized \in Seq(Byte) /\ Len(sized) = n + 3
      /\ \A k \in 1..n : sized[k] = bytes[k]
      /\ \A k \in 1..3 : sized[n + k] = size[k]
  <2>1. /\ sized \in Seq(Byte) /\ Len(sized) = n + Len(size)
        /\ \A k \in 1..n : sized[k] = bytes[k]
        /\ \A k \in 1..Len(size) : sized[n + k] = size[k]
    <3>1. n = Len(bytes)
      BY DEF n
    <3>2. bytes \in Seq(Byte) /\ size \in Seq(Byte)
      BY <1>2
    <3>3. QED
      BY ONLY SMT, <3>1, <3>2, JoinedAt
  <2> HIDE DEF sized
  <2>2. QED
    BY <1>2, <2>1
<1> HIDE DEF sized
<1>4. sized[n + 1] = size[1] /\ sized[n + 2] = size[2] /\ sized[n + 3] = size[3]
  BY <1>3
<1>5. WithFooter(bytes, ec) = IF ec THEN sized \o <<0>> \o Parity(sized \o <<0>>) ELSE sized
  BY DEF WithFooter, sized, size, n
<1>6. CASE ~ec
  <2>1. FooterSize(ec) = 3 /\ WithFooter(bytes, ec) = sized
    BY <1>5, <1>6 DEF FooterSize
  <2>2. 65536 * sized[n + 1] + 256 * sized[n + 2] + sized[n + 3] = n
    BY <1>2, <1>4
  <2>3. Len(sized) = n + FooterSize(ec)
    BY <1>3, <2>1
  <2>4. Completed(bytes, ec, sized)
    BY ONLY SMT, <1>3, <1>6, <2>2, <2>3 DEF Completed, n
  <2>5. QED
    BY <2>1, <2>4
<1>7. CASE ec
  <2> DEFINE front == sized \o <<0>>
             parity == Parity(front)
             all == front \o parity
  <2>1. <<0>> \in Seq(Byte) /\ Len(<<0>>) = 1 /\ <<0>>[1] = 0 /\ 1 \in 1..1
    BY DEF Byte
  <2>2. n + 3 = Len(sized)
    BY <1>3
  <2>3. /\ front \in Seq(Byte) /\ Len(front) = (n + 3) + 1
        /\ \A k \in 1..(n + 3) : front[k] = sized[k]
        /\ front[(n + 3) + 1] = 0
    <3>1. /\ front \in Seq(Byte) /\ Len(front) = (n + 3) + Len(<<0>>)
          /\ \A k \in 1..(n + 3) : front[k] = sized[k]
          /\ \A k \in 1..Len(<<0>>) : front[(n + 3) + k] = <<0>>[k]
      BY <1>3, <2>1, <2>2, JoinedAt
    <3> HIDE DEF front
    <3>2. QED
      BY <2>1, <3>1
  <2> HIDE DEF front
  <2>4. parity \in Seq(Byte) /\ Len(parity) = 4 /\ Checksum(all) = 0
    BY <2>3, ParityCompletes
  <2> HIDE DEF parity
  <2>5. n + 4 = Len(front)
    BY <1>1, <2>3
  <2>6. /\ all \in Seq(Byte) /\ Len(all) = (n + 4) + 4
        /\ \A k \in 1..(n + 4) : all[k] = front[k]
    <3> DEFINE m == n + 4
    <3>1. front \in Seq(Byte) /\ parity \in Seq(Byte) /\ m = Len(front)
      BY <2>3, <2>4, <2>5
    <3> HIDE DEF m
    <3>3. /\ all \in Seq(Byte) /\ Len(all) = m + Len(parity)
          /\ \A k \in 1..m : all[k] = front[k]
      BY ONLY SMT, <3>1, JoinedAt
    <3> HIDE DEF all
    <3>2. QED
      BY <2>4, <3>3 DEF m
  <2> HIDE DEF all
  <2>7. \A k \in 1..(n + 3) : all[k] = sized[k]
    <3>1. \A k \in 1..(n + 3) : k \in 1..(n + 4)
      BY <1>1
    <3>2. QED
      BY <2>3, <2>6, <3>1
  <2>8. \A k \in 1..n : all[k] = bytes[k]
    <3>1. \A k \in 1..n : k \in 1..(n + 3)
      BY <1>1
    <3>2. QED
      BY <1>3, <2>7, <3>1
  <2>9. all[n + 1] = size[1] /\ all[n + 2] = size[2] /\ all[n + 3] = size[3]
    <3>1. n + 1 \in 1..(n + 3) /\ n + 2 \in 1..(n + 3) /\ n + 3 \in 1..(n + 3)
      BY <1>1
    <3>2. QED
      BY <1>4, <2>7, <3>1
  <2>10. all[n + 4] = 0
    <3>1. n + 4 \in 1..(n + 4) /\ (n + 3) + 1 = n + 4
      BY <1>1
    <3>2. QED
      BY <2>3, <2>6, <3>1
  <2>11. WithFooter(bytes, ec) = all
    BY <1>5, <1>7 DEF all, front, parity
  <2>12. FooterSize(ec) = 8 /\ Len(all) = n + 8
    <3>1. Len(all) = n + 8
      BY <1>1, <2>6
    <3>2. QED
      BY <1>7, <3>1 DEF FooterSize
  <2>13. 65536 * all[n + 1] + 256 * all[n + 2] + all[n + 3] = n
    BY <1>2, <2>9
  <2>14. Len(all) = n + FooterSize(ec)
    BY <2>12
  <2>15. Completed(bytes, ec, all)
    BY ONLY SMT, <2>4, <2>6, <2>8, <2>10, <2>13, <2>14 DEF Completed, n
  <2>16. QED
    BY <2>11, <2>15
<1>8. QED
  BY <1>6, <1>7

LEMMA PiecesTypes ==
  ASSUME NEW s \in Sources
  PROVE  /\ Pieces(s) \in Seq(Seq(Byte)) /\ Len(Pieces(s)) = Len(s.slices)
         /\ s.legacy =>
              \A i \in 1..Len(s.slices) : Pieces(s)[i] = <<HeaderByte(s.slices[i].rect)>>
         /\ ~s.legacy =>
              \A i \in 1..Len(s.slices) : Completed(Content(s, i), s.ec, Pieces(s)[i])
<1> DEFINE n == Len(s.slices)
           D == 1..n
           P == Pieces(s)
<1>1. n \in Nat /\ DOMAIN s.slices = D
  BY SourceTypes
<1>2. /\ P = [i \in D |-> P[i]]
      /\ \A i \in D : P[i] = IF s.legacy THEN <<HeaderByte(s.slices[i].rect)>>
                             ELSE WithFooter(Content(s, i), s.ec)
  BY <1>1 DEF Pieces
<1> HIDE DEF P
<1>3. ASSUME NEW i \in D
      PROVE  /\ P[i] \in Seq(Byte)
             /\ ~s.legacy => Completed(Content(s, i), s.ec, P[i])
  <2>1. CASE s.legacy
    <3>1. HeaderByte(s.slices[i].rect) \in Byte
      BY SourceTypes, HeaderReadBack
    <3>2. P[i] = <<HeaderByte(s.slices[i].rect)>>
      BY <1>2, <2>1
    <3>3. QED
      BY <2>1, <3>1, <3>2
  <2>2. CASE ~s.legacy
    <3>1. Content(s, i) \in Seq(Byte) /\ Len(Content(s, i)) < 16777216
      BY ContentTypes
    <3>2. P[i] = WithFooter(Content(s, i), s.ec)
      BY <1>2, <2>2
    <3>3. Completed(Content(s, i), s.ec, P[i])
      BY <3>1, <3>2, SourceTypes, FooterAppended
    <3>4. QED
      BY <3>3 DEF Completed
  <2>3. QED
    BY <2>1, <2>2
<1>4. P \in Seq(Seq(Byte)) /\ Len(P) = n
  <2> DEFINE T == Seq(Byte)
  <2> HIDE DEF T, D
  <2>1. P \in [D -> T]
    BY <1>2, <1>3 DEF T
  <2>2. QED
    BY <1>1, <2>1 DEF D, T
<1>5. QED
  BY <1>2, <1>3, <1>4 DEF P

LEMMA RectanglesTypes ==
  ASSUME NEW s \in Sources
  PROVE  /\ RectanglesOf(s) \in Seq(Rects) /\ Len(RectanglesOf(s)) = Len(s.slices)
         /\ \A i \in 1..Len(s.slices) : RectanglesOf(s)[i] = s.slices[i].rect
<1> DEFINE n == Len(s.slices)
           R == RectanglesOf(s)
<1>1. n \in Nat /\ DOMAIN s.slices = 1..n /\ \A i \in 1..n : s.slices[i].rect \in Rects
  BY SourceTypes
<1>2. R = [i \in 1..n |-> s.slices[i].rect]
  BY <1>1 DEF RectanglesOf
<1> HIDE DEF n, R
<1>3. R \in [1..n -> Rects] /\ \A i \in 1..n : R[i] = s.slices[i].rect
  BY <1>1, <1>2
<1>4. R \in Seq(Rects) /\ Len(R) = n
  BY <1>1, <1>3
<1>5. QED
  BY <1>3, <1>4 DEF n, R

\* A frame has a slice, and no more slices than the grid has cells.
LEMMA SomeSlice ==
  ASSUME NEW s \in Sources
  PROVE  Len(s.slices) >= 1 /\ Len(s.slices) <= s.stream.h * s.stream.v
<1> DEFINE R == RectanglesOf(s)
           grid == Grid(s.stream)
<1>1. R \in Seq(Rects) /\ Len(R) = Len(s.slices) /\ Len(R) \in Nat
  BY RectanglesTypes
<1>2. s.stream \in Streams
  BY SourceTypes
<1>3. Coverage!Verdict(s.stream, R) = "complete"
  BY CoverAssumption
<1>4. Fitting(s.stream, R) /\ Apart(R) /\ AllCells(R) = grid
  BY <1>3, VerdictMeans
<1> HIDE DEF R
<1>5. Len(R) <= s.stream.h * s.stream.v
  BY <1>1, <1>2, <1>4, Pigeonhole
<1>6. Len(R) # 0
  <2> SUFFICES ASSUME Len(R) = 0
               PROVE  FALSE
    OBVIOUS
  <2>1. R = <<>>
    BY <1>1
  <2>2. AllCells(R) = {}
    BY <2>1 DEF AllCells
  <2>3. Cardinality(grid) >= 1
    BY <1>2, GridCounted
  <2>4. Cardinality(grid) = 0
    BY <1>4, <2>2, FS_EmptySet
  <2>5. QED
    BY <2>3, <2>4
<1>7. QED
  BY <1>1, <1>5, <1>6

(***************************************************************************)
(* The frame that is sent, and what arrives.                               *)
(***************************************************************************)
LEMMA FlattenedBytes ==
  ASSUME NEW pieces \in Seq(Seq(Byte))
  PROVE  FlattenSeq(pieces) \in Seq(Byte)
<1>1. Len(pieces) \in Nat
  OBVIOUS
<1>2. CASE Len(pieces) = 0
  <2>1. pieces = <<>>
    BY <1>2
  <2>2. FlattenSeq(pieces) = <<>>
    BY <2>1 DEF FlattenSeq
  <2>3. QED
    BY <2>2
<1>3. CASE Len(pieces) # 0
  <2>1. Len(pieces) >= 1
    BY <1>1, <1>3
  <2>2. QED
    BY <2>1, Flattened DEF Holds
<1>4. QED
  BY <1>2, <1>3

LEMMA NothingAround ==
  ASSUME NEW s \in Seq(Byte)
  PROVE  <<>> \o s \o <<>> = s
OBVIOUS

\* The parts of a frame; a legacy frame has the first and the last.
FlagPart(s) == IF s.legacy THEN Flag(s) ELSE <<>>
DataPart(s) ==
  IF s.legacy THEN FlattenSeq([i \in DOMAIN s.slices |-> s.slices[i].data]) ELSE <<>>

LEMMA PartsTypes ==
  ASSUME NEW s \in Sources
  PROVE  /\ FlagPart(s) \in Seq(Byte) /\ DataPart(s) \in Seq(Byte)
         /\ FlattenSeq(Pieces(s)) \in Seq(Byte)
         /\ Assembled(s) = FlagPart(s) \o FlattenSeq(Pieces(s)) \o DataPart(s)
<1>1. FlagPart(s) \in Seq(Byte)
  BY FlagTypes DEF FlagPart
<1>2. FlattenSeq(Pieces(s)) \in Seq(Byte)
  BY PiecesTypes, FlattenedBytes
<1>3. DataPart(s) \in Seq(Byte)
  <2> DEFINE n == Len(s.slices)
             Q == [i \in DOMAIN s.slices |-> s.slices[i].data]
             T == Seq(Byte)
  <2>1. n \in Nat /\ DOMAIN s.slices = 1..n /\ \A i \in 1..n : s.slices[i].data \in T
    BY SourceTypes
  <2>2. DataPart(s) = IF s.legacy THEN FlattenSeq(Q) ELSE <<>>
    BY DEF DataPart
  <2> HIDE DEF T, n
  <2>3. Q \in [1..n -> T]
    BY <2>1
  <2> HIDE DEF Q
  <2>4. Q \in Seq(T)
    BY <2>1, <2>3
  <2>5. FlattenSeq(Q) \in T
    BY <2>4, FlattenedBytes DEF T
  <2>6. <<>> \in T
    BY DEF T
  <2>7. QED
    BY <2>2, <2>5, <2>6 DEF T
<1>4. QED
  BY <1>1, <1>2, <1>3 DEF Assembled, FlagPart, DataPart

LEMMA AssembledTypes ==
  ASSUME NEW s \in Sources
  PROVE  Assembled(s) \in Seq(Byte)
<1> DEFINE a == FlagPart(s)
           b == FlattenSeq(Pieces(s))
           c == DataPart(s)
<1>1. a \in Seq(Byte) /\ b \in Seq(Byte) /\ c \in Seq(Byte) /\ Assembled(s) = a \o b \o c
  BY PartsTypes
<1> HIDE DEF a, b, c
<1>2. a \o b \in Seq(Byte)
  BY <1>1, Concatenation
<1>3. (a \o b) \o c \in Seq(Byte)
  BY <1>1, <1>2, Concatenation
<1>4. QED
  BY <1>1, <1>3

\* The slices of a frame with footers.
LEMMA AssembledSlices ==
  ASSUME NEW s \in Sources, ~s.legacy
  PROVE  Holds(Pieces(s), Len(s.slices), Assembled(s))
<1>1. Assembled(s) = FlattenSeq(Pieces(s))
  <2>1. FlagPart(s) = <<>> /\ DataPart(s) = <<>>
    BY DEF FlagPart, DataPart
  <2>2. FlattenSeq(Pieces(s)) \in Seq(Byte)
    BY PartsTypes
  <2>3. Assembled(s) = <<>> \o FlattenSeq(Pieces(s)) \o <<>>
    BY <2>1, PartsTypes
  <2>4. QED
    BY <2>2, <2>3, NothingAround
<1>2. Pieces(s) \in Seq(Seq(Byte)) /\ Len(Pieces(s)) = Len(s.slices) /\ Len(Pieces(s)) >= 1
  BY PiecesTypes, SomeSlice
<1>3. QED
  BY <1>1, <1>2, Flattened

\* The headers of a legacy frame.
LEMMA AssembledHeaders ==
  ASSUME NEW s \in Sources, s.legacy
  PROVE  /\ Len(Assembled(s)) >= Len(s.slices) + 1
         /\ Assembled(s)[1] = Flag(s)[1]
         /\ \A i \in 1..Len(s.slices) : Assembled(s)[i + 1] = HeaderByte(s.slices[i].rect)
<1> DEFINE P == Pieces(s)
           n == Len(s.slices)
           a == FlagPart(s)
           b == FlattenSeq(P)
           c == DataPart(s)
<1>1. /\ a \in Seq(Byte) /\ Len(a) = 1 /\ a[1] = Flag(s)[1]
      /\ b \in Seq(Byte) /\ c \in Seq(Byte) /\ Assembled(s) = a \o b \o c
  <2>1. a = Flag(s)
    BY DEF FlagPart
  <2>2. QED
    BY <2>1, FlagTypes, PartsTypes
<1>2. /\ P \in Seq(Seq(Byte)) /\ Len(P) = n /\ n \in Nat /\ n >= 1
      /\ \A i \in 1..n : P[i] = <<HeaderByte(s.slices[i].rect)>>
  BY PiecesTypes, SomeSlice, SourceTypes
<1> DEFINE value(i) == HeaderByte(s.slices[i].rect)
<1>0. \A i \in 1..n : P[i] = <<value(i)>>
  BY <1>2
<1> HIDE DEF P, n, value
<1>3. Holds(P, n, b)
  BY <1>2, Flattened
<1>4. \A i \in 1..n : Len(P[i]) = 1 /\ P[i][1] = value(i)
  BY <1>0
<1> DEFINE S == {m \in Nat : m <= n => BytesBefore(P, m + 1) = m}
<1>5. 0 \in S
  BY <1>2, PiecesBefore
<1>6. ASSUME NEW m \in Nat, m \in S
      PROVE  m + 1 \in S
  <2> SUFFICES ASSUME m + 1 <= n
               PROVE  BytesBefore(P, (m + 1) + 1) = m + 1
    OBVIOUS
  <2> DEFINE k == m + 1
  <2>1. k \in 1..n /\ BytesBefore(P, k) = m
    BY <1>2, <1>6
  <2> HIDE DEF k
  <2>2. BytesBefore(P, k + 1) = BytesBefore(P, k) + Len(P[k])
    BY <1>2, <2>1, PiecesBefore
  <2>3. Len(P[k]) = 1
    BY <1>4, <2>1
  <2>4. QED
    BY <2>1, <2>2, <2>3 DEF k
<1> HIDE DEF S
<1>7. \A m \in Nat : m <= n => BytesBefore(P, m + 1) = m
  <2>1. Nat \subseteq S
    BY <1>5, <1>6, SetInduction
  <2>2. QED
    BY <2>1 DEF S
<1>8. Len(b) = n
  BY <1>2, <1>3, <1>7 DEF Holds
<1>9. \A i \in 1..n : b[i] = value(i)
  <2> SUFFICES ASSUME NEW i \in 1..n
               PROVE  b[i] = value(i)
    OBVIOUS
  <2>1. i - 1 \in Nat /\ i - 1 <= n /\ (i - 1) + 1 = i
    BY <1>2
  <2>2. BytesBefore(P, i) = i - 1
    BY <1>7, <2>1
  <2>3. \A k \in 1..Len(P[i]) : b[BytesBefore(P, i) + k] = P[i][k]
    BY <1>3 DEF Holds
  <2>4. 1 \in 1..Len(P[i]) /\ P[i][1] = value(i)
    BY <1>4
  <2>5. b[(i - 1) + 1] = value(i)
    BY <2>2, <2>3, <2>4
  <2>6. QED
    BY <2>1, <2>5
<1> HIDE DEF a, b, c
<1> DEFINE ab == a \o b
<1>10. /\ ab \in Seq(Byte) /\ Len(ab) = 1 + n
       /\ ab[1] = a[1]
       /\ \A i \in 1..n : ab[1 + i] = b[i]
  <2> DEFINE one == Len(a)
  <2>0. a \in Seq(Byte) /\ b \in Seq(Byte) /\ one = Len(a)
    BY <1>1
  <2>3. one = 1
    BY <1>1
  <2> HIDE DEF one
  <2>1. /\ ab \in Seq(Byte) /\ Len(ab) = one + Len(b)
        /\ \A k \in 1..one : ab[k] = a[k]
        /\ \A k \in 1..Len(b) : ab[one + k] = b[k]
    BY ONLY SMT, <2>0, JoinedAt
  <2> HIDE DEF ab
  <2>2. QED
    BY <1>8, <2>1, <2>3
<1> HIDE DEF ab
<1> DEFINE abc == ab \o c
<1>11. /\ Len(abc) = (1 + n) + Len(c) /\ Len(c) \in Nat
       /\ \A k \in 1..(1 + n) : abc[k] = ab[k]
  <2> DEFINE m == 1 + n
  <2>1. m = Len(ab)
    BY <1>10
  <2> HIDE DEF m
  <2>2. Len(abc) = m + Len(c) /\ \A k \in 1..m : abc[k] = ab[k]
    BY <1>1, <1>10, <2>1, JoinedAt
  <2> HIDE DEF abc
  <2>3. QED
    BY <1>1, <2>2 DEF m
<1>12. Assembled(s) = abc
  BY <1>1 DEF ab
<1> HIDE DEF abc
<1>13. abc[1] = a[1] /\ \A i \in 1..n : abc[i + 1] = b[i]
  <2>1. 1 \in 1..(1 + n) /\ \A i \in 1..n : i + 1 \in 1..(1 + n) /\ i + 1 = 1 + i
    BY <1>2
  <2>2. QED
    BY <1>10, <1>11, <2>1
<1>14. Len(abc) >= n + 1
  BY <1>2, <1>11
<1>15. QED
  BY <1>1, <1>9, <1>12, <1>13, <1>14 DEF n, value

\* What arrives are bytes, whatever happened to them.
LEMMA ReceivedTypes ==
  ASSUME NEW s \in Sources, NEW t \in Transports(s)
  PROVE  Received(s, t) \in Seq(Byte)
<1> DEFINE Q == [i \in DOMAIN t.order |-> Pieces(s)[t.order[i]]]
           whole == IF t.order = InOrder(s) THEN Assembled(s) ELSE FlattenSeq(Q)
           n == Len(t.order)
           T == Seq(Byte)
<1>1. /\ n \in Nat /\ DOMAIN t.order = 1..n /\ t.cut \in Nat
      /\ \A i \in 1..n : t.order[i] \in DOMAIN s.slices
      /\ \A k \in DOMAIN t.bytes : t.bytes[k] \in Byte
  BY TransportsAssumption, MembersOfSeq
<1>2. \A j \in DOMAIN s.slices : Pieces(s)[j] \in T
  <2>1. Pieces(s) \in Seq(Seq(Byte)) /\ Len(Pieces(s)) = Len(s.slices)
    BY PiecesTypes
  <2>2. DOMAIN s.slices = 1..Len(s.slices)
    BY SourceTypes
  <2>3. QED
    BY <2>1, <2>2, MembersOfSeq
<1> HIDE DEF n, T
<1>3. Q \in Seq(T)
  <2>1. Q \in [1..n -> T]
    BY <1>1, <1>2
  <2> HIDE DEF Q
  <2>2. QED
    BY <1>1, <2>1
<1> HIDE DEF Q
<1>4. whole \in Seq(Byte)
  <2>1. FlattenSeq(Q) \in Seq(Byte)
    BY <1>3, FlattenedBytes DEF T
  <2>2. QED
    BY <2>1, AssembledTypes
<1>5. Received(s, t) = [k \in 1..(Len(whole) - t.cut) |->
                          IF k \in DOMAIN t.bytes THEN t.bytes[k] ELSE whole[k]]
  BY DEF Received, Q
<1> HIDE DEF whole
<1> DEFINE m == Len(whole) - t.cut
           R == [k \in 1..m |-> IF k \in DOMAIN t.bytes THEN t.bytes[k] ELSE whole[k]]
<1>6. Len(whole) \in Nat /\ m \in Int /\ m <= Len(whole) /\ \A k \in 1..m : whole[k] \in Byte
  BY <1>1, <1>4
<1> HIDE DEF m
<1>7. R \in [1..m -> Byte]
  BY <1>1, <1>6
<1>11. Received(s, t) = R
  BY <1>5 DEF m
<1>8. CASE m >= 0
  BY <1>6, <1>7, <1>8, <1>11
<1>9. CASE ~(m >= 0)
  <2>1. 1..m = {}
    BY <1>6, <1>9
  <2>2. R = <<>>
    BY <2>1
  <2>3. <<>> \in Seq(Byte)
    OBVIOUS
  <2> HIDE DEF R
  <2>4. QED
    BY <2>2, <2>3, <1>11
<1>10. QED
  BY <1>8, <1>9

\* Unless something happens, what arrives is what was sent.
LEMMA ReceivedIntact ==
  ASSUME NEW s \in Sources, NEW t, t.order = InOrder(s), t.cut = 0, t.bytes = <<>>
  PROVE  Received(s, t) = Assembled(s)
<1> DEFINE whole == Assembled(s)
<1>1. whole \in Seq(Byte)
  BY AssembledTypes
<1>2. Received(s, t) = [k \in 1..(Len(whole) - 0) |-> IF k \in {} THEN t.bytes[k] ELSE whole[k]]
  BY DEF Received
<1> HIDE DEF whole
<1>3. 1..(Len(whole) - 0) = DOMAIN whole
  BY <1>1
<1>4. [k \in DOMAIN whole |-> IF k \in {} THEN t.bytes[k] ELSE whole[k]] = whole
  BY <1>1
<1>5. QED
  BY <1>2, <1>3, <1>4 DEF whole

(***************************************************************************)
(* The scan from the end of the frame.                                     *)
(***************************************************************************)
LEMMA PayloadTypes ==
  ASSUME TypeInv
  PROVE  /\ source \in Sources /\ payload \in Seq(Byte) /\ Len(payload) \in Nat
         /\ Intact => payload = Assembled(source)
<1>1. /\ source \in Sources /\ transport \in Transports(source)
      /\ payload = Received(source, transport)
  BY DEF TypeInv
<1>2. payload \in Seq(Byte)
  BY <1>1, ReceivedTypes
<1>3. Intact => Received(source, transport) = Assembled(source)
  BY <1>1, ReceivedIntact DEF Intact, Complete
<1>4. QED
  BY <1>1, <1>2, <1>3

LEMMA FooterSizes ==
  ASSUME NEW ec \in BOOLEAN
  PROVE  FooterSize(ec) \in Nat /\ FooterSize(ec) >= 3
BY DEF FooterSize

\* A candidate lies right in front of what was scanned before.
LEMMA CandidateTypes ==
  ASSUME TypeInv, NEW size \in 0..Len(payload), NEW verify
  PROVE  /\ Candidate(size, verify).code \in {"ok", "crc", "syntax"}
         /\ Candidate(size, verify).code # "syntax" =>
              /\ Candidate(size, verify).found \in [offset : Nat, size : Nat]
              /\ End(Candidate(size, verify).found) = size
              /\ Candidate(size, verify).found.offset < size
<1> DEFINE tail == FooterSize(source.ec)
           footer == size - tail
           n == SizeAt(footer)
           found == [offset |-> footer - n, size |-> n]
           c == Candidate(size, verify)
           bad == footer < 0 \/ ReservedStatus(footer) \/ n > footer
           broken == verify /\ source.ec /\ Checksum(Bytes(found.offset, found.size + tail)) # 0
<1>1. payload \in Seq(Byte) /\ Len(payload) \in Nat /\ source \in Sources
  BY PayloadTypes
<1>2. tail \in Nat /\ tail >= 3
  BY <1>1, SourceTypes, FooterSizes
<1>3. c = IF bad THEN [code |-> "syntax", found |-> [offset |-> 0, size |-> 0]]
          ELSE IF broken THEN [code |-> "crc", found |-> found]
          ELSE [code |-> "ok", found |-> found]
  BY DEF Candidate
<1> HIDE DEF tail, c, broken
<1>4. c.code \in {"ok", "crc", "syntax"} /\ (c.code # "syntax" => ~bad /\ c.found = found)
  <2> HIDE DEF bad, found
  <2>1. CASE bad
    BY <1>3, <2>1
  <2>2. CASE ~bad /\ broken
    BY <1>3, <2>2
  <2>3. CASE ~bad /\ ~broken
    BY <1>3, <2>3
  <2>4. QED
    BY <2>1, <2>2, <2>3
<1>5. ASSUME ~bad
      PROVE  found \in [offset : Nat, size : Nat] /\ End(found) = size /\ found.offset < size
  <2>1. footer \in Nat /\ footer + 3 <= Len(payload)
    BY <1>1, <1>2, <1>5
  <2>2. footer + 1 \in 1..Len(payload) /\ footer + 2 \in 1..Len(payload) /\ footer + 3 \in 1..Len(payload)
    BY <1>1, <2>1
  <2>3. payload[footer + 1] \in Byte /\ payload[footer + 2] \in Byte /\ payload[footer + 3] \in Byte
    BY <1>1, <2>2
  <2>4. n \in Nat
    <3> HIDE DEF footer
    <3>1. PICK high \in Byte, middle \in Byte, low \in Byte :
            high = payload[footer + 1] /\ middle = payload[footer + 2] /\ low = payload[footer + 3]
      BY <2>3
    <3>2. n = 65536 * high + 256 * middle + low
      BY <3>1 DEF SizeAt
    <3> HIDE DEF n
    <3>3. 65536 * high + 256 * middle + low \in Nat
      BY DEF Byte
    <3>4. QED
      BY ONLY <3>2, <3>3
  <2> HIDE DEF n
  <2>5. n <= footer
    BY <1>5, <2>1, <2>4
  <2>6. footer - n \in Nat /\ (footer - n) + n + tail = size /\ footer - n < size
    BY <1>1, <1>2, <2>1, <2>4, <2>5
  <2> DEFINE offset == footer - n
  <2>8. offset \in Nat /\ (offset + n) + tail = size /\ offset < size /\ found = [offset |-> offset, size |-> n]
    BY <2>6
  <2> HIDE DEF offset, found
  <2>9. found \in [offset : Nat, size : Nat] /\ found.offset = offset /\ found.size = n
    BY <2>4, <2>8
  <2>10. End(found) = (offset + n) + tail
    BY <2>9 DEF End, tail
  <2>11. QED
    BY <2>8, <2>9, <2>10
<1>6. QED
  BY <1>4, <1>5 DEF c

\* The end of a slice that was sent.
LEMMA Starts ==
  ASSUME NEW n, n = Len(source.slices), source \in Sources, ~source.legacy
  PROVE  /\ n \in Nat /\ n >= 1 /\ StartOf(1) = 0
         /\ Expected \in Seq([offset : Nat, size : Nat]) /\ Len(Expected) = n
         /\ StartOf(n + 1) \in Nat
         /\ \A i \in 1..n :
              /\ StartOf(i) \in Nat /\ Len(Content(source, i)) \in Nat
              /\ Expected[i] = [offset |-> StartOf(i), size |-> Len(Content(source, i))]
              /\ StartOf(i + 1) = (StartOf(i) + Len(Content(source, i))) + FooterSize(source.ec)
              /\ Len(Pieces(source)[i]) = Len(Content(source, i)) + FooterSize(source.ec)
<1> DEFINE P == Pieces(source)
           size(i) == Len(Content(source, i))
           tail == FooterSize(source.ec)
           X == [offset : Nat, size : Nat]
<1>1. n \in Nat /\ n >= 1 /\ DOMAIN source.slices = 1..n
  BY SomeSlice, SourceTypes
<1>2. P \in Seq(Seq(Byte)) /\ Len(P) = n /\ \A i \in 1..n : Len(P[i]) = size(i) + tail
  BY PiecesTypes DEF Completed
<1>3. \A i \in 1..n : size(i) \in Nat
  BY ContentTypes
<1>4. tail \in Nat
  BY SourceTypes, FooterSizes
<1>5. \A i : StartOf(i) = BytesBefore(P, i)
  BY DEF StartOf
<1> HIDE DEF P
<1>6. /\ StartOf(1) = 0 /\ StartOf(n + 1) \in Nat
      /\ \A i \in 1..n : StartOf(i) \in Nat /\ StartOf(i + 1) = StartOf(i) + Len(P[i])
  BY <1>2, <1>5, PiecesBefore
<1>7. \A i \in 1..n : StartOf(i + 1) = (StartOf(i) + size(i)) + tail
  <2> SUFFICES ASSUME NEW i \in 1..n
               PROVE  StartOf(i + 1) = (StartOf(i) + size(i)) + tail
    OBVIOUS
  <2> DEFINE a == StartOf(i)
             b == size(i)
  <2>1. a \in Nat /\ b \in Nat /\ StartOf(i + 1) = a + (b + tail)
    BY <1>2, <1>3, <1>6
  <2> HIDE DEF a, b, tail
  <2>2. a + (b + tail) = (a + b) + tail
    BY <1>4, <2>1
  <2>3. QED
    BY <2>1, <2>2 DEF a, b
<1>8. Expected = [i \in 1..n |-> [offset |-> StartOf(i), size |-> size(i)]]
  BY <1>1 DEF Expected
<1> HIDE DEF size, tail
<1>9. \A i \in 1..n : Expected[i] = [offset |-> StartOf(i), size |-> size(i)]
  BY <1>8
<1>10. Expected \in Seq(X) /\ Len(Expected) = n
  <2>1. Expected \in [1..n -> X]
    BY <1>3, <1>6, <1>8
  <2> HIDE DEF X
  <2>2. QED
    BY <1>1, <2>1
<1>11. QED
  BY <1>1, <1>2, <1>3, <1>6, <1>7, <1>9, <1>10 DEF P, size, tail

LEMMA EndsMeet ==
  ASSUME source \in Sources, ~source.legacy, NEW i \in 1..Len(source.slices)
  PROVE  End(Expected[i]) = StartOf(i + 1) /\ StartOf(i) < StartOf(i + 1)
<1> DEFINE a == StartOf(i)
           b == Len(Content(source, i))
           tail == FooterSize(source.ec)
<1>1. a \in Nat /\ b \in Nat /\ Expected[i] = [offset |-> a, size |-> b] /\ StartOf(i + 1) = (a + b) + tail
  BY Starts
<1>2. tail \in Nat /\ tail >= 3
  BY SourceTypes, FooterSizes
<1>3. End(Expected[i]) = Expected[i].offset + Expected[i].size + tail
  BY DEF End
<1> HIDE DEF a, b, tail
<1>4. End(Expected[i]) = (a + b) + tail
  BY <1>1, <1>3
<1>5. a < (a + b) + tail
  BY <1>1, <1>2
<1>6. QED
  BY <1>1, <1>4, <1>5 DEF a

LEMMA PartOf ==
  ASSUME NEW all \in Seq(Byte), NEW piece \in Seq(Byte), NEW a \in Nat, NEW n,
         n = Len(piece), a + n <= Len(all),
         \A k \in 1..n : all[a + k] = piece[k]
  PROVE  SubSeq(all, a + 1, a + n) = piece
<1> DEFINE part == SubSeq(all, a + 1, a + n)
<1>1. n \in Nat /\ Len(all) \in Nat
  OBVIOUS
<1>2. /\ \A k \in (a + 1)..(a + n) : k \in 1..Len(all) /\ all[k] \in Byte
  BY <1>1
<1>3. part \in Seq(Byte) /\ Len(part) = n
  BY <1>1, <1>2
<1>4. \A k \in 1..n : part[k] = all[a + k]
  BY <1>1
<1> HIDE DEF part
<1>5. part = piece
  BY <1>1, <1>3, <1>4
<1>6. QED
  BY <1>5 DEF part

\* Of a frame that arrives as it was sent, the scan finds every slice.
LEMMA CandidateIntact ==
  ASSUME TypeInv, Intact, ~source.legacy, NEW i \in 1..Len(source.slices), NEW verify
  PROVE  Candidate(StartOf(i + 1), verify) = [code |-> "ok", found |-> Expected[i]]
<1> DEFINE n == Len(source.slices)
           P == Pieces(source)
           piece == P[i]
           a == StartOf(i)
           b == Len(Content(source, i))
           tail == FooterSize(source.ec)
           size == StartOf(i + 1)
           footer == size - tail
           d == SizeAt(footer)
<1>1. source \in Sources /\ payload \in Seq(Byte) /\ payload = Assembled(source)
  BY PayloadTypes
<1>2. /\ a \in Nat /\ b \in Nat /\ Expected[i] = [offset |-> a, size |-> b]
      /\ size = (a + b) + tail /\ Len(piece) = b + tail
  BY <1>1, Starts
<1>3. tail \in Nat /\ tail >= 3 /\ tail = IF source.ec THEN 8 ELSE 3
  BY <1>1, SourceTypes, FooterSizes DEF FooterSize
<1>4. Holds(P, n, payload)
  BY <1>1, AssembledSlices
<1>5. /\ BytesBefore(P, i) + Len(P[i]) <= Len(payload)
      /\ \A k \in 1..Len(P[i]) : payload[BytesBefore(P, i) + k] = P[i][k]
  BY <1>4 DEF Holds
<1>6. a + Len(piece) <= Len(payload) /\ \A k \in 1..Len(piece) : payload[a + k] = piece[k]
  BY <1>5 DEF StartOf
<1>7. Completed(Content(source, i), source.ec, piece)
  BY <1>1, PiecesTypes
<1>8. /\ piece \in Seq(Byte)
      /\ 65536 * piece[b + 1] + 256 * piece[b + 2] + piece[b + 3] = b
      /\ source.ec => piece[b + 4] = 0 /\ Checksum(piece) = 0
  BY ONLY SMT, <1>7 DEF Completed
<1>9. Candidate(size, verify) =
        IF footer < 0 \/ ReservedStatus(footer) \/ d > footer
        THEN [code |-> "syntax", found |-> [offset |-> 0, size |-> 0]]
        ELSE IF verify /\ source.ec /\ Checksum(Bytes(footer - d, d + tail)) # 0
        THEN [code |-> "crc", found |-> [offset |-> footer - d, size |-> d]]
        ELSE [code |-> "ok", found |-> [offset |-> footer - d, size |-> d]]
  BY DEF Candidate
<1> HIDE DEF a, b, tail, size, piece
<1>10. footer = a + b /\ ~(footer < 0) /\ footer - b = a
  BY <1>2, <1>3
<1> HIDE DEF footer
<1>11. \A k \in 1..tail : payload[footer + k] = piece[b + k]
  <2> SUFFICES ASSUME NEW k \in 1..tail
               PROVE  payload[footer + k] = piece[b + k]
    OBVIOUS
  <2> DEFINE j == b + k
  <2>1. j \in 1..Len(piece) /\ footer + k = a + j
    BY <1>2, <1>3, <1>10
  <2> HIDE DEF j
  <2>2. payload[a + j] = piece[j]
    BY <1>6, <2>1
  <2>3. QED
    BY <2>1, <2>2 DEF j
<1>12. 1 \in 1..tail /\ 2 \in 1..tail /\ 3 \in 1..tail /\ (source.ec => 4 \in 1..tail)
  BY <1>3
<1>13. /\ payload[footer + 1] = piece[b + 1] /\ payload[footer + 2] = piece[b + 2]
       /\ payload[footer + 3] = piece[b + 3]
       /\ source.ec => payload[footer + 4] = piece[b + 4]
  BY <1>11, <1>12
<1>14. d = b
  <2>1. d = 65536 * payload[footer + 1] + 256 * payload[footer + 2] + payload[footer + 3]
    BY DEF SizeAt
  <2> HIDE DEF d
  <2>2. d = 65536 * piece[b + 1] + 256 * piece[b + 2] + piece[b + 3]
    BY ONLY SMT, <1>13, <2>1
  <2>3. QED
    BY ONLY SMT, <1>8, <2>2
<1> HIDE DEF d
<1>15. ~ReservedStatus(footer)
  <2> SUFFICES ASSUME ReservedStatus(footer)
               PROVE  FALSE
    OBVIOUS
  <2>1. source.ec /\ payload[footer + 4] > 2
    BY DEF ReservedStatus
  <2>2. payload[footer + 4] = 0
    BY ONLY SMT, <1>8, <1>13, <2>1
  <2>3. QED
    BY ONLY <2>1, <2>2
<1>16. source.ec => Checksum(Bytes(footer - d, d + tail)) = 0
  <2> DEFINE m == Len(piece)
  <2>1. footer - d = a /\ d + tail = m /\ m = Len(piece)
    <3>1. footer - d = a
      BY ONLY <1>10, <1>14
    <3>2. d + tail = m
      BY ONLY <1>2, <1>14
    <3>3. QED
      BY ONLY <3>1, <3>2
  <2>2. a + m <= Len(payload) /\ \A k \in 1..m : payload[a + k] = piece[k]
    BY <1>6
  <2>3. piece \in Seq(Byte) /\ (source.ec => Checksum(piece) = 0)
    BY ONLY SMT, <1>8
  <2> HIDE DEF m
  <2>4. SubSeq(payload, a + 1, a + m) = piece
    BY <1>1, <1>2, <2>1, <2>2, <2>3, PartOf
  <2>5. Bytes(a, m) = piece
    BY <2>4 DEF Bytes
  <2>6. QED
    BY <2>1, <2>3, <2>5
<1>17. d \in Nat /\ footer \in Nat /\ ~(d > footer) /\ footer - d = a
  BY <1>2, <1>10, <1>14
<1>18. Candidate(size, verify) = [code |-> "ok", found |-> [offset |-> a, size |-> b]]
  BY ONLY <1>9, <1>10, <1>14, <1>15, <1>16, <1>17
<1>19. QED
  BY <1>2, <1>18 DEF size

Slices == Seq([offset : Nat, size : Nat])

Given == UNCHANGED <<source, transport, payload>>

LEMMA SamePayload ==
  ASSUME TypeInv, Given,
         pc' \in (IF source.legacy THEN {"flag", "legacy", "done"}
                  ELSE {"locate", "count", "headers", "done"}),
         remaining' \in 0..Len(payload),
         located' \in Slices,
         \A j \in DOMAIN located' : End(located'[j]) <= Len(payload),
         parsed' \in Seq(Rects),
         status'.code # "exhausted"
  PROVE  TypeInv'
<1>1. source' = source /\ transport' = transport /\ payload' = payload
  BY DEF Given
<1>2. /\ source' \in Sources /\ transport' \in Transports(source')
      /\ payload' = Received(source', transport')
  BY <1>1 DEF TypeInv
<1>3. \A j \in DOMAIN located' : End(located[j])' <= Len(payload')
  BY <1>1 DEF End
<1>4. QED
  BY <1>1, <1>2, <1>3 DEF TypeInv, Slices

LEMMA SameIntact ==
  ASSUME Given
  PROVE  Intact' = Intact
BY DEF Given, Intact, Complete

LEMMA NotEmpty ==
  ASSUME TypeInv, Intact
  PROVE  /\ payload # <<>>
         /\ ~source.legacy => Len(payload) = StartOf(Len(source.slices) + 1)
<1> DEFINE n == Len(source.slices)
<1>1. source \in Sources /\ payload \in Seq(Byte) /\ payload = Assembled(source)
  BY PayloadTypes
<1>2. n \in Nat /\ n >= 1
  BY <1>1, SourceTypes, SomeSlice
<1>3. CASE source.legacy
  <2>1. Len(payload) >= n + 1
    BY <1>1, <1>3, AssembledHeaders
  <2>2. QED
    BY <1>2, <1>3, <2>1
<1>4. CASE ~source.legacy
  <2>1. Len(payload) = BytesBefore(Pieces(source), n + 1)
    BY <1>1, <1>4, AssembledSlices DEF Holds
  <2>2. Len(payload) = StartOf(n + 1)
    BY <2>1 DEF StartOf
  <2>3. n \in 1..n
    BY <1>2
  <2>4. StartOf(n) \in Nat /\ StartOf(n) < StartOf(n + 1) /\ StartOf(n + 1) \in Nat
    BY <1>1, <1>4, <2>3, Starts, EndsMeet
  <2>5. Len(payload) # 0
    BY <2>2, <2>4
  <2>6. QED
    BY <1>4, <2>2, <2>5
<1>5. QED
  BY <1>3, <1>4

\* What FrameParser::parse starts with.
LEMMA InitIInv == Init => IInv
<1> SUFFICES ASSUME Init
             PROVE  IInv
  OBVIOUS
<1>1. /\ source \in Sources /\ transport \in Transports(source)
      /\ payload = Received(source, transport)
      /\ pc = IF source.legacy THEN "flag" ELSE "locate"
      /\ remaining = Len(payload) /\ located = <<>> /\ parsed = <<>>
      /\ status.code = "none"
  BY DEF Init
<1>2. payload \in Seq(Byte)
  BY <1>1, ReceivedTypes
<1>3. TypeInv
  <2>1. <<>> \in Seq([offset : Nat, size : Nat]) /\ <<>> \in Seq(Rects)
    OBVIOUS
  <2>2. Len(payload) \in 0..Len(payload)
    BY <1>2
  <2>3. pc \in (IF source.legacy THEN {"flag", "legacy", "done"}
                ELSE {"locate", "count", "headers", "done"})
    BY <1>1
  <2>4. \A j \in DOMAIN located : FALSE
    BY <1>1
  <2>5. QED
    BY <1>1, <2>1, <2>2, <2>3, <2>4 DEF TypeInv
<1>4. pc \in {"flag", "locate"} /\ ~Done /\ Len(located) = 0 /\ Len(parsed) = 0
  BY <1>1 DEF Done
<1>5. ScanInv
  BY <1>1, <1>4 DEF ScanInv, Accepted
<1>6. IntactInv
  <2> SUFFICES ASSUME Intact
               PROVE  IntactInv
    BY DEF IntactInv
  <2>1. Len(Rectangles) \in Nat
    BY <1>1, RectanglesTypes DEF Rectangles
  <2>2. ParsedInv
    BY <1>1, <1>4, <2>1 DEF ParsedInv
  <2>3. ASSUME pc = "locate"
        PROVE  Len(Expected) \in Nat /\ remaining = StartOf(Len(Expected) - 0 + 1)
    <3>1. ~source.legacy
      BY <1>1, <2>3
    <3>2. Len(Expected) = Len(source.slices) /\ Len(source.slices) \in Nat
      BY <1>1, <3>1, Starts
    <3>3. remaining = StartOf(Len(source.slices) + 1)
      BY <1>1, <1>3, <3>1, NotEmpty
    <3>4. QED
      BY <3>2, <3>3
  <2>4. QED
    BY <1>1, <1>4, <2>2, <2>3 DEF IntactInv
<1>7. QED
  BY <1>3, <1>5, <1>6 DEF IInv

(***************************************************************************)
(* Refusals.                                                               *)
(***************************************************************************)
LEMMA Refusal ==
  ASSUME IInv, ~Intact, Given, UNCHANGED <<remaining, located, parsed>>,
         pc' = "done", status'.code \notin {"ok", "exhausted"}
  PROVE  IInv'
<1>1. TypeInv'
  <2>1. /\ remaining \in 0..Len(payload) /\ located \in Slices
        /\ \A j \in DOMAIN located : End(located[j]) <= Len(payload)
        /\ parsed \in Seq(Rects) /\ TypeInv
    BY DEF IInv, TypeInv, Slices
  <2>2. QED
    BY <2>1, SamePayload
<1>2. ScanInv'
  BY DEF ScanInv, Accepted
<1>3. IntactInv'
  BY SameIntact DEF IntactInv
<1>4. QED
  BY <1>1, <1>2, <1>3 DEF IInv

\* Where the scan of a frame that arrives as it was sent has got to.
LEMMA ScanIntact ==
  ASSUME IInv, Intact, pc = "locate"
  PROVE  /\ ~source.legacy /\ Len(located) \in Nat /\ Len(source.slices) \in Nat
         /\ Len(located) <= Len(source.slices)
         /\ remaining # 0 =>
              /\ Len(located) < Len(source.slices)
              /\ \A verify : Candidate(remaining, verify) =
                   [code |-> "ok", found |-> Expected[Len(source.slices) - Len(located)]]
         /\ remaining = 0 => Len(located) = Len(source.slices)
<1> DEFINE n == Len(source.slices)
           m == Len(located)
<1>1. /\ TypeInv /\ source \in Sources /\ ~source.legacy /\ located \in Slices
      /\ m <= Len(Expected) /\ remaining = StartOf(Len(Expected) - m + 1)
  <2>1. TypeInv /\ source \in Sources /\ ~source.legacy /\ located \in Slices
    BY DEF IInv, TypeInv, Slices
  <2>2. m <= Len(Expected) /\ remaining = StartOf(Len(Expected) - Len(located) + 1)
    BY DEF IInv, IntactInv
  <2>3. QED
    BY <2>1, <2>2
<1>2. n \in Nat /\ n >= 1 /\ Len(Expected) = n /\ StartOf(1) = 0 /\ m \in Nat
  <2>1. m \in Nat
    BY <1>1 DEF Slices
  <2>2. n \in Nat /\ n >= 1 /\ Len(Expected) = n /\ StartOf(1) = 0
    BY <1>1, Starts
  <2>3. QED
    BY <2>1, <2>2
<1> HIDE DEF n, m
<1>3. n - m \in 0..n /\ remaining = StartOf((n - m) + 1)
  BY <1>1, <1>2
<1>4. ASSUME NEW i \in 1..n
      PROVE  StartOf(i + 1) # 0
  <2>1. StartOf(i) \in Nat /\ StartOf(i) < StartOf(i + 1)
    BY <1>1, Starts, EndsMeet DEF n
  <2>2. QED
    BY <2>1
<1>5. CASE remaining # 0
  <2>1. n - m # 0
    BY <1>2, <1>3, <1>5
  <2>2. n - m \in 1..n
    BY <1>2, <1>3, <2>1
  <2>3. \A verify : Candidate(remaining, verify) = [code |-> "ok", found |-> Expected[n - m]]
    BY <1>1, <1>3, <2>2, CandidateIntact DEF n
  <2>4. m < n
    BY <1>2, <2>2
  <2>5. QED
    BY <1>1, <1>2, <1>5, <2>3, <2>4 DEF n, m
<1>6. CASE remaining = 0
  <2>1. n - m \notin 1..n
    BY <1>3, <1>4, <1>6
  <2>2. m = n
    BY <1>2, <1>3, <2>1
  <2>3. QED
    BY <1>1, <1>2, <1>6, <2>2 DEF n, m
<1>7. QED
  BY <1>5, <1>6

LEMMA RefuseEmptyIInv == IInv /\ RefuseEmpty => IInv'
<1> SUFFICES ASSUME IInv, RefuseEmpty
             PROVE  IInv'
  OBVIOUS
<1>1. /\ payload = <<>> /\ pc' = "done" /\ status'.code = "invalid"
      /\ Given /\ UNCHANGED <<remaining, located, parsed>>
  BY DEF RefuseEmpty, Return, Given
<1>2. ~Intact
  BY <1>1, NotEmpty DEF IInv
<1>3. QED
  BY <1>1, <1>2, Refusal

LEMMA RefuseFooterIInv == IInv /\ RefuseFooter => IInv'
<1> SUFFICES ASSUME IInv, RefuseFooter
             PROVE  IInv'
  OBVIOUS
<1>1. /\ pc = "locate" /\ remaining # 0 /\ Candidate(remaining, source.verify).code = "syntax"
      /\ pc' = "done" /\ status'.code = "syntax"
      /\ Given /\ UNCHANGED <<remaining, located, parsed>>
  BY DEF RefuseFooter, Searching, Scanned, Return, Given
<1>2. ~Intact
  BY <1>1, ScanIntact
<1>3. QED
  BY <1>1, <1>2, Refusal

LEMMA TooManySlicesIInv == IInv /\ TooManySlices => IInv'
<1> SUFFICES ASSUME IInv, TooManySlices
             PROVE  IInv'
  OBVIOUS
<1>1. /\ pc = "locate" /\ remaining # 0 /\ Len(located) = source.stream.h * source.stream.v
      /\ pc' = "done" /\ status'.code = "syntax"
      /\ Given /\ UNCHANGED <<remaining, located, parsed>>
  BY DEF TooManySlices, Return, Given, MaximumSliceCount, stream
<1>2. source \in Sources
  BY DEF IInv, TypeInv
<1>3. Len(source.slices) <= Len(located)
  BY <1>1, <1>2, SomeSlice
<1>4. ~Intact
  <2> SUFFICES ASSUME Intact
               PROVE  FALSE
    OBVIOUS
  <2>1. Len(located) < Len(source.slices) /\ Len(located) \in Nat /\ Len(source.slices) \in Nat
    BY <1>1, ScanIntact
  <2>2. QED
    BY <1>3, <2>1
<1>5. QED
  BY <1>1, <1>4, Refusal

LEMMA CountFailsIInv == IInv /\ (CountFails \/ NameMismatch) => IInv'
<1> SUFFICES ASSUME IInv, CountFails \/ NameMismatch
             PROVE  IInv'
  OBVIOUS
<1>1. /\ pc = "count" /\ pc' = "done" /\ status'.code = "crc"
      /\ Given /\ UNCHANGED <<remaining, located, parsed>>
  BY DEF CountFails, NameMismatch, Return, Given
<1>2. ~Intact
  BY <1>1 DEF IInv, IntactInv
<1>3. QED
  BY <1>1, <1>2, Refusal

LEMMA FindMismatchIInv == IInv /\ FindMismatch => IInv'
<1> SUFFICES ASSUME IInv, FindMismatch
             PROVE  IInv'
  OBVIOUS
<1> DEFINE c == Candidate(remaining, source.verify)
<1>1. /\ pc = "locate" /\ remaining # 0 /\ c.code = "crc" /\ remaining' = c.found.offset
      /\ pc' = "count" /\ Given /\ UNCHANGED <<located, parsed, status>>
  BY DEF FindMismatch, Searching, Scanned, Given
<1>2. ~Intact
  BY <1>1, ScanIntact
<1>3. /\ TypeInv /\ remaining \in 0..Len(payload) /\ located \in Slices
      /\ \A j \in DOMAIN located : End(located[j]) <= Len(payload)
      /\ parsed \in Seq(Rects) /\ status.code # "exhausted" /\ ~source.legacy
      /\ Len(payload) \in Nat
  BY <1>1, PayloadTypes DEF IInv, TypeInv, Slices
<1>4. c.found.offset \in Nat /\ c.found.offset < remaining
  BY <1>1, <1>3, CandidateTypes
<1> HIDE DEF c
<1>5. remaining' \in 0..Len(payload)
  BY <1>1, <1>3, <1>4
<1>6. TypeInv'
  BY <1>1, <1>3, <1>5, SamePayload
<1>7. ScanInv'
  BY <1>1 DEF ScanInv, Accepted, Done
<1>8. IntactInv'
  BY <1>1, <1>2, SameIntact DEF IntactInv
<1>9. QED
  BY <1>6, <1>7, <1>8 DEF IInv

LEMMA CountSliceIInv == IInv /\ CountSlice => IInv'
<1> SUFFICES ASSUME IInv, CountSlice
             PROVE  IInv'
  OBVIOUS
<1> DEFINE c == Candidate(remaining, FALSE)
<1>1. /\ pc = "count" /\ c.code = "ok" /\ remaining' = c.found.offset
      /\ pc' = pc /\ Given /\ UNCHANGED <<located, parsed, status>>
  BY DEF CountSlice, CandidateInFront, Given
<1>2. ~Intact
  BY <1>1 DEF IInv, IntactInv
<1>3. /\ TypeInv /\ remaining \in 0..Len(payload) /\ located \in Slices
      /\ \A j \in DOMAIN located : End(located[j]) <= Len(payload)
      /\ parsed \in Seq(Rects) /\ status.code # "exhausted" /\ ~source.legacy
      /\ Len(payload) \in Nat
  BY <1>1, PayloadTypes DEF IInv, TypeInv, Slices
<1>4. c.found.offset \in Nat /\ c.found.offset < remaining
  BY <1>1, <1>3, CandidateTypes
<1> HIDE DEF c
<1>5. remaining' \in 0..Len(payload)
  BY <1>1, <1>3, <1>4
<1>6. TypeInv'
  BY <1>1, <1>3, <1>5, SamePayload
<1>7. ScanInv'
  BY <1>1 DEF ScanInv, Accepted, Done
<1>8. IntactInv'
  BY <1>1, <1>2, SameIntact DEF IntactInv
<1>9. QED
  BY <1>6, <1>7, <1>8 DEF IInv

LEMMA Appended ==
  ASSUME NEW S, NEW q \in Seq(S), NEW e \in S
  PROVE  /\ Append(q, e) \in Seq(S) /\ Len(Append(q, e)) = Len(q) + 1 /\ Len(q) \in Nat
         /\ Append(q, e)[Len(q) + 1] = e
         /\ \A j \in 1..Len(q) : Append(q, e)[j] = q[j]
OBVIOUS

LEMMA LocateSliceIInv == IInv /\ LocateSlice => IInv'
<1> SUFFICES ASSUME IInv, LocateSlice
             PROVE  IInv'
  OBVIOUS
<1> DEFINE c == Candidate(remaining, source.verify)
<1>1. /\ pc = "locate" /\ remaining # 0 /\ c.code = "ok"
      /\ located' = Append(located, c.found) /\ remaining' = c.found.offset
      /\ pc' = pc /\ Given /\ UNCHANGED <<parsed, keyframe, status>>
  BY DEF LocateSlice, Searching, Scanned, Given
<1>2. /\ TypeInv /\ remaining \in 0..Len(payload) /\ located \in Slices
      /\ \A j \in DOMAIN located : End(located[j]) <= Len(payload)
      /\ parsed \in Seq(Rects) /\ status.code # "exhausted" /\ ~source.legacy
      /\ Len(payload) \in Nat
  BY <1>1, PayloadTypes DEF IInv, TypeInv, Slices
<1>3. PICK found \in [offset : Nat, size : Nat] :
        /\ c.found = found /\ found.offset < remaining /\ End(found) = remaining
  BY <1>1, <1>2, CandidateTypes
<1>4. found.offset \in Nat
  BY <1>3
<1> DEFINE n == Len(located)
<1>5. /\ located' \in Slices /\ Len(located') = n + 1 /\ n \in Nat
      /\ located'[n + 1] = found
      /\ \A j \in 1..n : located'[j] = located[j]
  BY <1>1, <1>2, <1>3, Appended DEF Slices
<1>6. remaining' = found.offset
  BY <1>1, <1>3
<1> HIDE DEF c, n
<1>7. DOMAIN located' = 1..(n + 1) /\ DOMAIN located = 1..n /\ n = Len(located)
  BY <1>2, <1>5 DEF Slices, n
<1>8. source' = source /\ payload' = payload
  BY <1>1 DEF Given
<1>9. TypeInv'
  <2>1. remaining' \in 0..Len(payload)
    BY <1>2, <1>3, <1>4, <1>6
  <2>2. ASSUME NEW j \in 1..(n + 1)
        PROVE  End(located'[j]) <= Len(payload)
    <3>1. CASE j = n + 1
      BY <1>2, <1>3, <1>5, <3>1
    <3>2. CASE j # n + 1
      <4>1. j \in 1..n
        BY <1>5, <3>2
      <4>2. QED
        BY <1>2, <1>5, <1>7, <4>1
    <3>3. QED
      BY <3>1, <3>2
  <2>3. QED
    BY <1>1, <1>2, <1>5, <1>7, <2>1, <2>2, SamePayload
<1>10. ScanInv'
  <2>1. parsed' = <<>>
    BY <1>1 DEF IInv, ScanInv
  <2>2. remaining' = located'[Len(located')].offset /\ located' # <<>>
    BY <1>5, <1>6
  <2>3. /\ remaining = IF located = <<>> THEN Len(payload) ELSE located[n].offset
        /\ \A j \in 1..n : End(located[j]) = IF j = 1 THEN Len(payload) ELSE located[j - 1].offset
    BY <1>1 DEF IInv, ScanInv, n
  <2>4. ASSUME NEW j \in 1..(n + 1)
        PROVE  End(located'[j]) = IF j = 1 THEN Len(payload) ELSE located'[j - 1].offset
    <3>1. CASE j = n + 1 /\ n = 0
      <4>1. located = <<>>
        BY <1>2, <1>7, <3>1 DEF Slices
      <4>2. QED
        BY <1>3, <1>5, <2>3, <3>1, <4>1
    <3>2. CASE j = n + 1 /\ n # 0
      <4>1. located # <<>> /\ j # 1 /\ j - 1 = n /\ n \in 1..n
        BY <1>5, <1>7, <3>2
      <4>2. End(located'[j]) = located[n].offset
        BY <1>3, <1>5, <2>3, <3>2, <4>1
      <4>3. QED
        BY <1>5, <4>1, <4>2
    <3>3. CASE j # n + 1
      <4>1. j \in 1..n /\ (j # 1 => j - 1 \in 1..n)
        BY <1>5, <3>3
      <4>2. End(located[j]) = IF j = 1 THEN Len(payload) ELSE located[j - 1].offset
        BY <2>3, <4>1
      <4>3. QED
        BY <1>5, <4>1, <4>2
    <3>4. QED
      BY <3>1, <3>2, <3>3
  <2>6. \A j \in 1..(n + 1) : End(located[j])' = End(located'[j])
    BY <1>8 DEF End
  <2>7. \A j \in 1..Len(located') :
          End(located[j])' = IF j = 1 THEN Len(payload') ELSE located'[j - 1].offset
    BY <1>5, <1>8, <2>4, <2>6
  <2>8. QED
    BY <1>1, <2>1, <2>2, <2>7 DEF ScanInv, Accepted, Done
<1>11. IntactInv'
  <2> SUFFICES ASSUME Intact
               PROVE  IntactInv'
    BY <1>1, SameIntact DEF IntactInv
  <2> DEFINE m == Len(source.slices)
             k == m - n
  <2>1. /\ n < m /\ m \in Nat
        /\ Candidate(remaining, source.verify) = [code |-> "ok", found |-> Expected[k]]
    BY <1>1, ScanIntact DEF n
  <2>2. found = Expected[k]
    BY <1>3, <2>1 DEF c
  <2>3. k \in 1..m /\ m - (n + 1) + 1 = k /\ n + 1 <= m
    BY <1>5, <2>1
  <2>4. source \in Sources /\ ~source.legacy
    BY <1>2, PayloadTypes
  <2>5. Len(Expected) = m /\ Expected[k].offset = StartOf(k)
    <3>1. Len(Expected) = m
      BY <2>4, Starts
    <3>2. \A i \in 1..m : Expected[i] = [offset |-> StartOf(i), size |-> Len(Content(source, i))]
      BY <2>4, Starts
    <3> HIDE DEF m, k
    <3>3. QED
      BY <2>3, <3>1, <3>2
  <2> HIDE DEF m, k
  <2>6. \A j \in 1..n : located[j] = Expected[m - j + 1]
    BY <1>1, <2>5 DEF IInv, IntactInv, n
  <2>7. \A j \in 1..(n + 1) : located'[j] = Expected[m - j + 1]
    <3> SUFFICES ASSUME NEW j \in 1..(n + 1)
                 PROVE  located'[j] = Expected[m - j + 1]
      OBVIOUS
    <3>1. CASE j = n + 1
      BY <1>5, <2>2, <2>3, <3>1
    <3>2. CASE j # n + 1
      <4>1. j \in 1..n
        BY <1>5, <3>2
      <4>2. QED
        BY <1>5, <2>6, <4>1
    <3>3. QED
      BY <3>1, <3>2
  <2>8. remaining' = StartOf(m - (n + 1) + 1)
    BY <1>6, <2>2, <2>3, <2>5
  <2>9. Expected' = Expected /\ ParsedInv'
    <3>1. Expected' = Expected
      BY <1>8 DEF Expected, StartOf
    <3>2. ParsedInv
      BY DEF IInv, IntactInv
    <3>3. ParsedInv'
      BY <1>1, <1>8, <3>2 DEF ParsedInv, Rectangles
    <3>4. QED
      BY <3>1, <3>3
  <2>10. StartOf(Len(Expected) - Len(located) + 1)' = StartOf(m - (n + 1) + 1)
    BY <1>5, <1>8, <2>5, <2>9 DEF StartOf
  <2>11. /\ Len(located') <= Len(Expected')
         /\ \A j \in 1..Len(located') : located'[j] = Expected'[Len(Expected') - j + 1]
    BY <1>5, <2>3, <2>5, <2>7, <2>9
  <2>12. pc' = "locate"
    BY <1>1
  <2>13. QED
    BY <2>8, <2>9, <2>10, <2>11, <2>12 DEF IntactInv, Done
<1>12. QED
  BY <1>9, <1>10, <1>11 DEF IInv

LEMMA Reversed ==
  ASSUME NEW S, NEW q \in Seq(S)
  PROVE  /\ Reverse(q) \in Seq(S) /\ Len(Reverse(q)) = Len(q) /\ Len(q) \in Nat
         /\ DOMAIN Reverse(q) = 1..Len(q)
         /\ \A i \in 1..Len(q) : /\ Reverse(q)[i] = q[Len(q) - i + 1]
                                 /\ Len(q) - i + 1 \in 1..Len(q)
<1> DEFINE n == Len(q)
           r == [i \in 1..n |-> q[(n - i) + 1]]
<1>1. n \in Nat /\ \A i \in 1..n : (n - i) + 1 \in 1..n /\ n - i + 1 = (n - i) + 1
  OBVIOUS
<1>2. \A i \in 1..n : q[i] \in S
  OBVIOUS
<1>3. Reverse(q) = r
  BY DEF Reverse
<1> HIDE DEF n
<1>4. r \in [1..n -> S] /\ \A i \in 1..n : r[i] = q[n - i + 1]
  BY <1>1, <1>2
<1> HIDE DEF r
<1>5. r \in Seq(S) /\ Len(r) = n /\ DOMAIN r = 1..n
  BY <1>1, <1>4
<1>6. QED
  BY <1>1, <1>3, <1>4, <1>5 DEF n

LEMMA AllLocatedIInv == IInv /\ AllLocated => IInv'
<1> SUFFICES ASSUME IInv, AllLocated
             PROVE  IInv'
  OBVIOUS
<1> DEFINE n == Len(located)
<1>1. /\ pc = "locate" /\ remaining = 0 /\ payload # <<>> /\ pc' = "headers"
      /\ located' = Reverse(located)
      /\ Given /\ UNCHANGED <<remaining, parsed, keyframe, status>>
  BY DEF AllLocated, FrontToBack, Given
<1>2. /\ TypeInv /\ remaining \in 0..Len(payload) /\ located \in Slices
      /\ \A j \in DOMAIN located : End(located[j]) <= Len(payload)
      /\ parsed \in Seq(Rects) /\ status.code # "exhausted" /\ ~source.legacy
      /\ payload \in Seq(Byte) /\ Len(payload) \in Nat /\ source \in Sources
  BY <1>1, PayloadTypes DEF IInv, TypeInv, Slices
<1>3. /\ located' \in Slices /\ Len(located') = n /\ n \in Nat
      /\ DOMAIN located' = 1..n
      /\ \A i \in 1..n : located'[i] = located[n - i + 1] /\ n - i + 1 \in 1..n
  BY <1>1, <1>2, Reversed DEF Slices
<1>4. source' = source /\ payload' = payload
  BY <1>1 DEF Given
<1>5. DOMAIN located = 1..n /\ n = Len(located)
  BY <1>2 DEF Slices
<1>6. /\ remaining = IF located = <<>> THEN Len(payload) ELSE located[n].offset
      /\ \A j \in 1..n : End(located[j]) = IF j = 1 THEN Len(payload) ELSE located[j - 1].offset
  BY <1>1 DEF IInv, ScanInv
<1> HIDE DEF n
<1>7. n >= 1 /\ located[n].offset = 0
  <2>1. Len(payload) # 0
    BY <1>1, <1>2
  <2>2. located # <<>>
    BY <1>1, <1>6, <2>1
  <2>3. n # 0
    BY <1>2, <1>5, <2>2 DEF Slices
  <2>4. QED
    BY <1>1, <1>3, <1>6, <2>2, <2>3
<1>8. TypeInv'
  <2>1. \A j \in DOMAIN located' : End(located'[j]) <= Len(payload)
    BY <1>2, <1>3, <1>5
  <2>2. QED
    BY <1>1, <1>2, <1>3, <2>1, SamePayload
<1>9. Contiguous(located)'
  <2>1. located' # <<>>
    BY <1>3, <1>7
  <2>2. located'[1].offset = 0
    <3>1. 1 \in 1..n /\ n - 1 + 1 = n
      BY <1>3, <1>7
    <3>2. QED
      BY <1>3, <1>7, <3>1
  <2>3. End(located'[n]) = Len(payload)
    <3>1. n \in 1..n /\ n - n + 1 = 1 /\ 1 \in 1..n
      BY <1>3, <1>7
    <3>2. QED
      BY <1>3, <1>6, <3>1
  <2>4. ASSUME NEW i \in 2..n
        PROVE  located'[i].offset = End(located'[i - 1])
    <3> DEFINE j == n - (i - 1) + 1
    <3>1. /\ i \in 1..n /\ i - 1 \in 1..n /\ j \in 1..n /\ j # 1 /\ j - 1 = n - i + 1
      BY <1>3
    <3> HIDE DEF j
    <3>2. End(located[j]) = located[j - 1].offset
      BY <1>6, <3>1
    <3>3. located'[i - 1] = located[j] /\ located'[i] = located[j - 1]
      BY <1>3, <3>1 DEF j
    <3>4. QED
      BY <3>2, <3>3
  <2>5. End(located[Len(located)])' = End(located'[n]) /\ \A i \in 2..n : End(located[i - 1])' = End(located'[i - 1])
    BY <1>3, <1>4 DEF End
  <2>6. QED
    BY <1>3, <1>4, <2>1, <2>2, <2>3, <2>4, <2>5 DEF Contiguous
<1>10. ScanInv'
  BY <1>1, <1>9 DEF ScanInv
<1>11. IntactInv'
  <2> SUFFICES ASSUME Intact
               PROVE  IntactInv'
    BY <1>1, SameIntact DEF IntactInv
  <2> DEFINE m == Len(source.slices)
  <2>1. n = m
    BY <1>1, ScanIntact DEF n
  <2>2. Len(Expected) = m /\ Expected \in Slices
    BY <1>2, Starts DEF Slices
  <2> HIDE DEF m
  <2>3. \A j \in 1..n : located[j] = Expected[n - j + 1]
    BY <1>1, <2>1, <2>2 DEF IInv, IntactInv, n
  <2>4. ASSUME NEW i \in 1..n
        PROVE  located'[i] = Expected[i]
    <3> DEFINE j == n - i + 1
    <3>1. j \in 1..n /\ n - j + 1 = i
      BY <1>3
    <3>2. located'[i] = located[j]
      BY <1>3
    <3> HIDE DEF j
    <3>3. QED
      BY <2>3, <3>1, <3>2
  <2>5. located' = Expected
    BY <1>3, <2>1, <2>2, <2>4 DEF Slices
  <2>6. Expected' = Expected
    BY <1>4 DEF Expected, StartOf
  <2>7. ParsedInv /\ parsed = <<>>
    BY <1>1 DEF IInv, IntactInv, ScanInv
  <2>8. ParsedInv'
    BY <1>1, <1>4, <2>7 DEF ParsedInv, Rectangles
  <2>9. QED
    BY <1>1, <2>5, <2>6, <2>8 DEF IntactInv, Done
<1>12. QED
  BY <1>8, <1>10, <1>11 DEF IInv

(***************************************************************************)
(* The headers.                                                            *)
(***************************************************************************)
LEMMA HeaderTypes ==
  ASSUME TypeInv, pc = "headers", Len(parsed) < Len(located)
  PROVE  Header \in Rects
<1> DEFINE j == Len(parsed) + 1
           a == located[j].offset
           tail == FooterSize(source.ec)
<1>1. /\ payload \in Seq(Byte) /\ Len(payload) \in Nat /\ source \in Sources
      /\ located \in Slices /\ parsed \in Seq(Rects)
      /\ \A k \in DOMAIN located : End(located[k]) <= Len(payload)
  BY PayloadTypes DEF TypeInv, Slices
<1>2. j \in DOMAIN located /\ located[j] \in [offset : Nat, size : Nat]
  <2> DEFINE S == [offset : Nat, size : Nat]
  <2>1. /\ Len(located) \in Nat /\ DOMAIN located = 1..Len(located)
        /\ \A k \in 1..Len(located) : located[k] \in S
    <3> HIDE DEF S
    <3>1. located \in Seq(S)
      BY <1>1 DEF S, Slices
    <3>2. QED
      BY <3>1, MembersOfSeq
  <2>2. Len(parsed) \in Nat
    BY <1>1
  <2>3. j \in 1..Len(located)
    BY <2>1, <2>2
  <2> HIDE DEF j
  <2>4. QED
    BY <2>1, <2>3
<1>3. a \in Nat /\ located[j].size \in Nat
  BY <1>2
<1>4. tail \in Nat /\ tail >= 3
  BY <1>1, SourceTypes, FooterSizes
<1>5. a + located[j].size + tail <= Len(payload)
  BY <1>1, <1>2 DEF End
<1>6. Flagged \in {0, 1}
  BY DEF Flagged
<1> HIDE DEF a, j, tail
<1>7. a + (Flagged + 1) \in 1..Len(payload)
  BY <1>1, <1>3, <1>4, <1>5, <1>6
<1>8. HeaderAt(Flagged + 1) = payload[a + (Flagged + 1)]
  BY DEF HeaderAt, a, j
<1>9. HeaderAt(Flagged + 1) \in Byte
  BY <1>1, <1>7, <1>8
<1>10. QED
  BY <1>9, HeaderIsRect DEF Header

LEMMA RectanglesFit ==
  ASSUME NEW s \in Sources, NEW i \in 1..Len(s.slices)
  PROVE  ~OutsideRaster(s.stream, s.slices[i].rect)
<1>1. Fitting(s.stream, RectanglesOf(s))
  BY CoverAssumption, VerdictMeans
<1>2. DOMAIN RectanglesOf(s) = 1..Len(s.slices) /\ RectanglesOf(s)[i] = s.slices[i].rect
  BY RectanglesTypes
<1>3. QED
  BY <1>1, <1>2 DEF Fitting

\* What the parser reads at the front of a slice of a frame that arrives as it was sent.
LEMMA HeaderIntact ==
  ASSUME IInv, Intact, pc = "headers", Len(parsed) < Len(located)
  PROVE  /\ ~HeaderRefused
         /\ Len(parsed) + 1 <= Len(Rectangles)
         /\ Header = Rectangles[Len(parsed) + 1]
         /\ (IF Flagged = 1 THEN IsKeyframe(HeaderAt(1)) ELSE keyframe) = source.keyframe
<1> DEFINE n == Len(source.slices)
           i == Len(parsed) + 1
           a == StartOf(i)
           first == IF i = 1 THEN 1 ELSE 0
           content == Content(source, i)
           piece == Pieces(source)[i]
           rect == source.slices[i].rect
<1>1. /\ TypeInv /\ source \in Sources /\ ~source.legacy /\ payload = Assembled(source)
      /\ parsed \in Seq(Rects)
  BY PayloadTypes DEF IInv, TypeInv
<1>2. located = Expected /\ ParsedInv
  BY DEF IInv, IntactInv
<1>3. n \in Nat /\ Len(Expected) = n
  BY <1>1, Starts
<1>4. i \in 1..n
  <2>1. Len(parsed) \in Nat /\ Len(parsed) < n
    BY <1>1, <1>2, <1>3
  <2>2. QED
    BY <1>3, <2>1
<1>5. /\ a \in Nat /\ located[i].offset = a
  <2>1. \A j \in 1..n : StartOf(j) \in Nat /\ Expected[j] = [offset |-> StartOf(j), size |-> Len(Content(source, j))]
    BY <1>1, Starts
  <2> HIDE DEF i, n
  <2>2. StartOf(i) \in Nat
    BY <1>4, <2>1
  <2>3. Expected[i] = [offset |-> StartOf(i), size |-> Len(Content(source, i))]
    BY <1>4, <2>1
  <2>4. Expected[i].offset = StartOf(i)
    BY <2>3
  <2>5. QED
    BY <1>2, <2>2, <2>4
<1>6. Holds(Pieces(source), n, payload)
  BY <1>1, AssembledSlices
<1>7. \A k \in 1..Len(piece) : payload[a + k] = piece[k]
  <2> HIDE DEF i, n
  <2>1. QED
    BY <1>4, <1>6 DEF Holds, StartOf
<1>8. Completed(content, source.ec, piece)
  <2> HIDE DEF i
  <2>1. QED
    BY <1>1, <1>4, PiecesTypes
<1>9. /\ content \in Seq(Byte) /\ Len(content) \in Nat
      /\ first + 1 <= Len(content) /\ content[first + 1] = HeaderByte(rect)
      /\ i = 1 => content[1] = Flag(source)[1]
  <2> HIDE DEF i
  <2>1. QED
    BY <1>1, <1>4, ContentTypes
<1>10. Flagged = first
  BY <1>1 DEF Flagged
<1>11. \A k : HeaderAt(k) = payload[a + k]
  BY <1>5 DEF HeaderAt
<1> HIDE DEF i, a, content, piece, rect, n
<1>12. \A k \in 1..Len(content) : payload[a + k] = content[k]
  <2>1. /\ Len(piece) = Len(content) + FooterSize(source.ec)
        /\ \A k \in 1..Len(content) : piece[k] = content[k]
    BY ONLY SMT, <1>8 DEF Completed
  <2>2. FooterSize(source.ec) \in Nat
    BY <1>1, SourceTypes, FooterSizes
  <2>3. \A k \in 1..Len(content) : k \in 1..Len(piece)
    BY ONLY <1>9, <2>1, <2>2
  <2>4. QED
    BY <1>7, <2>1, <2>3
<1>13. HeaderAt(Flagged + 1) = HeaderByte(rect)
  <2>1. first + 1 \in 1..Len(content)
    BY <1>9
  <2>2. QED
    BY <1>9, <1>10, <1>11, <1>12, <2>1
<1>14. rect \in Rects /\ ~OutsideRaster(stream, rect)
  BY <1>1, <1>4, SourceTypes, RectanglesFit DEF rect, n, stream
<1>15. Header = rect
  BY <1>13, <1>14, HeaderReadBack DEF Header
<1>16. Rectangles[i] = rect /\ Len(Rectangles) = n
  BY <1>1, <1>4, RectanglesTypes DEF Rectangles, rect, n
<1>17. ASSUME Flagged = 1
       PROVE  IsKeyframe(HeaderAt(1)) = source.keyframe
  <2>1. i = 1
    BY <1>10, <1>17
  <2>2. 1 \in 1..Len(content)
    BY <1>9
  <2>3. HeaderAt(1) = Flag(source)[1]
    BY <1>9, <1>11, <1>12, <2>1, <2>2
  <2>4. QED
    BY <1>1, <2>3, FlagTypes
<1>18. ASSUME Flagged # 1
       PROVE  keyframe = source.keyframe
  <2>1. parsed # <<>>
    BY <1>18 DEF Flagged
  <2>2. QED
    BY <1>2, <2>1 DEF ParsedInv
<1>19. ~HeaderRefused
  <2>1. source.intra => source.keyframe
    BY <1>1, SourceTypes
  <2>2. QED
    BY <1>14, <1>15, <1>17, <2>1 DEF HeaderRefused
<1>20. i <= Len(Rectangles)
  BY <1>3, <1>4, <1>16 DEF n
<1>21. QED
  BY <1>15, <1>16, <1>17, <1>18, <1>19, <1>20 DEF i

\* One more rectangle of a frame that arrives as it was sent.
LEMMA OneMoreParsed ==
  ASSUME source \in Sources, ParsedInv, Given, parsed \in Seq(Rects),
         NEW r, parsed' = Append(parsed, r), Len(parsed) + 1 <= Len(Rectangles),
         r = Rectangles[Len(parsed) + 1], keyframe' = source.keyframe
  PROVE  /\ ParsedInv' /\ Len(parsed') = Len(parsed) + 1 /\ Rectangles' = Rectangles
         /\ parsed' \in Seq(Rects)
         /\ Len(parsed') = Len(Rectangles) => parsed' = Rectangles
<1> DEFINE n == Len(parsed)
           m == Len(Rectangles)
<1>1. Rectangles \in Seq(Rects) /\ m \in Nat
  BY RectanglesTypes DEF Rectangles
<1>2. Rectangles' = Rectangles /\ source' = source
  BY DEF Given, Rectangles
<1>3. n \in Nat
  OBVIOUS
<1>4. r \in Rects
  BY <1>1, <1>3, MembersOfSeq
<1>5. /\ parsed' \in Seq(Rects) /\ Len(parsed') = n + 1 /\ parsed'[n + 1] = r
      /\ \A i \in 1..n : parsed'[i] = parsed[i]
  BY <1>4, Appended
<1>6. \A i \in 1..n : parsed[i] = Rectangles[i]
  BY DEF ParsedInv
<1> DEFINE more == parsed'
<1>7. \A i \in 1..(n + 1) : parsed'[i] = Rectangles[i]
  <2> SUFFICES ASSUME NEW i \in 1..(n + 1)
               PROVE  parsed'[i] = Rectangles[i]
    OBVIOUS
  <2>1. CASE i = n + 1
    BY <1>5, <2>1
  <2>2. CASE i # n + 1
    <3>1. i \in 1..n
      BY <1>3, <2>2
    <3>2. QED
      BY <1>5, <1>6, <3>1
  <2>3. QED
    BY <2>1, <2>2
<1>8. ParsedInv'
  BY <1>2, <1>5, <1>7 DEF ParsedInv
<1>9. ASSUME n + 1 = m
      PROVE  parsed' = Rectangles
  BY <1>1, <1>5, <1>7, <1>9
<1>10. QED
  BY <1>2, <1>5, <1>8, <1>9

LEMMA ParseHeaderIInv == IInv /\ ParseHeader => IInv'
<1> SUFFICES ASSUME IInv, ParseHeader
             PROVE  IInv'
  OBVIOUS
<1>1. /\ pc = "headers" /\ Len(parsed) < Len(located) /\ pc' = pc
      /\ parsed' = Append(parsed, Header)
      /\ keyframe' = (IF Flagged = 1 THEN IsKeyframe(HeaderAt(1)) ELSE keyframe)
      /\ Given /\ UNCHANGED <<remaining, located, status>>
  BY DEF ParseHeader, Given
<1>2. /\ TypeInv /\ source \in Sources /\ remaining \in 0..Len(payload) /\ located \in Slices
      /\ \A j \in DOMAIN located : End(located[j]) <= Len(payload)
      /\ parsed \in Seq(Rects) /\ status.code # "exhausted" /\ ~source.legacy
  BY <1>1 DEF IInv, TypeInv, Slices
<1>3. Header \in Rects
  BY <1>1, <1>2, HeaderTypes
<1>4. parsed' \in Seq(Rects)
  BY <1>1, <1>2, <1>3, Appended
<1>5. TypeInv'
  BY <1>1, <1>2, <1>4, SamePayload
<1>6. source' = source /\ payload' = payload
  BY <1>1 DEF Given
<1>7. ScanInv'
  <2>1. Contiguous(located)
    BY <1>1 DEF IInv, ScanInv
  <2>2. Contiguous(located)'
    BY <1>1, <1>6, <2>1 DEF Contiguous, End
  <2>3. QED
    BY <1>1, <2>2 DEF ScanInv
<1>8. IntactInv'
  <2> SUFFICES ASSUME Intact
               PROVE  IntactInv'
    BY <1>1, SameIntact DEF IntactInv
  <2>1. /\ Len(parsed) + 1 <= Len(Rectangles) /\ Header = Rectangles[Len(parsed) + 1]
        /\ keyframe' = source.keyframe
    BY <1>1, HeaderIntact
  <2>2. ParsedInv /\ located = Expected
    BY <1>1 DEF IInv, IntactInv
  <2>3. ParsedInv'
    BY <1>1, <1>2, <2>1, <2>2, OneMoreParsed
  <2>4. located' = Expected'
    BY <1>1, <1>6, <2>2 DEF Expected, StartOf
  <2>5. QED
    BY <1>1, <2>3, <2>4 DEF IntactInv, Done
<1>9. QED
  BY <1>5, <1>7, <1>8 DEF IInv

LEMMA RefuseHeaderIInv == IInv /\ RefuseHeader => IInv'
<1> SUFFICES ASSUME IInv, RefuseHeader
             PROVE  IInv'
  OBVIOUS
<1>1. /\ pc = "headers" /\ Len(parsed) < Len(located) /\ HeaderRefused
      /\ pc' = "done" /\ status'.code = "syntax"
      /\ Given /\ UNCHANGED <<remaining, located, parsed>>
  BY DEF RefuseHeader, Return, Given
<1>2. ~Intact
  BY <1>1, HeaderIntact
<1>3. QED
  BY <1>1, <1>2, Refusal

LEMMA Verdicts ==
  ASSUME NEW s, NEW rectangles
  PROVE  Coverage!Verdict(s, rectangles) \in {"complete", "refused", "incomplete"}
BY VerdictMeans

LEMMA CheckCoverageIInv == IInv /\ CheckCoverage => IInv'
<1> SUFFICES ASSUME IInv, CheckCoverage
             PROVE  IInv'
  OBVIOUS
<1> DEFINE verdict == CoverageVerdict(parsed)
<1>1. /\ pc = "headers" /\ Len(parsed) = Len(located)
      /\ CASE verdict = "complete" -> Return("ok", -1)
           [] verdict = "refused" -> ReturnRefused(Len(parsed))
           [] OTHER -> Return("coverage", -1)
      /\ Given /\ UNCHANGED <<remaining, located, parsed, keyframe>>
  BY DEF CheckCoverage, Given
<1>2. /\ TypeInv /\ source \in Sources /\ remaining \in 0..Len(payload) /\ located \in Slices
      /\ \A j \in DOMAIN located : End(located[j]) <= Len(payload)
      /\ parsed \in Seq(Rects) /\ ~source.legacy
  BY <1>1 DEF IInv, TypeInv, Slices
<1>3. verdict = Coverage!Verdict(source.stream, parsed)
  BY DEF CoverageVerdict, stream
<1>4. verdict \in {"complete", "refused", "incomplete"}
  BY <1>3, Verdicts
<1> HIDE DEF verdict
<1>5. /\ pc' = "done" /\ status'.code \in {"ok", "coverage"}
      /\ verdict = "complete" => status'.code = "ok"
  <2>1. CASE verdict = "complete"
    <3>1. Return("ok", -1)
      BY <1>1, <2>1
    <3>2. QED
      BY <3>1 DEF Return
  <2>2. CASE verdict = "refused"
    <3>1. ReturnRefused(Len(parsed))
      BY <1>1, <2>2
    <3>2. QED
      BY <2>2, <3>1 DEF ReturnRefused, Return
  <2>3. CASE verdict = "incomplete"
    <3>1. Return("coverage", -1)
      BY <1>1, <2>3
    <3>2. QED
      BY <2>3, <3>1 DEF Return
  <2>4. QED
    BY <1>4, <2>1, <2>2, <2>3
<1>6. TypeInv'
  <2>1. pc' \in {"locate", "count", "headers", "done"} /\ status'.code # "exhausted"
    BY <1>5
  <2>2. QED
    BY <1>1, <1>2, <2>1, SamePayload
<1>7. source' = source /\ payload' = payload
  BY <1>1 DEF Given
<1>8. ScanInv'
  <2>1. Contiguous(located)
    BY <1>1 DEF IInv, ScanInv
  <2>2. Contiguous(located)'
    BY <1>1, <1>7, <2>1 DEF Contiguous, End
  <2>3. QED
    BY <1>5, <2>2 DEF ScanInv
<1>9. IntactInv'
  <2> SUFFICES ASSUME Intact
               PROVE  IntactInv'
    BY <1>1, SameIntact DEF IntactInv
  <2>1. ParsedInv /\ located = Expected
    BY <1>1 DEF IInv, IntactInv
  <2>2. /\ Len(Expected) = Len(source.slices) /\ Len(source.slices) >= 1
        /\ Len(source.slices) \in Nat
    BY <1>2, Starts
  <2>3. /\ Rectangles \in Seq(Rects) /\ Len(Rectangles) = Len(source.slices)
    BY <1>2, RectanglesTypes DEF Rectangles
  <2>4. Len(parsed) = Len(Rectangles) /\ \A i \in 1..Len(parsed) : parsed[i] = Rectangles[i]
    BY <1>1, <2>1, <2>2, <2>3 DEF ParsedInv
  <2>5. parsed = Rectangles
    BY <1>2, <2>3, <2>4
  <2>6. parsed # <<>>
    BY <2>2, <2>3, <2>4
  <2>7. keyframe = source.keyframe
    BY <2>1, <2>6 DEF ParsedInv
  <2>8. verdict = "complete"
    BY <1>2, <1>3, <2>5, CoverAssumption DEF Rectangles
  <2>9. /\ parsed' = Rectangles' /\ keyframe' = source'.keyframe /\ located' = Expected'
        /\ ParsedInv'
    <3>1. Rectangles' = Rectangles
      BY <1>7 DEF Rectangles
    <3>2. Expected' = Expected
      BY <1>7 DEF Expected, StartOf
    <3>3. pc' # "legacy"
      BY <1>5
    <3>4. ParsedInv'
      BY <1>1, <1>7, <2>1, <2>7, <3>1, <3>3 DEF ParsedInv
    <3>5. QED
      BY <1>1, <1>7, <2>1, <2>5, <2>7, <3>1, <3>2, <3>4
  <2>10. pc' = "done" /\ status'.code = "ok"
    BY <1>5, <2>8
  <2>11. QED
    BY <2>9, <2>10 DEF IntactInv
<1>10. QED
  BY <1>6, <1>8, <1>9 DEF IInv

LEMMA ReadLegacyFlagIInv == IInv /\ ReadLegacyFlag => IInv'
<1> SUFFICES ASSUME IInv, ReadLegacyFlag
             PROVE  IInv'
  OBVIOUS
<1> DEFINE refused == source.intra /\ ~IsKeyframe(payload[1])
<1>1. /\ pc = "flag" /\ payload # <<>>
      /\ IF refused THEN Return("syntax", -1) /\ UNCHANGED keyframe
         ELSE pc' = "legacy" /\ keyframe' = IsKeyframe(payload[1]) /\ UNCHANGED status
      /\ Given /\ UNCHANGED <<remaining, located, parsed>>
  BY DEF ReadLegacyFlag, Given
<1>2. /\ TypeInv /\ source \in Sources /\ remaining \in 0..Len(payload) /\ located \in Slices
      /\ \A j \in DOMAIN located : End(located[j]) <= Len(payload)
      /\ parsed \in Seq(Rects) /\ status.code # "exhausted" /\ source.legacy
  BY <1>1 DEF IInv, TypeInv, Slices
<1>3. ASSUME Intact
      PROVE  IsKeyframe(payload[1]) = source.keyframe
  <2>1. payload[1] = Flag(source)[1]
    BY <1>2, <1>3, PayloadTypes, AssembledHeaders
  <2>2. QED
    BY <1>2, <2>1, FlagTypes
<1>4. CASE refused
  <2>1. ~Intact
    BY <1>2, <1>3, <1>4, SourceTypes
  <2>2. pc' = "done" /\ status'.code = "syntax"
    BY <1>1, <1>4 DEF Return
  <2>3. QED
    BY <1>1, <2>1, <2>2, Refusal
<1>5. CASE ~refused
  <2>1. pc' = "legacy" /\ keyframe' = IsKeyframe(payload[1]) /\ status' = status
    BY <1>1, <1>5
  <2>2. TypeInv'
    BY <1>1, <1>2, <2>1, SamePayload
  <2>3. ScanInv'
    BY <2>1 DEF ScanInv, Accepted, Done
  <2>4. IntactInv'
    <3> SUFFICES ASSUME Intact
                 PROVE  IntactInv'
      BY <1>1, SameIntact DEF IntactInv
    <3>1. parsed = <<>>
      BY <1>1 DEF IInv, ScanInv
    <3>2. Len(Rectangles) = Len(source.slices) /\ Len(source.slices) >= 1 /\ Len(source.slices) \in Nat
      BY <1>2, RectanglesTypes, SomeSlice, SourceTypes DEF Rectangles
    <3>3. Rectangles' = Rectangles /\ source' = source
      BY <1>1 DEF Given, Rectangles
    <3>4. Len(parsed') = 0 /\ Len(Rectangles) >= 1 /\ Len(Rectangles) \in Nat
      BY <1>1, <3>1, <3>2
    <3>5. ParsedInv'
      BY <1>3, <2>1, <3>3, <3>4 DEF ParsedInv
    <3>6. Len(parsed') < Len(Rectangles')
      BY <3>3, <3>4
    <3>7. QED
      BY <2>1, <3>5, <3>6 DEF IntactInv, Done
  <2>5. QED
    BY <2>2, <2>3, <2>4 DEF IInv
<1>6. QED
  BY <1>4, <1>5

\* In a legacy frame that arrives as it was sent, the next byte is the next header.
LEMMA NextHeaderIntact ==
  ASSUME IInv, Intact, pc = "legacy"
  PROVE  /\ ~LegacyRefused
         /\ Len(parsed) + 1 <= Len(Rectangles)
         /\ NextLegacyHeader = Rectangles[Len(parsed) + 1]
         /\ keyframe = source.keyframe
<1> DEFINE n == Len(source.slices)
           i == Len(parsed) + 1
           rect == source.slices[i].rect
<1>1. /\ TypeInv /\ source \in Sources /\ source.legacy /\ parsed \in Seq(Rects)
  BY DEF IInv, TypeInv
<1>2. payload = Assembled(source)
  BY <1>1, PayloadTypes
<1>3. ParsedInv /\ Len(parsed) < Len(Rectangles)
  BY DEF IInv, IntactInv
<1>4. /\ n \in Nat /\ Len(Rectangles) = n /\ \A j \in 1..n : Rectangles[j] = source.slices[j].rect
  BY <1>1, RectanglesTypes, SourceTypes DEF Rectangles
<1>5. Len(parsed) \in Nat
  BY <1>1
<1>6. i \in 1..n /\ i <= Len(Rectangles)
  <2> HIDE DEF n
  <2>1. QED
    BY <1>3, <1>4, <1>5
<1>7. Len(payload) >= n + 1 /\ \A j \in 1..n : payload[j + 1] = HeaderByte(source.slices[j].rect)
  BY <1>1, <1>2, AssembledHeaders
<1>8. Len(payload) \in Nat
  BY <1>1, PayloadTypes
<1> HIDE DEF n
<1>9. i + 1 = Len(parsed) + 2 /\ Len(parsed) + 1 < Len(payload)
  BY <1>4, <1>5, <1>6, <1>7, <1>8
<1> HIDE DEF i
<1>10. payload[Len(parsed) + 2] = HeaderByte(rect)
  BY <1>6, <1>7, <1>9
<1>11. rect \in Rects /\ ~OutsideRaster(stream, rect)
  BY <1>1, <1>6, SourceTypes, RectanglesFit DEF n, stream
<1>12. NextLegacyHeader = rect
  BY <1>10, <1>11, HeaderReadBack DEF NextLegacyHeader
<1>13. Rectangles[i] = rect
  BY <1>4, <1>6
<1>14. ~LegacyRefused
  BY <1>9, <1>11, <1>12 DEF LegacyRefused
<1>15. keyframe = source.keyframe
  BY <1>3 DEF ParsedInv
<1>16. QED
  BY <1>6, <1>12, <1>13, <1>14, <1>15 DEF i

LEMMA RefuseLegacyHeaderIInv == IInv /\ RefuseLegacyHeader => IInv'
<1> SUFFICES ASSUME IInv, RefuseLegacyHeader
             PROVE  IInv'
  OBVIOUS
<1>1. /\ pc = "legacy" /\ LegacyRefused /\ pc' = "done" /\ status'.code = "syntax"
      /\ Given /\ UNCHANGED <<remaining, located, parsed>>
  BY DEF RefuseLegacyHeader, Return, Given
<1>2. ~Intact
  BY <1>1, NextHeaderIntact
<1>3. QED
  BY <1>1, <1>2, Refusal

LEMMA ParseLegacyHeaderIInv == IInv /\ ParseLegacyHeader => IInv'
<1> SUFFICES ASSUME IInv, ParseLegacyHeader
             PROVE  IInv'
  OBVIOUS
<1>0. PICK more : more = parsed'
  OBVIOUS
<1> DEFINE verdict == Coverage!Verdict(source.stream, more)
           r == NextLegacyHeader
           cells == source.stream.h * source.stream.v
<1>1. /\ pc = "legacy" /\ ~LegacyRefused
      /\ more = Append(parsed, r)
      /\ CASE verdict = "complete" -> Return("ok", -1)
           [] verdict = "refused" -> ReturnRefused(Len(more))
           [] verdict = "incomplete" /\ Len(more) = cells -> Return("exhausted", -1)
           [] OTHER -> UNCHANGED <<pc, status>>
      /\ Given /\ UNCHANGED <<remaining, located, keyframe>>
  BY <1>0 DEF ParseLegacyHeader, Given, CoverageVerdict, stream, MaximumSliceCount
<1>2. /\ TypeInv /\ source \in Sources /\ remaining \in 0..Len(payload) /\ located \in Slices
      /\ \A j \in DOMAIN located : End(located[j]) <= Len(payload)
      /\ parsed \in Seq(Rects) /\ status.code # "exhausted" /\ source.legacy
  BY <1>1 DEF IInv, TypeInv, Slices
<1>3. source.stream \in Streams
  BY <1>2, SourceTypes
<1>4. r \in Rects
  <2>1. payload \in Seq(Byte) /\ Len(payload) \in Nat
    BY <1>2, PayloadTypes
  <2>2. Len(parsed) \in Nat
    BY <1>2
  <2>3. Len(parsed) + 1 < Len(payload)
    BY <1>1 DEF LegacyRefused
  <2>4. Len(parsed) + 2 \in 1..Len(payload)
    BY <2>1, <2>2, <2>3
  <2>5. payload[Len(parsed) + 2] \in Byte
    BY <2>1, <2>4
  <2>6. QED
    BY <2>5, HeaderIsRect DEF NextLegacyHeader
<1> HIDE DEF r
<1>5. more \in Seq(Rects) /\ Len(more) = Len(parsed) + 1 /\ Len(parsed) \in Nat
  BY <1>1, <1>2, <1>4, Appended
<1>6. verdict \in {"complete", "refused", "incomplete"}
  BY Verdicts
<1>7. verdict = "incomplete" => Len(more) # cells
  <2> SUFFICES ASSUME verdict = "incomplete"
               PROVE  Len(more) # cells
    OBVIOUS
  <2>1. /\ Fitting(source.stream, more) /\ Apart(more)
        /\ AllCells(more) # Grid(source.stream)
    BY VerdictMeans
  <2>2. QED
    BY <1>3, <1>5, <2>1, Pigeonhole
<1> HIDE DEF verdict, cells
<1>8. /\ pc' \in {"legacy", "done"} /\ status'.code # "exhausted"
      /\ verdict = "complete" => pc' = "done" /\ status'.code = "ok"
      /\ verdict = "incomplete" => pc' = "legacy"
  <2>1. CASE verdict = "complete"
    <3>1. Return("ok", -1)
      BY <1>1, <2>1
    <3>2. QED
      BY <2>1, <3>1 DEF Return
  <2>2. CASE verdict = "refused"
    <3>1. ReturnRefused(Len(more))
      BY <1>1, <2>2
    <3>2. QED
      BY <2>2, <3>1 DEF ReturnRefused, Return
  <2>3. CASE verdict = "incomplete"
    <3>1. UNCHANGED <<pc, status>>
      BY <1>1, <1>7, <2>3
    <3>2. QED
      BY <1>1, <1>2, <2>3, <3>1
  <2>4. QED
    BY <1>6, <2>1, <2>2, <2>3
<1>9. TypeInv'
  BY <1>0, <1>1, <1>2, <1>5, <1>8, SamePayload
<1>10. source' = source
  BY <1>1 DEF Given
<1>11. ScanInv'
  BY <1>2, <1>8, <1>10 DEF ScanInv, Accepted
<1>12. IntactInv'
  <2> SUFFICES ASSUME Intact
               PROVE  IntactInv'
    BY <1>1, SameIntact DEF IntactInv
  <2>1. /\ Len(parsed) + 1 <= Len(Rectangles) /\ r = Rectangles[Len(parsed) + 1]
        /\ keyframe = source.keyframe
    BY <1>1, NextHeaderIntact DEF r
  <2>2. ParsedInv
    BY DEF IInv, IntactInv
  <2>3. parsed' = Append(parsed, r) /\ keyframe' = source.keyframe
    BY <1>0, <1>1, <2>1
  <2>4. /\ ParsedInv' /\ Len(parsed') = Len(parsed) + 1 /\ Rectangles' = Rectangles
        /\ Len(parsed') = Len(Rectangles) => parsed' = Rectangles
    BY <1>1, <1>2, <2>1, <2>2, <2>3, OneMoreParsed
  <2>5. Rectangles \in Seq(Rects) /\ Len(Rectangles) \in Nat
    BY <1>2, RectanglesTypes DEF Rectangles
  <2>6. Coverage!Verdict(source.stream, Rectangles) = "complete"
    BY <1>2, CoverAssumption DEF Rectangles
  <2>7. CASE Len(more) = Len(Rectangles)
    <3>1. more = Rectangles
      BY <1>0, <2>4, <2>7
    <3>2. pc' = "done" /\ status'.code = "ok"
      BY <1>8, <2>6, <3>1 DEF verdict
    <3>3. parsed' = Rectangles' /\ keyframe' = source'.keyframe /\ source'.legacy
      BY <1>0, <1>2, <1>10, <2>3, <2>4, <3>1
    <3>4. QED
      BY <2>4, <3>2, <3>3 DEF IntactInv
  <2>8. CASE Len(more) # Len(Rectangles)
    <3>1. Len(more) < Len(Rectangles)
      BY <1>5, <2>1, <2>5, <2>8
    <3>2. \A i \in 1..Len(more) : more[i] = Rectangles[i]
      BY <1>0, <2>4 DEF ParsedInv
    <3>3. verdict = "incomplete"
      BY <1>3, <1>5, <2>5, <2>6, <3>1, <3>2, PrefixIncomplete DEF verdict
    <3>4. pc' = "legacy"
      BY <1>8, <3>3
    <3>5. Len(parsed') < Len(Rectangles')
      BY <1>0, <2>4, <3>1
    <3>6. QED
      BY <2>4, <3>4, <3>5 DEF IntactInv, Done
  <2>9. QED
    BY <2>7, <2>8
<1>13. QED
  BY <1>9, <1>11, <1>12 DEF IInv

LEMMA StutterIInv == IInv /\ UNCHANGED vars => IInv'
<1> SUFFICES ASSUME IInv, UNCHANGED vars
             PROVE  IInv'
  OBVIOUS
<1>1. /\ source' = source /\ transport' = transport /\ payload' = payload /\ pc' = pc
      /\ remaining' = remaining /\ located' = located /\ parsed' = parsed
      /\ keyframe' = keyframe /\ status' = status
  BY DEF vars
<1>2. TypeInv'
  BY <1>1 DEF IInv, TypeInv, End
<1>3. ScanInv'
  BY <1>1 DEF IInv, ScanInv, Accepted, Done, Contiguous, End
<1>4. Rectangles' = Rectangles /\ Expected' = Expected /\ Intact' = Intact
  BY <1>1 DEF Rectangles, Expected, StartOf, Intact, Complete
<1>5. IntactInv'
  BY <1>1, <1>4 DEF IInv, IntactInv, ParsedInv, Done, StartOf
<1>6. QED
  BY <1>2, <1>3, <1>5 DEF IInv

\* Every step of the parser keeps the invariant.
LEMMA StepIInv == IInv /\ [Next]_vars => IInv'
<1> SUFFICES ASSUME IInv, [Next]_vars
             PROVE  IInv'
  OBVIOUS
<1>1. CASE RefuseEmpty
  BY <1>1, RefuseEmptyIInv
<1>2. CASE LocateSlice
  BY <1>2, LocateSliceIInv
<1>3. CASE RefuseFooter
  BY <1>3, RefuseFooterIInv
<1>4. CASE TooManySlices
  BY <1>4, TooManySlicesIInv
<1>5. CASE FindMismatch
  BY <1>5, FindMismatchIInv
<1>6. CASE CountSlice
  BY <1>6, CountSliceIInv
<1>7. CASE CountFails \/ NameMismatch
  BY <1>7, CountFailsIInv
<1>8. CASE AllLocated
  BY <1>8, AllLocatedIInv
<1>9. CASE ParseHeader
  BY <1>9, ParseHeaderIInv
<1>10. CASE RefuseHeader
  BY <1>10, RefuseHeaderIInv
<1>11. CASE CheckCoverage
  BY <1>11, CheckCoverageIInv
<1>12. CASE ReadLegacyFlag
  BY <1>12, ReadLegacyFlagIInv
<1>13. CASE ParseLegacyHeader
  BY <1>13, ParseLegacyHeaderIInv
<1>14. CASE RefuseLegacyHeader
  BY <1>14, RefuseLegacyHeaderIInv
<1>15. CASE UNCHANGED vars
  BY <1>15, StutterIInv
<1>16. QED
  BY <1>1, <1>2, <1>3, <1>4, <1>5, <1>6, <1>7, <1>8, <1>9, <1>10, <1>11, <1>12, <1>13, <1>14,
     <1>15 DEF Next

\* The inductive invariant: the slices found so far fill the frame from its end, and those of
\* a frame that arrives as it was sent are the last ones that were put into it.
THEOREM AlwaysIInv == Spec => []IInv
<1>1. QED
  BY InitIInv, StepIInv, PTL DEF Spec

\* Type correctness: a scan never leaves the payload (slice_payload_locator.cpp:59), and legacy
\* headers never run out of cells (frame_parser.cpp:389).
THEOREM TypeCorrect == Spec => []TypeInv
<1>1. IInv => TypeInv
  BY DEF IInv
<1>2. QED
  BY <1>1, AlwaysIInv, PTL

\* FrameParser::parse takes every frame that arrives as it was sent apart into the slices it was
\* made of, whatever their bytes look like, with footers and without (frame_parser.cpp:389).
THEOREM SlicesAreRecovered == Spec => []SlicesRecovered
<1>1. IInv => SlicesRecovered
  BY DEF IInv, TypeInv, IntactInv, Intact, SlicesRecovered
<1>2. QED
  BY <1>1, AlwaysIInv, PTL

\* An accepted frame is made of its slices and nothing else, whatever happened to it
\* (frame_parser.cpp:495).
THEOREM AcceptedFramesAreWhole == Spec => []NothingBetween
<1>1. IInv => NothingBetween
  BY DEF IInv, ScanInv, NothingBetween
<1>2. QED
  BY <1>1, AlwaysIInv, PTL
==============================================================================
