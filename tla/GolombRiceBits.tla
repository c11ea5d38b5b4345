---------------------------- MODULE GolombRiceBits ----------------------------
(***************************************************************************)
(* A Golomb-Rice slice as its bits: the codewords of differences, and runs *)
(* of samples that equal their prediction.  The index into a table of run  *)
(* lengths goes up after each full run and down after a partial one; a     *)
(* partial run that is longer than the row leaves a pending count.         *)
(***************************************************************************)
EXTENDS BitStream, GolombRice

\* write_unsigned.
CodeBits(code) ==
  BitsOf(0, code.zeros) \o (IF code.zeros < EscapePrefix THEN <<1>> ELSE <<>>)
  \o BitsOf(code.field, code.width)

\* The zeros of the next codeword, as far as there are bits.
Zeros(bits, position) ==
  LET ones == {n \in 0..(EscapePrefix - 1) :
                 position + n < Len(bits) /\ bits[position + n + 1] = 1}
  IN IF ones = {} THEN EscapePrefix ELSE Min(ones)

\* read_unsigned: where the field of the next codeword starts, and its width.
FieldStart(zeros, position) == position + zeros + IF zeros < EscapePrefix THEN 1 ELSE 0

FieldWidth(zeros, k, bits_per_sample) == IF zeros < EscapePrefix THEN k ELSE bits_per_sample

CodeThere(bits, position, k, bits_per_sample) ==
  LET zeros == Zeros(bits, position)
  IN ~Underflow(bits, FieldStart(zeros, position), FieldWidth(zeros, k, bits_per_sample))

NextCode(bits, position, k, bits_per_sample) ==
  LET zeros == Zeros(bits, position)
      start == FieldStart(zeros, position)
      width == FieldWidth(zeros, k, bits_per_sample)
  IN [zeros |-> zeros, width |-> width, field |-> BitsAt(bits, start, width),
      position |-> start + width]
-----------------------------------------------------------------------------
kLog2Run ==
  <<0, 0, 0, 0, 1, 1, 1, 1, 2, 2, 2, 2, 3, 3, 3, 3, 4, 4, 5, 5, 6, 6, 7, 7,
    8, 9, 10, 11, 12, 13, 14, 15, 16, 17, 18, 19, 20, 21, 22, 23, 24>>

NewRun == [run_index |-> 0, pending_count |-> 0]

Log2Run(index) == kLog2Run[index + 1]

FullRun(index) == 2^Log2Run(index)

Lower(index) == IF index = 0 THEN 0 ELSE index - 1

\* The samples covered by n full runs from an index on.
Covered(index, n) ==
  LET sum[m \in 0..n] == IF m = 0 THEN 0 ELSE sum[m - 1] + FullRun(index + m - 1)
  IN sum[n]

\* write_golomb_rice_run for count samples of the left ones of a row: full runs as long
\* as they fit, then a partial one unless a full run ended with the row.
WrittenRun(index, left, count) ==
  LET n == CHOOSE n \in 0..(Len(kLog2Run) - 1 - index) :
             Covered(index, n) <= count /\ count < Covered(index, n + 1)
      rest == count - Covered(index, n)
      full == [i \in 1..n |-> 1]
  IN IF n > 0 /\ rest = 0 /\ count = left
     THEN [run_index |-> index + n, bits |-> full]
     ELSE [run_index |-> Lower(index + n),
           bits |-> full \o <<0>> \o BitsOf(rest, Log2Run(index + n))]
-----------------------------------------------------------------------------
\* One segment of a run as the reader finds it: copied samples, those left for later
\* rows, whether a coded difference follows, the index and the position after it.
Segment(count, pending, interrupted, index, position) ==
  [count |-> count, pending |-> pending, interrupted |-> interrupted, run_index |-> index,
   position |-> position]

PendingSegment(run, left, position) ==
  LET count == AtMost(run.pending_count, left)
  IN Segment(count, run.pending_count - count, FALSE, run.run_index, position)

\* The bits of the next segment are there.
SegmentThere(bits, position, run) ==
  /\ ~Underflow(bits, position, 1)
  /\ bits[position + 1] = 1 \/ ~Underflow(bits, position + 1, Log2Run(run.run_index))

\* Deviation: a full run that ends with the row does not raise the index.
FullSegmentWithin(run, left, position) ==
  IF FullRun(run.run_index) < left
  THEN Segment(FullRun(run.run_index), 0, FALSE, run.run_index + 1, position + 1)
  ELSE Segment(left, 0, FALSE, run.run_index, position + 1)

FullSegment(run, left, position) ==
  IF FullRun(run.run_index) <= left
  THEN Segment(FullRun(run.run_index), 0, FALSE, run.run_index + 1, position + 1)
  ELSE Segment(left, 0, FALSE, run.run_index, position + 1)

\* Deviation: what a partial run has beyond the row is dropped.
PartialSegmentCut(run, rest, left, position) ==
  Segment(AtMost(rest, left), 0, rest <= left, Lower(run.run_index), position)

PartialSegment(run, rest, left, position) ==
  IF rest > left
  THEN Segment(left, rest - left, FALSE, Lower(run.run_index), position)
  ELSE Segment(rest, 0, TRUE, Lower(run.run_index), position)

\* read_golomb_rice_run_segment behind the pending count.
ReadSegment(bits, position, run, left) ==
  IF bits[position + 1] = 1
  THEN FullSegment(run, left, position)
  ELSE LET width == Log2Run(run.run_index)
       IN PartialSegment(run, BitsAt(bits, position + 1, width), left, position + 1 + width)
=============================================================================
