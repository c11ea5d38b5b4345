------------------------------ MODULE BitStream ------------------------------
(***************************************************************************)
(* BitWriter and BitReader: bits, the most significant bit of a byte       *)
(* first.  A stream is the sequence of its bits, a position their number.  *)
(***************************************************************************)
EXTENDS Integers, SequencesExt

\* write_bits: the bits of value from the highest of width on.
BitsOf(value, width) == [i \in 1..width |-> (value \div 2^(width - i)) % 2]

\* byte_align_zero.
Aligned(bits) ==
  IF Len(bits) % 8 = 0 THEN bits ELSE bits \o BitsOf(0, 8 - (Len(bits) % 8))

\* Fewer bits are left than are to be read.
Underflow(bits, position, width) == Len(bits) - position < width

\* read_bits.
BitsAt(bits, position, width) ==
  LET value[i \in 0..width] == IF i = 0 THEN 0 ELSE 2 * value[i - 1] + bits[position + i]
  IN value[width]

\* byte_align.
AlignedPosition(position) ==
  IF position % 8 = 0 THEN position ELSE position + 8 - (position % 8)
=============================================================================
