----------------------------- MODULE SampleCoding -----------------------------
(***************************************************************************)
(* From samples to differences and back: the neighbours of a sample in     *)
(* LineState, the median prediction, the quantized context, the wrapped    *)
(* difference and the reversible colour transform.                         *)
(***************************************************************************)
EXTENDS Integers, Sequences

Smaller(a, b) == IF a < b THEN a ELSE b
Larger(a, b) == IF a < b THEN b ELSE a
-----------------------------------------------------------------------------
\* LineState: the lines of a plane, counted from 1; a line outside is all border.
ResetLine(width, border) ==
  LET empty == [x \in 1..width |-> border]
  IN [border |-> border, current |-> empty, previous |-> empty, second_previous |-> empty]

SwapLines(line) ==
  [line EXCEPT !.second_previous = line.previous,
               !.previous = line.current,
               !.current = [x \in DOMAIN line.current |-> line.border]]

Neighbors(line, x) ==
  [far_left  |-> CASE x > 2 -> line.current[x - 2]
                   [] x = 2 -> line.previous[1]
                   [] OTHER -> line.border,
   left      |-> IF x > 1 THEN line.current[x - 1] ELSE line.previous[1],
   top       |-> line.previous[x],
   top_left  |-> IF x > 1 THEN line.previous[x - 1] ELSE line.second_previous[1],
   top_right |-> line.previous[IF x < Len(line.current) THEN x + 1 ELSE x],
   top_top   |-> line.second_previous[x]]
-----------------------------------------------------------------------------
Median(a, b, c) == Larger(Smaller(a, b), Smaller(Larger(a, b), c))

AsSigned16(sample) == IF sample >= 32768 THEN sample - 65536 ELSE sample

Prediction(neighbors, signed16) ==
  LET At(sample) == IF signed16 THEN AsSigned16(sample) ELSE sample
      left == At(neighbors.left)
      top == At(neighbors.top)
  IN Median(left, top, left + top - At(neighbors.top_left))

\* context_input_index keeps eight bits of a gradient.
Quantized(table, gradient) == table[gradient % 256]

\* The folded context and whether the difference is coded negated.
Context(tables, n) ==
  LET sum == Quantized(tables[1], n.left - n.top_left)
             + Quantized(tables[2], n.top_left - n.top)
             + Quantized(tables[3], n.top - n.top_right)
             + Quantized(tables[4], n.far_left - n.left)
             + Quantized(tables[5], n.top_top - n.top)
  IN [number |-> IF sum < 0 THEN -sum ELSE sum, inverted |-> sum < 0]

\* The difference modulo 2^bits, from -2^(bits-1) on.
SampleDifference(sample, prediction, bits) ==
  LET half == 2^(bits - 1)
  IN ((sample - prediction + half) % (2 * half)) - half

Reconstructed(prediction, difference, bits) == (prediction + difference) % 2^bits

Negated(context, difference) == IF context.inverted THEN -difference ELSE difference
-----------------------------------------------------------------------------
\* FFmpeg's order of green and blue for 9 to 15 bits without an extra plane.
SwapsGreenAndBlue(bits, extra) == bits \in 9..15 /\ ~extra

\* forward_jpeg2000_rct of <<r, g, b>>; a shift of a negative number rounds down.
ForwardTransform(rgb, bits, extra) ==
  LET base == IF SwapsGreenAndBlue(bits, extra) THEN rgb[3] ELSE rgb[2]
      other == IF SwapsGreenAndBlue(bits, extra) THEN rgb[2] ELSE rgb[3]
      cb == other - base
      cr == rgb[1] - base
  IN <<(base + (cb + cr) \div 4) % 2^(bits + 1), cb + 2^bits, cr + 2^bits>>

\* Deviation: the inverse always takes green for the base.
InverseTransformGreen(coded, bits, extra) ==
  LET cb == coded[2] - 2^bits
      cr == coded[3] - 2^bits
      base == coded[1] - (cb + cr) \div 4
      Raw(sample) == sample % 2^bits
  IN <<Raw(cr + base), Raw(base), Raw(cb + base)>>

\* inverse_jpeg2000_rct.
InverseTransform(coded, bits, extra) ==
  LET cb == coded[2] - 2^bits
      cr == coded[3] - 2^bits
      base == coded[1] - (cb + cr) \div 4
      Raw(sample) == sample % 2^bits
  IN IF SwapsGreenAndBlue(bits, extra)
     THEN <<Raw(cr + base), Raw(cb + base), Raw(base)>>
     ELSE <<Raw(cr + base), Raw(base), Raw(cb + base)>>
=============================================================================
