------------------------------ MODULE GolombRice ------------------------------
(***************************************************************************)
(* The Golomb-Rice symbols of a sample difference: an adaptive context     *)
(* chooses the parameter k and a bias, and the corrected difference is     *)
(* folded and written as a prefix of zeros, a one and k bits, or as twelve *)
(* zeros and an escape field.  A codeword is kept as the number of zeros,  *)
(* and the width and the value of the field behind them.                   *)
(***************************************************************************)
EXTENDS Integers

EscapePrefix == 12
MaxCount == 128
Parameters == 0..31

Absolute(n) == IF n < 0 THEN -n ELSE n
AtLeast(n, bound) == IF n < bound THEN bound ELSE n
AtMost(n, bound) == IF n > bound THEN bound ELSE n

NewContext == [drift |-> 0, error_sum |-> 4, bias |-> 0, count |-> 1]
-----------------------------------------------------------------------------
Suffices(context, k) == context.error_sum <= context.count * 2^k

\* validate_state refuses the context, or derive_k finds no parameter for it.
Refused(context) ==
  \/ context.count \notin 1..MaxCount
  \/ context.error_sum < 0
  \/ context.bias \notin -128..127
  \/ \A k \in Parameters : ~Suffices(context, k)

DeriveK(context) ==
  CHOOSE k \in Parameters :
    /\ Suffices(context, k)
    /\ \A smaller \in 0..(k - 1) : ~Suffices(context, smaller)

\* sign_extend to the bits whose sign bit has the weight half.
SignExtend(value, half) == ((value + half) % (2 * half)) - half

Halved(context) ==
  IF context.count = MaxCount
  THEN [context EXCEPT !.count = @ \div 2, !.drift = @ \div 2, !.error_sum = @ \div 2]
  ELSE context

\* Deviation: the drift is not clamped after its correction.
RebalancedOnce(context) ==
  CASE context.drift <= -context.count ->
         [context EXCEPT !.bias = AtLeast(@ - 1, -128), !.drift = @ + context.count]
    [] context.drift > 0 ->
         [context EXCEPT !.bias = AtMost(@ + 1, 127), !.drift = @ - context.count]
    [] OTHER -> context

\* The drift is kept within one count, and each excess moves the bias by one.
Rebalanced(context) ==
  CASE context.drift <= -context.count ->
         [context EXCEPT !.bias = AtLeast(@ - 1, -128),
                         !.drift = AtLeast(@ + context.count, 1 - context.count)]
    [] context.drift > 0 ->
         [context EXCEPT !.bias = AtMost(@ + 1, 127),
                         !.drift = AtMost(@ - context.count, 0)]
    [] OTHER -> context

UpdateState(context, value) ==
  LET summed == [context EXCEPT !.error_sum = @ + Absolute(value), !.drift = @ + value]
  IN Rebalanced([Halved(summed) EXCEPT !.count = @ + 1])
-----------------------------------------------------------------------------
Fold(value) == IF value < 0 THEN -2 * value - 1 ELSE 2 * value

Unfold(folded) == IF folded % 2 = 1 THEN -(folded \div 2) - 1 ELSE folded \div 2

UnsignedCode(value, k, bits) ==
  IF value < EscapePrefix * 2^k
  THEN [zeros |-> value \div 2^k, width |-> k, field |-> value % 2^k]
  ELSE [zeros |-> EscapePrefix, width |-> bits, field |-> value - (EscapePrefix - 1)]

\* write_bits refuses a value that is too wide for its field.
Fits(code) == 0 <= code.field /\ code.field < 2^code.width

\* What read_unsigned makes of a codeword, with the reader's own k.
UnsignedValue(code, k) ==
  IF code.zeros < EscapePrefix THEN code.zeros * 2^k + code.field
  ELSE code.field + EscapePrefix - 1

\* Both sides invert the corrected difference of a context that drifts below zero.
Inverted(context, value) ==
  IF 2 * context.drift < -context.count THEN -1 - value ELSE value

\* Deviation: the corrected difference is not wrapped.
AdaptiveUnwrapped(context, value, half) == value - context.bias

Adaptive(context, value, half) == SignExtend(value - context.bias, half)

\* write_golomb_rice_symbol: the codeword and the context after it.
WriteSymbol(context, value, half, bits) ==
  LET adaptive == Adaptive(context, value, half)
  IN [code |-> UnsignedCode(Fold(Inverted(context, adaptive)), DeriveK(context), bits),
      context |-> UpdateState(context, adaptive)]

\* read_golomb_rice_symbol.
ReadSymbol(context, code, half) ==
  LET value == Inverted(context, Unfold(UnsignedValue(code, DeriveK(context))))
  IN [value |-> SignExtend(value + context.bias, half),
      context |-> UpdateState(context, value)]

\* The difference behind a run is never zero, so the positive ones move down by one.
ToInterruption(value) == IF value > 0 THEN value - 1 ELSE value

\* Deviation: a coded zero stays a zero.
FromInterruptionKeepingZero(value) == IF value > 0 THEN value + 1 ELSE value

FromInterruption(value) == IF value >= 0 THEN value + 1 ELSE value
=============================================================================
