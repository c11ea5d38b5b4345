----------------------------- MODULE RangeCoding -----------------------------
(***************************************************************************)
(* What RangeEncoder and RangeCoder share: the adaptive states, the split  *)
(* of the range and the binarisation of symbols.                           *)
(***************************************************************************)
EXTENDS Integers, Sequences

CONSTANTS
  StateTransition,    \* the table in use
  Contexts,           \* the scalar contexts a slice is coded with
  MaxExponent         \* the largest exponent read_symbol accepts: at most 62, its value in the code

Byte == 0..255
Slots == 0..31
Live == 8..248        \* the states an adaptive state of the default table takes
MaxRange == 65280
DefaultState == 128

ASSUME CodingAssumption ==
  /\ StateTransition \in [Byte -> Byte]
  /\ \A s \in Live : StateTransition[s] \in Live
  /\ MaxExponent \in 0..62

NextState(state, bit) ==
  IF bit THEN StateTransition[state]
  ELSE IF state = 0 THEN 0 ELSE (256 - StateTransition[256 - state]) % 256

\* The part of the range that stands for a one; the rest stands for a zero.
OneRange(range, state) == (range * state) \div 256

\* Deviation: one bit too late.
TooSmallLate(range) == range < 128

\* Both coders renormalise a range of less than eight bits.
TooSmall(range) == range < 256

DefaultStates == [slot \in Slots |-> DefaultState]

Adapted(states, context, slot, bit) ==
  [states EXCEPT ![context][slot] = NextState(@, bit)]
-----------------------------------------------------------------------------
AtMost(n, bound) == IF n < bound THEN n ELSE bound

\* A symbol as it is written: a bool, or a scalar with or without a sign.
Kinds == {"bool", "unsigned", "signed"}

Magnitude(n) == IF n < 0 THEN -n ELSE n

\* 2^n
Power[n \in 0..(MaxExponent + 1)] == IF n = 0 THEN 1 ELSE 2 * Power[n - 1]

HasExponent(n, e) == Power[e] <= n /\ n < Power[e + 1]

\* The values read_symbol accepts back.
Codable(value) == value = 0 \/ \E e \in 0..MaxExponent : HasExponent(Magnitude(value), e)

Exponent(n) == CHOOSE e \in 0..MaxExponent : HasExponent(n, e)

Decision(slot, bit) == [slot |-> slot, bit |-> bit]

Decisions(symbol) ==
  LET m == Magnitude(symbol.value)
      e == Exponent(m)
  IN IF symbol.kind = "bool" \/ m = 0
     THEN <<Decision(0, (symbol.value = 0) = (symbol.kind # "bool"))>>
     ELSE <<Decision(0, FALSE)>>
            \o [i \in 1..e |-> Decision(1 + AtMost(i - 1, 9), TRUE)]
            \o <<Decision(1 + AtMost(e, 9), FALSE)>>
            \o [i \in 1..e |-> Decision(22 + AtMost(e - i, 9), (m \div Power[e - i]) % 2 = 1)]
            \o (IF symbol.kind = "signed"
                THEN <<Decision(11 + AtMost(e, 10), symbol.value < 0)>> ELSE <<>>)

(***************************************************************************)
(* read_symbol, one decision at a time: where it is and what it knows.     *)
(***************************************************************************)
Stages == {"zero", "exponent", "mantissa", "sign", "done", "error"}

StartOfSymbol(kind) ==
  [stage |-> "zero", kind |-> kind, exponent |-> 0, index |-> 0, value |-> 0]

SlotOf(parse) ==
  CASE parse.stage = "exponent" -> 1 + AtMost(parse.exponent, 9)
    [] parse.stage = "mantissa" -> 22 + AtMost(parse.index, 9)
    [] parse.stage = "sign"     -> 11 + AtMost(parse.exponent, 10)
    [] OTHER                    -> 0

\* The magnitude is complete.
Completed(parse, magnitude) ==
  [parse EXCEPT !.value = magnitude,
                !.stage = IF parse.kind = "signed" THEN "sign" ELSE "done"]

AfterZero(parse, bit) ==
  CASE parse.kind = "bool" -> [parse EXCEPT !.stage = "done", !.value = IF bit THEN 1 ELSE 0]
    [] parse.kind # "bool" /\ bit -> [parse EXCEPT !.stage = "done", !.value = 0]
    [] OTHER -> [parse EXCEPT !.stage = "exponent"]

AfterExponent(parse, bit) ==
  CASE bit /\ parse.exponent < MaxExponent -> [parse EXCEPT !.exponent = @ + 1]
    [] bit /\ parse.exponent >= MaxExponent -> [parse EXCEPT !.stage = "error"]
    [] ~bit /\ parse.exponent = 0 -> Completed(parse, 1)
    [] OTHER -> [parse EXCEPT !.stage = "mantissa", !.index = parse.exponent - 1, !.value = 1]

AfterMantissa(parse, bit) ==
  LET magnitude == 2 * parse.value + (IF bit THEN 1 ELSE 0)
  IN IF parse.index = 0 THEN Completed(parse, magnitude)
     ELSE [parse EXCEPT !.value = magnitude, !.index = @ - 1]

Parsed(parse, bit) ==
  CASE parse.stage = "zero"     -> AfterZero(parse, bit)
    [] parse.stage = "exponent" -> AfterExponent(parse, bit)
    [] parse.stage = "mantissa" -> AfterMantissa(parse, bit)
    [] OTHER -> [parse EXCEPT !.stage = "done", !.value = IF bit THEN -@ ELSE @]
=============================================================================
