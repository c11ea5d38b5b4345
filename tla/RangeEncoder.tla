---------------------------- MODULE RangeEncoder ----------------------------
(***************************************************************************)
(* RangeEncoder: the interval it narrows and the bytes of its lower bound. *)
(***************************************************************************)
EXTENDS RangeCoding

VARIABLES
  enc        \* range_, low_bytes_ and scalar_contexts_

EncoderStates ==
  [range : 256..MaxRange, low_bytes : Seq(Byte), states : [Contexts -> [Slots -> Live]]]

\* Deviation: the range of sixteen bits.
EncoderResetFull(states) ==
  [range |-> 65536, low_bytes |-> <<0, 0>>, states |-> states]

EncoderReset(states) == [range |-> MaxRange, low_bytes |-> <<0, 0>>, states |-> states]

\* The last two bytes with a value added to them; a value has sixteen bits.
TailSum(bytes, value) == 256 * bytes[Len(bytes) - 1] + bytes[Len(bytes)] + value

\* What leaves the last two bytes runs through the bytes 255 before them.
CarryReaches(bytes, value, i) ==
  /\ TailSum(bytes, value) >= 65536
  /\ \A j \in (i + 1)..(Len(bytes) - 2) : bytes[j] = 255

\* Deviation: what leaves the last two bytes is lost.
AddToLowWithoutCarry(bytes, value) ==
  [i \in 1..Len(bytes) |->
     CASE i = Len(bytes)     -> TailSum(bytes, value) % 256
       [] i = Len(bytes) - 1 -> (TailSum(bytes, value) \div 256) % 256
       [] OTHER              -> bytes[i]]

AddToLow(bytes, value) ==
  [i \in 1..Len(bytes) |->
     CASE i = Len(bytes)     -> TailSum(bytes, value) % 256
       [] i = Len(bytes) - 1 -> (TailSum(bytes, value) \div 256) % 256
       [] OTHER -> IF CarryReaches(bytes, value, i) THEN (bytes[i] + 1) % 256 ELSE bytes[i]]

\* "range encoder lower bound exceeded its precision"
Overflows(bytes, value) == CarryReaches(bytes, value, 0)

\* What write_rac makes of a coder.
Narrowed(coder, context, decision) ==
  LET state == coder.states[context][decision.slot]
      one == OneRange(coder.range, state)
      range == IF decision.bit THEN one ELSE coder.range - one
      bytes == IF decision.bit THEN AddToLow(coder.low_bytes, coder.range - one)
               ELSE coder.low_bytes
  IN [range     |-> IF TooSmall(range) THEN range * 256 ELSE range,
      low_bytes |-> IF TooSmall(range) THEN Append(bytes, 0) ELSE bytes,
      states    |-> Adapted(coder.states, context, decision.slot, decision.bit)]

WriteRac(context, decision) == enc' = Narrowed(enc, context, decision)
-----------------------------------------------------------------------------
LastByte == enc.low_bytes[Len(enc.low_bytes)]

\* A value in the middle of the interval whose last byte is zero.
ClosingDelta ==
  LET toZero == (256 - LastByte) % 256
      target == enc.range \div 2
      below == IF toZero <= target THEN toZero + 256 * ((target - toZero) \div 256) ELSE toZero
  IN IF below + 256 < enc.range /\ target - below > below + 256 - target
     THEN below + 256 ELSE below

\* finalize_closed: the zero byte need not be sent.
ClosedBytes ==
  LET bytes == AddToLow(enc.low_bytes, ClosingDelta)
  IN IF Len(bytes) > 2 /\ bytes[Len(bytes)] = 0 THEN SubSeq(bytes, 1, Len(bytes) - 1) ELSE bytes

\* finalize
ExactBytes == enc.low_bytes
=============================================================================
