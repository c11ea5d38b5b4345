----------------------------- MODULE RangeCoder -----------------------------
(***************************************************************************)
(* RangeCoder: the decoder of the range coder, over one payload at a time. *)
(***************************************************************************)
EXTENDS RangeCoding

VARIABLES
  payload,   \* payload_
  dec,       \* range_, low_, byte_position_, end_ and scalar_contexts_
  parse      \* the symbol that is being read

DecoderStates ==
  [range : 256..MaxRange, low : Nat, byte_position : Nat, end : BOOLEAN,
   states : [Contexts -> [Slots -> Live]]]

\* reset of a payload with at least two bytes
DecoderReset(bytes, states) ==
  LET low == 256 * bytes[1] + bytes[2]
      saturated == low >= MaxRange
  IN [range |-> MaxRange,
      low |-> IF saturated THEN MaxRange ELSE low,
      byte_position |-> 2,
      end |-> Len(bytes) <= 2 \/ saturated,
      states |-> states]

\* Deviation: past the end of the payload, its last byte is read again.
RefillRepeating(range, low) ==
  LET next == AtMost(dec.byte_position + 1, Len(payload))
  IN [range |-> range * 256, low |-> low * 256 + payload[next],
      byte_position |-> next, end |-> dec.end]

\* refill, for a range that became too small; past the end there are zeros.
Refill(range, low) ==
  LET read == ~dec.end /\ dec.byte_position < Len(payload)
      position == IF read THEN dec.byte_position + 1 ELSE dec.byte_position
  IN [range |-> range * 256,
      low |-> low * 256 + IF read THEN payload[position] ELSE 0,
      byte_position |-> position,
      end |-> dec.end \/ position >= Len(payload)]

Kept(range, low) ==
  [range |-> range, low |-> low, byte_position |-> dec.byte_position, end |-> dec.end]

\* read_rac, with the arithmetic of version 1 and later, and what read_symbol
\* makes of the bit.
ReadRac(context) ==
  LET slot == SlotOf(parse)
      one == OneRange(dec.range, dec.states[context][slot])
      bit == dec.low >= dec.range - one
      range == IF bit THEN one ELSE dec.range - one
      low == IF bit THEN dec.low - (dec.range - one) ELSE dec.low
      interval == IF TooSmall(range) THEN Refill(range, low) ELSE Kept(range, low)
  IN /\ dec' = [range |-> interval.range, low |-> interval.low,
                byte_position |-> interval.byte_position, end |-> interval.end,
                states |-> Adapted(dec.states, context, slot, bit)]
     /\ parse' = Parsed(parse, bit)
=============================================================================
