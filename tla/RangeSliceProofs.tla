-------------------------- MODULE RangeSliceProofs --------------------------
(***************************************************************************)
(* Theorems about RangeSlice, for every transition table that keeps the    *)
(* adaptive states between 8 and 248, every set of samples that have a     *)
(* code, and slices of any length.                                         *)
(***************************************************************************)
EXTENDS RangeSlice, TLAPS, SequenceTheorems, WellFoundedInduction

(***************************************************************************)
(* The intervals of the coder as inequalities, so that no proof step has   *)
(* to look into an interval between two numbers.                           *)
(***************************************************************************)
LEMMA ByteType ==
  ASSUME NEW x
  PROVE  x \in Byte <=> x \in Int /\ 0 <= x /\ x <= 255
BY DEF Byte

LEMMA LiveType ==
  ASSUME NEW x
  PROVE  x \in Live <=> x \in Int /\ 8 <= x /\ x <= 248
BY DEF Live

LEMMA SlotsType ==
  ASSUME NEW x
  PROVE  x \in Slots <=> x \in Int /\ 0 <= x /\ x <= 31
BY DEF Slots

LEMMA MaxRangeValue == MaxRange = 65280
BY DEF MaxRange

LEMMA MaxRangeType == MaxRange \in Nat
BY DEF MaxRange

LEMMA RangeType ==
  ASSUME NEW x
  PROVE  x \in 256..MaxRange <=> x \in Int /\ 256 <= x /\ x <= MaxRange
BY MaxRangeType

(***************************************************************************)
(* The split of the range.                                                 *)
(***************************************************************************)

\* Both parts of the range are at least 8 wide: neither bit is impossible.
LEMMA Split ==
  ASSUME NEW range \in 256..MaxRange, NEW state \in Live
  PROVE  /\ OneRange(range, state) \in Nat
         /\ 8 <= OneRange(range, state)
         /\ OneRange(range, state) <= range - 8
<1>1. range \in Nat /\ 256 <= range
  BY RangeType
<1>2. state \in Nat /\ 8 <= state /\ state <= 248
  BY LiveType
<1> DEFINE p == range * state
<1>3. p \in Nat /\ p >= 256 * 8 /\ p <= (range - 8) * 256
  <2>1. range * (state - 8) \in Nat /\ range * (248 - state) \in Nat
    BY <1>1, <1>2
  <2>2. range * (state - 8) = p - range * 8
    BY <1>1, <1>2
  <2>3. range * (248 - state) = range * 248 - p
    BY <1>1, <1>2
  <2>4. p \in Nat
    BY <1>1, <1>2
  <2> HIDE DEF p
  <2>5. QED
    BY <1>1, <2>1, <2>2, <2>3, <2>4
<1> HIDE DEF p
<1>4. p \div 256 \in Nat /\ 8 <= p \div 256 /\ p \div 256 <= range - 8
  BY <1>1, <1>3
<1>5. QED
  BY <1>4 DEF OneRange, p

\* Adaptation keeps the states of the table's range.
LEMMA NextStateLive ==
  ASSUME NEW state \in Live, NEW bit \in BOOLEAN
  PROVE  NextState(state, bit) \in Live
<1>1. CASE bit
  BY <1>1, CodingAssumption DEF NextState
<1>2. CASE ~bit
  <2>1. 256 - state \in Live /\ state # 0
    BY LiveType
  <2>2. StateTransition[256 - state] \in Live
    BY <2>1, CodingAssumption
  <2>3. 256 - StateTransition[256 - state] \in Live
    BY <2>2, LiveType
  <2>4. (256 - StateTransition[256 - state]) % 256 = 256 - StateTransition[256 - state]
    BY <2>3, LiveType
  <2>5. QED
    BY <1>2, <2>1, <2>3, <2>4 DEF NextState
<1>3. QED
  BY <1>1, <1>2

LEMMA AdaptedType ==
  ASSUME NEW states \in [Contexts -> [Slots -> Live]], NEW context \in Contexts,
         NEW slot \in Slots, NEW bit \in BOOLEAN
  PROVE  Adapted(states, context, slot, bit) \in [Contexts -> [Slots -> Live]]
<1>1. states[context][slot] \in Live
  OBVIOUS
<1>2. NextState(states[context][slot], bit) \in Live
  BY <1>1, NextStateLive
<1>3. QED
  BY <1>2 DEF Adapted

(***************************************************************************)
(* The bytes of the lower bound.                                           *)
(***************************************************************************)
LEMMA Modulo ==
  ASSUME NEW value \in Nat
  PROVE  value % 256 \in Byte /\ (value \div 256) % 256 \in Byte
<1>1. /\ value % 256 \in Int /\ 0 <= value % 256 /\ value % 256 <= 255
      /\ (value \div 256) % 256 \in Int /\ 0 <= (value \div 256) % 256
      /\ (value \div 256) % 256 <= 255
  OBVIOUS
<1>2. QED
  BY <1>1, ByteType

LEMMA TailSumType ==
  ASSUME NEW bytes \in Seq(Byte), Len(bytes) >= 2
  PROVE  /\ Len(bytes) \in Nat
         /\ bytes[Len(bytes)] \in Byte /\ bytes[Len(bytes) - 1] \in Byte
         /\ \A value \in Nat : TailSum(bytes, value) \in Nat
<1>1. Len(bytes) \in Nat /\ Len(bytes) \in 1..Len(bytes) /\ Len(bytes) - 1 \in 1..Len(bytes)
  OBVIOUS
<1>2. bytes[Len(bytes)] \in Byte /\ bytes[Len(bytes) - 1] \in Byte
  BY <1>1
<1>3. ASSUME NEW value \in Nat
      PROVE  TailSum(bytes, value) \in Nat
  <2> DEFINE a == bytes[Len(bytes) - 1]
             b == bytes[Len(bytes)]
  <2>1. a \in Nat /\ b \in Nat
    BY <1>2, ByteType
  <2> HIDE DEF a, b
  <2>2. 256 * a + b + value \in Nat
    BY <2>1
  <2>3. QED
    BY <2>2 DEF TailSum, a, b
<1>4. QED
  BY <1>1, <1>2, <1>3

LEMMA TailBytes ==
  ASSUME NEW bytes \in Seq(Byte), Len(bytes) >= 2
  PROVE  /\ Len(bytes) \in Nat
         /\ bytes[Len(bytes) - 1] \in Nat /\ bytes[Len(bytes) - 1] <= 255
         /\ bytes[Len(bytes)] \in Nat /\ bytes[Len(bytes)] <= 255
<1>1. /\ Len(bytes) \in Nat
      /\ bytes[Len(bytes)] \in Byte /\ bytes[Len(bytes) - 1] \in Byte
  BY TailSumType
<1>2. \A x \in Byte : x \in Nat /\ x <= 255
  BY ByteType
<1>3. QED
  BY <1>1, <1>2

LEMMA AddToLowType ==
  ASSUME NEW bytes \in Seq(Byte), Len(bytes) >= 2, NEW value \in Nat
  PROVE  /\ AddToLow(bytes, value) \in Seq(Byte)
         /\ Len(AddToLow(bytes, value)) = Len(bytes)
<1> DEFINE n == Len(bytes)
           t == TailSum(bytes, value)
           new(i) == CASE i = n     -> t % 256
                       [] i = n - 1 -> (t \div 256) % 256
                       [] OTHER -> IF CarryReaches(bytes, value, i)
                                   THEN (bytes[i] + 1) % 256 ELSE bytes[i]
<1>1. n \in Nat /\ t \in Nat
  BY TailSumType
<1>2. t % 256 \in Byte /\ (t \div 256) % 256 \in Byte
  BY <1>1, Modulo
<1>3. ASSUME NEW i \in 1..n
      PROVE  new(i) \in Byte
  <2>1. bytes[i] \in Byte
    BY <1>1
  <2>2. bytes[i] + 1 \in Nat
    BY <2>1, ByteType
  <2>3. (bytes[i] + 1) % 256 \in Byte
    BY <2>2, Modulo
  <2>4. QED
    BY <1>2, <2>1, <2>3
<1>4. AddToLow(bytes, value) = [i \in 1..n |-> new(i)]
  BY DEF AddToLow
<1> HIDE DEF new, t
<1>5. [i \in 1..n |-> new(i)] \in Seq(Byte) /\ Len([i \in 1..n |-> new(i)]) = n
  BY <1>1, <1>3
<1>6. QED
  BY <1>4, <1>5

\* Narrowing the interval to its lower part leaves the bytes as they are.
LEMMA LowerPartFits ==
  ASSUME NEW bytes \in Seq(Byte), Len(bytes) >= 2,
         NEW range \in Nat, NEW part \in Nat, part <= range, ~Overflows(bytes, range)
  PROVE  ~Overflows(bytes, part)
<1> DEFINE a == bytes[Len(bytes) - 1]
           b == bytes[Len(bytes)]
<1>1. a \in Nat /\ b \in Nat
  BY TailBytes
<1>2. TailSum(bytes, part) = 256 * a + b + part /\ TailSum(bytes, range) = 256 * a + b + range
  BY DEF TailSum
<1> HIDE DEF a, b
<1>3. TailSum(bytes, part) >= 65536 => TailSum(bytes, range) >= 65536
  BY <1>1, <1>2
<1>4. QED
  BY <1>3 DEF Overflows, CarryReaches

\* Narrowing the interval to its upper part never carries out of the bytes.
LEMMA NarrowingFits ==
  ASSUME NEW bytes \in Seq(Byte), Len(bytes) >= 2,
         NEW range \in Nat, range <= MaxRange,
         NEW value \in Nat, value <= range, ~Overflows(bytes, range)
  PROVE  ~Overflows(AddToLow(bytes, value), range - value)
<1> DEFINE n == Len(bytes)
           a == bytes[n - 1]
           b == bytes[n]
           t == TailSum(bytes, value)
           new == AddToLow(bytes, value)
<1>1. range - value \in Nat /\ range <= 65280
  BY MaxRangeValue
<1>2. n \in Nat /\ a \in Nat /\ a <= 255 /\ b \in Nat /\ b <= 255
  BY TailBytes
<1>3. Len(new) = n
  BY <1>1, AddToLowType
<1>4. /\ t = 256 * a + b + value
      /\ TailSum(bytes, range) = 256 * a + b + range
      /\ TailSum(new, range - value) = 256 * new[n - 1] + new[n] + (range - value)
  BY <1>3 DEF TailSum
<1>5. new[n] = t % 256 /\ new[n - 1] = (t \div 256) % 256
  BY <1>2 DEF AddToLow
<1>6. ASSUME t < 65536, NEW j \in 1..(n - 2)
      PROVE  new[j] = bytes[j]
  <2>1. ~CarryReaches(bytes, value, j)
    <3>1. t \in Nat /\ ~(t >= 65536)
      BY <1>1, <1>2, <1>6, TailSumType
    <3>2. QED
      BY <3>1 DEF CarryReaches
  <2>2. QED
    BY <1>2, <2>1 DEF AddToLow
<1> SUFFICES ASSUME Overflows(new, range - value)
             PROVE  FALSE
  OBVIOUS
<1>7. TailSum(new, range - value) >= 65536 /\ \A j \in 1..(n - 2) : new[j] = 255
  BY <1>2, <1>3 DEF Overflows, CarryReaches
<1>8. ~(TailSum(bytes, range) >= 65536 /\ \A j \in 1..(n - 2) : bytes[j] = 255)
  BY <1>2 DEF Overflows, CarryReaches
<1> HIDE DEF a, b, t, new
<1>9. t \in Nat /\ t < 2 * 65536
  BY <1>1, <1>2, <1>4
<1>10. 256 * ((t \div 256) % 256) + (t % 256) = IF t < 65536 THEN t ELSE t - 65536
  BY <1>9
<1>11. CASE t < 65536
  <2>1. TailSum(bytes, range) >= 65536
    BY <1>1, <1>2, <1>4, <1>5, <1>7, <1>9, <1>10, <1>11
  <2>2. QED
    BY <1>6, <1>7, <1>8, <1>11, <2>1
<1>12. CASE t >= 65536
  BY <1>1, <1>2, <1>4, <1>5, <1>7, <1>9, <1>10, <1>12
<1>13. QED
  BY <1>9, <1>11, <1>12

\* Nor does renormalisation make a carry possible that was not.
LEMMA RenormalisingFits ==
  ASSUME NEW bytes \in Seq(Byte), Len(bytes) >= 2,
         NEW range \in Nat, range <= 255, ~Overflows(bytes, range)
  PROVE  ~Overflows(Append(bytes, 0), range * 256)
<1> DEFINE n == Len(bytes)
           a == bytes[n - 1]
           b == bytes[n]
           new == Append(bytes, 0)
<1>1. n \in Nat /\ n >= 2 /\ a \in Nat /\ a <= 255 /\ b \in Nat /\ b <= 255
  BY TailBytes
<1>2. Len(new) = n + 1 /\ new[n + 1] = 0 /\ \A j \in 1..n : new[j] = bytes[j]
  BY <1>1
<1>3. /\ TailSum(bytes, range) = 256 * a + b + range
      /\ TailSum(new, range * 256) = 256 * b + 0 + range * 256
  BY <1>1, <1>2 DEF TailSum
<1> SUFFICES ASSUME Overflows(new, range * 256)
             PROVE  FALSE
  OBVIOUS
<1>4. TailSum(new, range * 256) >= 65536 /\ \A j \in 1..(n - 1) : bytes[j] = 255
  BY <1>1, <1>2 DEF Overflows, CarryReaches
<1>5. ~(TailSum(bytes, range) >= 65536 /\ \A j \in 1..(n - 2) : bytes[j] = 255)
  BY <1>1 DEF Overflows, CarryReaches
<1>6. a = 255 /\ \A j \in 1..(n - 2) : bytes[j] = 255
  BY <1>1, <1>4
<1> HIDE DEF a, b, new
<1>7. TailSum(bytes, range) >= 65536
  BY <1>1, <1>3, <1>4, <1>6
<1>8. QED
  BY <1>5, <1>6, <1>7

(***************************************************************************)
(* One decision, on each side.                                             *)
(***************************************************************************)

\* write_rac keeps a range of at least eight bits and a bound that fits.
LEMMA NarrowedType ==
  ASSUME NEW coder \in EncoderStates, Len(coder.low_bytes) >= 2,
         ~Overflows(coder.low_bytes, coder.range),
         NEW context \in Contexts, NEW decision \in [slot : Slots, bit : BOOLEAN]
  PROVE  LET new == Narrowed(coder, context, decision)
         IN /\ new \in EncoderStates
            /\ Len(new.low_bytes) >= 2 /\ Len(new.low_bytes) <= Len(coder.low_bytes) + 1
            /\ ~Overflows(new.low_bytes, new.range)
<1> DEFINE one == OneRange(coder.range, coder.states[context][decision.slot])
           range == IF decision.bit THEN one ELSE coder.range - one
           bytes == IF decision.bit THEN AddToLow(coder.low_bytes, coder.range - one)
                    ELSE coder.low_bytes
           new == Narrowed(coder, context, decision)
           states == Adapted(coder.states, context, decision.slot, decision.bit)
<1> SUFFICES /\ new \in EncoderStates
             /\ Len(new.low_bytes) >= 2 /\ Len(new.low_bytes) <= Len(coder.low_bytes) + 1
             /\ ~Overflows(new.low_bytes, new.range)
  OBVIOUS
<1>1. /\ coder.range \in 256..MaxRange /\ coder.low_bytes \in Seq(Byte)
      /\ coder.states \in [Contexts -> [Slots -> Live]]
      /\ decision.slot \in Slots /\ decision.bit \in BOOLEAN
  BY DEF EncoderStates
<1>2. new = [range     |-> IF TooSmall(range) THEN range * 256 ELSE range,
              low_bytes |-> IF TooSmall(range) THEN Append(bytes, 0) ELSE bytes,
              states    |-> states]
  BY DEF Narrowed
<1>3. one \in Nat /\ 8 <= one /\ one <= coder.range - 8
  BY <1>1, Split
<1>4. coder.range \in Nat /\ coder.range <= MaxRange /\ MaxRange \in Nat
  BY <1>1, RangeType, MaxRangeType
<1>5. states \in [Contexts -> [Slots -> Live]]
  BY <1>1, AdaptedType
<1>6. ~Overflows(coder.low_bytes, coder.range)
  OBVIOUS
<1> HIDE DEF one, states, new
<1>7. /\ bytes \in Seq(Byte) /\ Len(bytes) >= 2 /\ Len(bytes) = Len(coder.low_bytes)
      /\ range \in Nat /\ 8 <= range /\ range <= MaxRange
      /\ ~Overflows(bytes, range)
  <2>1. CASE decision.bit
    <3>1. coder.range - one \in Nat /\ coder.range - one <= coder.range
      BY <1>3, <1>4
    <3>2. bytes \in Seq(Byte) /\ Len(bytes) >= 2 /\ Len(bytes) = Len(coder.low_bytes)
      BY <1>1, <2>1, <3>1, AddToLowType
    <3>4. ~Overflows(bytes, coder.range - (coder.range - one))
      BY <1>1, <1>4, <1>6, <2>1, <3>1, NarrowingFits
    <3>5. coder.range - (coder.range - one) = one
      BY <1>3, <1>4
    <3>6. range \in Nat /\ 8 <= range /\ range <= MaxRange
      BY <1>3, <1>4, <2>1
    <3>7. QED
      BY <2>1, <3>2, <3>4, <3>5, <3>6
  <2>2. CASE ~decision.bit
    <3>1. range \in Nat /\ 8 <= range /\ range <= coder.range
      BY <1>3, <1>4, <2>2
    <3>2. ~Overflows(coder.low_bytes, range)
      BY <1>1, <1>4, <1>6, <3>1, LowerPartFits
    <3>3. QED
      BY <1>1, <1>4, <2>2, <3>1, <3>2
  <2>3. QED
    BY <1>1, <2>1, <2>2
<1> HIDE DEF range, bytes
<1>8. CASE TooSmall(range)
  <2>1. range <= 255
    BY <1>7, <1>8 DEF TooSmall
  <2>2. ~Overflows(Append(bytes, 0), range * 256)
    BY <1>7, <2>1, RenormalisingFits
  <2>3. range * 256 \in Int /\ 256 <= range * 256 /\ range * 256 <= MaxRange
    BY <1>7, <2>1, MaxRangeValue
  <2>4. /\ Append(bytes, 0) \in Seq(Byte) /\ Len(Append(bytes, 0)) >= 2
        /\ Len(Append(bytes, 0)) = Len(coder.low_bytes) + 1
    BY <1>7, ByteType
  <2>5. QED
    BY <1>2, <1>5, <1>8, <2>2, <2>3, <2>4, RangeType DEF EncoderStates
<1>9. CASE ~TooSmall(range)
  <2>1. 256 <= range
    BY <1>7, <1>9 DEF TooSmall
  <2>2. range \in 256..MaxRange
    BY <1>7, <2>1, RangeType
  <2>3. QED
    BY <1>2, <1>5, <1>7, <1>9, <2>2 DEF EncoderStates
<1>10. QED
  BY <1>8, <1>9

\* The decoder's interval: a saturated one only reads zeros from here on.
DecoderInv(d, bytes) ==
  /\ d \in DecoderStates
  /\ d.low <= d.range
  /\ d.low = d.range => d.end
  /\ d.byte_position <= 2 \/ d.byte_position <= Len(bytes)

LEMMA ResetKeeps ==
  ASSUME NEW bytes \in Seq(Byte), Len(bytes) >= 2,
         NEW states \in [Contexts -> [Slots -> Live]]
  PROVE  DecoderInv(DecoderReset(bytes, states), bytes)
<1> DEFINE low == 256 * bytes[1] + bytes[2]
<1>1. bytes[1] \in Byte /\ bytes[2] \in Byte /\ Len(bytes) \in Nat
  OBVIOUS
<1>2. low \in Nat
  <2> DEFINE a == bytes[1]
             b == bytes[2]
  <2>1. a \in Nat /\ b \in Nat
    BY <1>1, ByteType
  <2> HIDE DEF a, b
  <2>2. 256 * a + b \in Nat
    BY <2>1
  <2>3. QED
    BY <2>2 DEF a, b
<1> HIDE DEF low
<1> DEFINE d == DecoderReset(bytes, states)
<1>3. d = [range |-> MaxRange,
           low |-> IF low >= MaxRange THEN MaxRange ELSE low,
           byte_position |-> 2,
           end |-> Len(bytes) <= 2 \/ low >= MaxRange,
           states |-> states]
  BY DEF DecoderReset, low
<1> HIDE DEF d
<1>4. d.low \in Nat /\ d.low <= d.range /\ (d.low = d.range => d.end)
  <2>1. CASE low >= MaxRange
    <3>1. d.low = MaxRange /\ d.range = MaxRange /\ d.end = TRUE
      BY <1>3, <2>1
    <3>2. QED
      BY <3>1, MaxRangeType
  <2>2. CASE ~(low >= MaxRange)
    BY <1>2, <1>3, <2>2, MaxRangeType
  <2>3. QED
    BY <2>1, <2>2
<1>5. d.range \in 256..MaxRange
  <2>1. 256 <= MaxRange
    BY MaxRangeValue
  <2>2. QED
    BY <1>3, <2>1, MaxRangeType, RangeType
<1>6. d \in DecoderStates
  BY <1>3, <1>4, <1>5 DEF DecoderStates
<1>7. QED
  BY <1>3, <1>4, <1>6 DEF DecoderInv, d

Parses == [stage : Stages, kind : Kinds, exponent : Nat, index : Nat, value : Int]

LEMMA SlotType ==
  ASSUME NEW p \in Parses
  PROVE  SlotOf(p) \in Slots
<1>1. p.exponent \in Nat /\ p.index \in Nat
  BY DEF Parses
<1>2. ASSUME NEW n \in Nat
      PROVE  /\ 1 + AtMost(n, 9) \in Slots
             /\ 22 + AtMost(n, 9) \in Slots
             /\ 11 + AtMost(n, 10) \in Slots
  BY SlotsType DEF AtMost
<1>3. 0 \in Slots
  BY SlotsType
<1>4. QED
  BY <1>1, <1>2, <1>3 DEF SlotOf

LEMMA ParsedType ==
  ASSUME NEW p \in Parses, NEW bit \in BOOLEAN
  PROVE  Parsed(p, bit) \in Parses
<1>1. p.exponent \in Nat /\ p.index \in Nat /\ p.value \in Int
  BY DEF Parses
<1>2. /\ "done" \in Stages /\ "sign" \in Stages /\ "exponent" \in Stages
      /\ "mantissa" \in Stages /\ "error" \in Stages
  BY DEF Stages
<1>3. ASSUME NEW magnitude \in Int
      PROVE  Completed(p, magnitude) \in Parses
  <2>1. CASE p.kind = "signed"
    <3>1. Completed(p, magnitude) = [p EXCEPT !.value = magnitude, !.stage = "sign"]
      BY <2>1 DEF Completed
    <3>2. QED
      BY <1>1, <1>2, <3>1 DEF Parses
  <2>2. CASE p.kind # "signed"
    <3>1. Completed(p, magnitude) = [p EXCEPT !.value = magnitude, !.stage = "done"]
      BY <2>2 DEF Completed
    <3>2. QED
      BY <1>1, <1>2, <3>1 DEF Parses
  <2>3. QED
    BY <2>1, <2>2
<1>4. AfterZero(p, bit) \in Parses
  <2>1. CASE p.kind = "bool"
    <3> DEFINE v == IF bit THEN 1 ELSE 0
    <3>1. v \in Int
      OBVIOUS
    <3>2. AfterZero(p, bit) = [p EXCEPT !.stage = "done", !.value = v]
      BY <2>1 DEF AfterZero
    <3> HIDE DEF v
    <3>3. QED
      BY <1>1, <1>2, <3>1, <3>2 DEF Parses
  <2>2. CASE p.kind # "bool" /\ bit
    <3> DEFINE v == 0
    <3>1. v \in Int
      OBVIOUS
    <3>2. AfterZero(p, bit) = [p EXCEPT !.stage = "done", !.value = v]
      BY <2>2 DEF AfterZero
    <3> HIDE DEF v
    <3>3. QED
      BY <1>1, <1>2, <3>1, <3>2 DEF Parses
  <2>3. CASE p.kind # "bool" /\ ~bit
    <3>1. AfterZero(p, bit) = [p EXCEPT !.stage = "exponent"]
      BY <2>3 DEF AfterZero
    <3>2. QED
      BY <1>1, <1>2, <3>1 DEF Parses
  <2>4. QED
    BY <2>1, <2>2, <2>3
<1>5. AfterExponent(p, bit) \in Parses
  <2>1. CASE bit /\ p.exponent < MaxExponent
    <3>1. AfterExponent(p, bit) = [p EXCEPT !.exponent = p.exponent + 1]
      BY <1>1, <2>1, CodingAssumption DEF AfterExponent
    <3>2. p.exponent + 1 \in Nat
      BY <1>1
    <3>3. QED
      BY <1>1, <1>2, <3>1, <3>2 DEF Parses
  <2>2. CASE bit /\ ~(p.exponent < MaxExponent)
    <3>1. p.exponent >= MaxExponent
      BY <1>1, <2>2, CodingAssumption
    <3>2. AfterExponent(p, bit) = [p EXCEPT !.stage = "error"]
      BY <2>2, <3>1 DEF AfterExponent
    <3>3. QED
      BY <1>1, <1>2, <3>2 DEF Parses
  <2>3. CASE ~bit /\ p.exponent = 0
    <3>1. AfterExponent(p, bit) = Completed(p, 1)
      BY <2>3 DEF AfterExponent
    <3>2. QED
      BY <1>3, <3>1
  <2>4. CASE ~bit /\ p.exponent # 0
    <3> DEFINE v == 1
    <3>1. v \in Int
      OBVIOUS
    <3>2. AfterExponent(p, bit) =
            [p EXCEPT !.stage = "mantissa", !.index = p.exponent - 1, !.value = v]
      BY <2>4 DEF AfterExponent
    <3>3. p.exponent - 1 \in Nat
      BY <1>1, <2>4
    <3> HIDE DEF v
    <3>4. QED
      BY <1>1, <1>2, <3>1, <3>2, <3>3 DEF Parses
  <2>5. QED
    BY <2>1, <2>2, <2>3, <2>4
<1>6. AfterMantissa(p, bit) \in Parses
  <2> DEFINE magnitude == 2 * p.value + (IF bit THEN 1 ELSE 0)
  <2>1. magnitude \in Int
    BY <1>1
  <2>2. CASE p.index = 0
    <3>1. AfterMantissa(p, bit) = Completed(p, magnitude)
      BY <2>2 DEF AfterMantissa
    <3> HIDE DEF magnitude
    <3>2. QED
      BY <1>3, <2>1, <3>1
  <2>3. CASE p.index # 0
    <3>1. AfterMantissa(p, bit) = [p EXCEPT !.value = magnitude, !.index = p.index - 1]
      BY <2>3 DEF AfterMantissa
    <3>2. p.index - 1 \in Nat
      BY <1>1, <2>3
    <3> HIDE DEF magnitude
    <3>3. QED
      BY <1>1, <1>2, <2>1, <3>1, <3>2 DEF Parses
  <2>4. QED
    BY <2>2, <2>3
<1>7. [p EXCEPT !.stage = "done", !.value = IF bit THEN -@ ELSE @] \in Parses
  <2> DEFINE v == IF bit THEN -p.value ELSE p.value
  <2>1. v \in Int
    BY <1>1
  <2>2. [p EXCEPT !.stage = "done", !.value = IF bit THEN -@ ELSE @] =
          [p EXCEPT !.stage = "done", !.value = v]
    OBVIOUS
  <2> HIDE DEF v
  <2>3. QED
    BY <1>1, <1>2, <2>1, <2>2 DEF Parses
<1>8. CASE p.stage = "zero"
  BY <1>4, <1>8 DEF Parsed
<1>9. CASE p.stage = "exponent"
  BY <1>5, <1>9 DEF Parsed
<1>10. CASE p.stage = "mantissa"
  BY <1>6, <1>10 DEF Parsed
<1>11. CASE p.stage \notin {"zero", "exponent", "mantissa"}
  BY <1>7, <1>11 DEF Parsed
<1>12. QED
  BY <1>8, <1>9, <1>10, <1>11

\* Past the end and in a saturated interval, refill puts a zero; so low stays within
\* the range.
LEMMA RefillKeeps ==
  ASSUME payload \in Seq(Byte), DecoderInv(dec, payload),
         NEW range \in Nat, 8 <= range, range <= 255,
         NEW low \in Nat, low <= range, low = range => dec.end
  PROVE  LET interval == Refill(range, low)
         IN /\ interval.range = range * 256
            /\ interval.low \in Nat /\ interval.low <= interval.range
            /\ interval.low = interval.range => interval.end
            /\ interval.end \in BOOLEAN /\ interval.byte_position \in Nat
            /\ interval.byte_position <= 2 \/ interval.byte_position <= Len(payload)
<1> DEFINE read == ~dec.end /\ dec.byte_position < Len(payload)
           position == IF read THEN dec.byte_position + 1 ELSE dec.byte_position
           byte == IF read THEN payload[position] ELSE 0
           interval == Refill(range, low)
<1>1. /\ dec.end \in BOOLEAN /\ dec.byte_position \in Nat /\ Len(payload) \in Nat
      /\ dec.byte_position <= 2 \/ dec.byte_position <= Len(payload)
  BY DEF DecoderInv, DecoderStates
<1>2. /\ position \in Nat
      /\ position <= 2 \/ position <= Len(payload)
      /\ read => position \in 1..Len(payload)
  BY <1>1
<1>3. byte \in Nat /\ byte <= 255 /\ (~read => byte = 0)
  <2>1. CASE read
    <3>1. byte \in Byte
      BY <1>2, <2>1
    <3>2. QED
      BY <2>1, <3>1, ByteType
  <2>2. CASE ~read
    BY <2>2
  <2>3. QED
    BY <2>1, <2>2
<1>4. interval = [range |-> range * 256, low |-> low * 256 + byte,
                  byte_position |-> position, end |-> dec.end \/ position >= Len(payload)]
  BY DEF Refill
<1>5. low = range => ~read
  OBVIOUS
<1> HIDE DEF position, byte, interval
<1>6. low * 256 + byte \in Nat /\ low * 256 + byte <= range * 256
  BY <1>3, <1>5
<1>7. low * 256 + byte = range * 256 => low = range
  BY <1>3
<1> HIDE DEF read
<1>8. interval.low = interval.range => interval.end
  <2>1. interval.low = low * 256 + byte /\ interval.range = range * 256
    BY <1>4
  <2>2. interval.end = (dec.end \/ position >= Len(payload))
    BY <1>4
  <2>3. QED
    BY <1>7, <2>1, <2>2
<1>9. /\ interval.range = range * 256
      /\ interval.low \in Nat /\ interval.low <= interval.range
  BY <1>4, <1>6
<1>10. interval.end \in BOOLEAN
  BY <1>4
<1>11. /\ interval.byte_position \in Nat
       /\ interval.byte_position <= 2 \/ interval.byte_position <= Len(payload)
  BY <1>2, <1>4
<1>12. QED
  BY <1>8, <1>9, <1>10, <1>11 DEF interval

\* read_rac keeps a range of at least eight bits and low within it.
LEMMA ReadRacKeeps ==
  ASSUME payload \in Seq(Byte), DecoderInv(dec, payload), parse \in Parses,
         NEW context \in Contexts, ReadRac(context)
  PROVE  DecoderInv(dec', payload) /\ parse' \in Parses
<1> DEFINE slot == SlotOf(parse)
           one == OneRange(dec.range, dec.states[context][slot])
           bit == dec.low >= dec.range - one
           range == IF bit THEN one ELSE dec.range - one
           low == IF bit THEN dec.low - (dec.range - one) ELSE dec.low
           interval == IF TooSmall(range) THEN Refill(range, low) ELSE Kept(range, low)
           states == Adapted(dec.states, context, slot, bit)
<1>1. /\ dec.range \in 256..MaxRange /\ dec.low \in Nat /\ dec.byte_position \in Nat
      /\ dec.end \in BOOLEAN /\ dec.states \in [Contexts -> [Slots -> Live]]
      /\ dec.low <= dec.range
      /\ dec.low = dec.range => dec.end
      /\ dec.byte_position <= 2 \/ dec.byte_position <= Len(payload)
  BY DEF DecoderInv, DecoderStates
<1>2. slot \in Slots
  BY SlotType
<1>3. one \in Nat /\ 8 <= one /\ one <= dec.range - 8
  BY <1>1, <1>2, Split
<1>4. dec.range \in Nat /\ dec.range <= MaxRange /\ MaxRange \in Nat
  BY <1>1, RangeType, MaxRangeType
<1>5. /\ dec' = [range |-> interval.range, low |-> interval.low,
                 byte_position |-> interval.byte_position, end |-> interval.end,
                 states |-> states]
      /\ parse' = Parsed(parse, bit)
  BY DEF ReadRac
<1>6. bit \in BOOLEAN
  OBVIOUS
<1> HIDE DEF slot, one
<1>7. /\ range \in Nat /\ 8 <= range /\ range <= MaxRange
      /\ low \in Nat /\ low <= range
      /\ low = range => dec.end
  <2>1. CASE bit
    <3>1. range = one /\ low = dec.low - (dec.range - one)
      BY <2>1
    <3>2. dec.low >= dec.range - one
      BY <2>1
    <3>3. dec.low \in Nat /\ dec.low <= dec.range /\ (dec.low = dec.range => dec.end)
      BY <1>1
    <3>4. dec.range \in Nat
      BY <1>4
    <3> HIDE DEF bit, range, low
    <3>5. range \in Nat /\ 8 <= range /\ range <= MaxRange
      BY <1>3, <1>4, <3>1
    <3>6. low \in Nat /\ low <= range
      BY <1>3, <3>1, <3>2, <3>3, <3>4
    <3>7. low = range => dec.low = dec.range
      BY <1>3, <3>1, <3>3, <3>4
    <3>8. QED
      BY <3>3, <3>5, <3>6, <3>7
  <2>2. CASE ~bit
    <3>1. range = dec.range - one /\ low = dec.low
      BY <2>2
    <3>2. ~(dec.low >= dec.range - one)
      BY <2>2
    <3> HIDE DEF bit, range, low
    <3>3. QED
      BY <1>1, <1>3, <1>4, <3>1, <3>2
  <2>3. QED
    BY <2>1, <2>2
<1> HIDE DEF bit, range, low
<1>8. states \in [Contexts -> [Slots -> Live]]
  BY <1>1, <1>2, <1>6, AdaptedType
<1>9. /\ interval.range \in 256..MaxRange
      /\ interval.low \in Nat /\ interval.low <= interval.range
      /\ interval.low = interval.range => interval.end
      /\ interval.end \in BOOLEAN /\ interval.byte_position \in Nat
      /\ interval.byte_position <= 2 \/ interval.byte_position <= Len(payload)
  <2>1. CASE TooSmall(range)
    <3>1. range <= 255
      BY <1>7, <2>1 DEF TooSmall
    <3>2. interval = Refill(range, low)
      BY <2>1
    <3> HIDE DEF interval
    <3>3. /\ interval.range = range * 256
          /\ interval.low \in Nat /\ interval.low <= interval.range
          /\ interval.low = interval.range => interval.end
          /\ interval.end \in BOOLEAN /\ interval.byte_position \in Nat
          /\ interval.byte_position <= 2 \/ interval.byte_position <= Len(payload)
      BY <1>7, <3>1, <3>2, RefillKeeps
    <3>4. range * 256 \in Int /\ 256 <= range * 256 /\ range * 256 <= MaxRange
      BY <1>7, <3>1, MaxRangeValue
    <3>5. range * 256 \in 256..MaxRange
      BY <3>4, RangeType
    <3>6. QED
      BY <3>3, <3>5
  <2>2. CASE ~TooSmall(range)
    <3>1. 256 <= range
      BY <1>7, <2>2 DEF TooSmall
    <3>2. range \in 256..MaxRange
      BY <1>7, <3>1, RangeType
    <3>3. interval = [range |-> range, low |-> low,
                      byte_position |-> dec.byte_position, end |-> dec.end]
      BY <2>2 DEF Kept
    <3> HIDE DEF interval
    <3>4. QED
      BY <1>1, <1>7, <3>2, <3>3
  <2>3. QED
    BY <2>1, <2>2
<1> HIDE DEF interval, states
<1>10. DecoderInv(dec', payload)
  <2>1. dec' \in DecoderStates
    BY <1>5, <1>8, <1>9 DEF DecoderStates
  <2>2. QED
    BY <1>5, <1>9, <2>1 DEF DecoderInv
<1>11. parse' \in Parses
  BY <1>5, <1>6, ParsedType
<1>12. QED
  BY <1>10, <1>11

(***************************************************************************)
(* The symbols of a slice and their decisions.                             *)
(***************************************************************************)
DecisionType == [slot : Slots, bit : BOOLEAN]

LEMMA DecisionSlots ==
  ASSUME NEW n \in Nat
  PROVE  /\ 0 \in Slots
         /\ 1 + AtMost(n, 9) \in Slots
         /\ 22 + AtMost(n, 9) \in Slots
         /\ 11 + AtMost(n, 10) \in Slots
BY SlotsType DEF AtMost

LEMMA ExponentType ==
  ASSUME NEW value \in Int, value # 0, Codable(value)
  PROVE  Exponent(Magnitude(value)) \in Nat
<1>1. PICK e \in 0..MaxExponent : HasExponent(Magnitude(value), e)
  BY DEF Codable
<1>2. Exponent(Magnitude(value)) \in 0..MaxExponent
  BY <1>1 DEF Exponent
<1>3. QED
  BY <1>2, CodingAssumption

LEMMA Concatenation ==
  ASSUME NEW S, NEW s \in Seq(S), NEW t \in Seq(S)
  PROVE  s \o t \in Seq(S) /\ Len(s \o t) = Len(s) + Len(t)
OBVIOUS

LEMMA Singleton ==
  ASSUME NEW S, NEW x \in S
  PROVE  <<x>> \in Seq(S) /\ Len(<<x>>) = 1
OBVIOUS

LEMMA Tabulated ==
  ASSUME NEW S, NEW n \in Nat, NEW f \in [1..n -> S]
  PROVE  f \in Seq(S) /\ Len(f) = n
OBVIOUS

\* Every symbol that has a code takes at least one decision.
LEMMA DecisionsType ==
  ASSUME NEW symbol \in Symbols, Writable(symbol)
  PROVE  Decisions(symbol) \in Seq(DecisionType) /\ Len(Decisions(symbol)) >= 1
<1> DEFINE m == Magnitude(symbol.value)
           e == Exponent(m)
           prefix == [i \in 1..e |-> Decision(1 + AtMost(i - 1, 9), TRUE)]
           mantissa == [i \in 1..e |-> Decision(22 + AtMost(e - i, 9), (m \div Power[e - i]) % 2 = 1)]
           sign == IF symbol.kind = "signed"
                   THEN <<Decision(11 + AtMost(e, 10), symbol.value < 0)>> ELSE <<>>
           zero == <<Decision(0, FALSE)>>
           stop == <<Decision(1 + AtMost(e, 9), FALSE)>>
<1>1. symbol.value \in Int
  BY DEF Symbols
<1>2. \A slot \in Slots, bit \in BOOLEAN : Decision(slot, bit) \in DecisionType
  BY DEF Decision, DecisionType
<1>3. 0 \in Slots
  BY SlotsType
<1>4. CASE symbol.kind = "bool" \/ m = 0
  <2>1. Decisions(symbol) = <<Decision(0, (symbol.value = 0) = (symbol.kind # "bool"))>>
    BY <1>4 DEF Decisions
  <2>2. Decision(0, (symbol.value = 0) = (symbol.kind # "bool")) \in DecisionType
    BY <1>2, <1>3
  <2>3. QED
    BY <2>1, <2>2
<1>5. CASE ~(symbol.kind = "bool" \/ m = 0)
  <2>1. symbol.value # 0
    BY <1>5 DEF Magnitude
  <2>2. e \in Nat
    BY <1>1, <1>5, <2>1, ExponentType DEF Writable
  <2>3. Decisions(symbol) = zero \o prefix \o stop \o mantissa \o sign
    BY <1>5 DEF Decisions
  <2> HIDE DEF e, m
  <2>4. zero \in Seq(DecisionType) /\ Len(zero) = 1
    <3>1. Decision(0, FALSE) \in DecisionType
      BY <1>2, <1>3
    <3>2. QED
      BY <3>1, Singleton
  <2>5. stop \in Seq(DecisionType)
    <3>1. Decision(1 + AtMost(e, 9), FALSE) \in DecisionType
      BY <1>2, <2>2, DecisionSlots
    <3>2. QED
      BY <3>1, Singleton
  <2>6. prefix \in Seq(DecisionType)
    <3>1. ASSUME NEW i \in 1..e
          PROVE  Decision(1 + AtMost(i - 1, 9), TRUE) \in DecisionType
      <4>1. i - 1 \in Nat
        BY <2>2
      <4>2. QED
        BY <1>2, <4>1, DecisionSlots
    <3>2. prefix \in [1..e -> DecisionType]
      BY <3>1
    <3> HIDE DEF prefix
    <3>3. QED
      BY <2>2, <3>2, Tabulated
  <2>7. mantissa \in Seq(DecisionType)
    <3>1. ASSUME NEW i \in 1..e
          PROVE  Decision(22 + AtMost(e - i, 9), (m \div Power[e - i]) % 2 = 1) \in DecisionType
      <4>1. e - i \in Nat
        BY <2>2
      <4>2. QED
        BY <1>2, <4>1, DecisionSlots
    <3>2. mantissa \in [1..e -> DecisionType]
      BY <3>1
    <3> HIDE DEF mantissa
    <3>3. QED
      BY <2>2, <3>2, Tabulated
  <2>8. sign \in Seq(DecisionType)
    <3> DEFINE negative == symbol.value < 0
               last == Decision(11 + AtMost(e, 10), negative)
    <3>1. negative \in BOOLEAN
      OBVIOUS
    <3> HIDE DEF negative
    <3>2. last \in DecisionType
      BY <1>2, <2>2, <3>1, DecisionSlots
    <3> HIDE DEF last
    <3>3. <<last>> \in Seq(DecisionType)
      BY <3>2, Singleton
    <3>4. sign = IF symbol.kind = "signed" THEN <<last>> ELSE <<>>
      BY DEF last, negative
    <3>5. <<>> \in Seq(DecisionType)
      OBVIOUS
    <3>6. QED
      BY <3>3, <3>4, <3>5
  <2> HIDE DEF zero, prefix, stop, mantissa, sign
  <2>9. zero \o prefix \in Seq(DecisionType) /\ Len(zero \o prefix) >= 1
    BY <2>4, <2>6, Concatenation
  <2>10. zero \o prefix \o stop \in Seq(DecisionType) /\ Len(zero \o prefix \o stop) >= 1
    BY <2>5, <2>9, Concatenation
  <2>11. /\ zero \o prefix \o stop \o mantissa \in Seq(DecisionType)
         /\ Len(zero \o prefix \o stop \o mantissa) >= 1
    BY <2>7, <2>10, Concatenation
  <2>12. /\ zero \o prefix \o stop \o mantissa \o sign \in Seq(DecisionType)
         /\ Len(zero \o prefix \o stop \o mantissa \o sign) >= 1
    BY <2>8, <2>11, Concatenation
  <2>13. QED
    BY <2>3, <2>12
<1>6. QED
  BY <1>4, <1>5

(***************************************************************************)
(* Numbers from their digits.                                              *)
(***************************************************************************)
LEMMA LeastElement ==
  ASSUME NEW A \in SUBSET Nat, A # {}
  PROVE  \E least \in A : \A n \in A : least <= n
<1>1. PICK least \in A : \A n \in A : ~ (<<n, least>> \in OpToRel(<, Nat))
  BY NatLessThanWellFounded, WFMin
<1>2. ASSUME NEW n \in A, n < least
      PROVE  FALSE
  BY <1>1, <1>2 DEF OpToRel
<1>3. QED
  BY <1>2

\* Induction, over the members of a set.
LEMMA SetInduction ==
  ASSUME NEW S, 0 \in S, \A n \in Nat : n \in S => n + 1 \in S
  PROVE  Nat \subseteq S
<1> SUFFICES ASSUME Nat \ S # {}
             PROVE  FALSE
  OBVIOUS
<1>1. PICK least \in Nat \ S : \A n \in Nat \ S : least <= n
  BY LeastElement
<1>2. least # 0
  OBVIOUS
<1>3. least - 1 \in Nat /\ least - 1 \in S
  BY <1>1, <1>2
<1>4. QED
  BY <1>1, <1>3

\* The numbers of the prefixes of some digits.
IsNumber(number, digits, n) ==
  /\ number \in [0..n -> Int]
  /\ number[0] = 0
  /\ \A i \in 1..n : number[i] = 256 * number[i - 1] + digits[i]

LEMMA NumberExists ==
  ASSUME NEW n \in Nat, NEW digits \in [1..n -> Int]
  PROVE  \E number : IsNumber(number, digits, n)
<1> DEFINE S == {m \in Nat : m <= n => \E number : IsNumber(number, digits, m)}
<1>1. 0 \in S
  <2> DEFINE number == [i \in 0..0 |-> 0]
  <2>1. IsNumber(number, digits, 0)
    BY DEF IsNumber
  <2>2. QED
    BY <2>1
<1>2. ASSUME NEW m \in Nat, m \in S
      PROVE  m + 1 \in S
  <2> SUFFICES ASSUME m + 1 <= n
               PROVE  \E number : IsNumber(number, digits, m + 1)
    OBVIOUS
  <2>1. PICK g : IsNumber(g, digits, m)
    BY <1>2
  <2> DEFINE top == 256 * g[m] + digits[m + 1]
             h == [i \in 0..(m + 1) |-> IF i = m + 1 THEN top ELSE g[i]]
  <2>2. /\ g \in [0..m -> Int] /\ g[0] = 0
        /\ \A i \in 1..m : g[i] = 256 * g[i - 1] + digits[i]
    BY <2>1 DEF IsNumber
  <2>3. top \in Int
    BY <2>2
  <2> HIDE DEF top
  <2>4. h \in [0..(m + 1) -> Int] /\ h[0] = 0
    BY <2>2, <2>3
  <2>5. ASSUME NEW i \in 1..(m + 1)
        PROVE  h[i] = 256 * h[i - 1] + digits[i]
    <3>1. CASE i = m + 1
      BY <3>1 DEF top
    <3>2. CASE i # m + 1
      BY <2>2, <3>2
    <3>3. QED
      BY <3>1, <3>2
  <2>6. IsNumber(h, digits, m + 1)
    BY <2>4, <2>5 DEF IsNumber
  <2>7. QED
    BY <2>6
<1> HIDE DEF S
<1>3. n \in S
  BY <1>1, <1>2, SetInduction
<1>4. QED
  BY <1>3 DEF S

LEMMA NumberUnique ==
  ASSUME NEW n \in Nat, NEW digits, NEW g, NEW h,
         IsNumber(g, digits, n), IsNumber(h, digits, n)
  PROVE  g[n] = h[n]
<1> DEFINE S == {m \in Nat : m <= n => g[m] = h[m]}
<1>1. 0 \in S
  BY DEF IsNumber
<1>2. ASSUME NEW m \in Nat, m \in S
      PROVE  m + 1 \in S
  <2>1. CASE m + 1 <= n
    <3>1. m + 1 \in 1..n /\ (m + 1) - 1 = m
      BY <2>1
    <3>2. g[m] = h[m]
      BY <1>2, <2>1
    <3>3. g[m + 1] = 256 * g[m] + digits[m + 1] /\ h[m + 1] = 256 * h[m] + digits[m + 1]
      BY <3>1 DEF IsNumber
    <3>4. QED
      BY <3>2, <3>3
  <2>2. CASE ~(m + 1 <= n)
    BY <2>2
  <2>3. QED
    BY <2>1, <2>2
<1> HIDE DEF S
<1>3. n \in S
  BY <1>1, <1>2, SetInduction
<1>4. QED
  BY <1>3 DEF S

\* Horner is the number of all digits.
LEMMA HornerNumber ==
  ASSUME NEW n \in Nat, NEW digits \in [1..n -> Int]
  PROVE  \E number : IsNumber(number, digits, n) /\ Horner(digits) = number[n]
<1>1. Len(digits) = n
  OBVIOUS
<1> DEFINE F(number) ==
             [i \in 0..n |-> IF i = 0 THEN 0 ELSE 256 * number[i - 1] + digits[i]]
           h == CHOOSE number : number = F(number)
<1>2. Horner(digits) = h[n]
  BY <1>1 DEF Horner
<1>3. PICK g : IsNumber(g, digits, n)
  BY NumberExists
<1>4. g = F(g)
  BY <1>3 DEF IsNumber
<1>5. h = F(h)
  BY <1>4
<1> HIDE DEF h
<1>6. ASSUME NEW i \in 0..n
      PROVE  h[i] = IF i = 0 THEN 0 ELSE 256 * h[i - 1] + digits[i]
  BY <1>5
<1>7. ASSUME NEW i \in 0..n
      PROVE  h[i] = g[i]
  <2> DEFINE S == {m \in Nat : m <= n => h[m] = g[m]}
  <2>1. 0 \in S
    BY <1>3, <1>6 DEF IsNumber
  <2>2. ASSUME NEW m \in Nat, m \in S
        PROVE  m + 1 \in S
    <3>1. CASE m + 1 <= n
      <4>1. m + 1 \in 1..n /\ (m + 1) - 1 = m /\ h[m] = g[m] /\ m + 1 # 0
        BY <2>2, <3>1
      <4>2. g[m + 1] = 256 * g[m] + digits[m + 1]
        BY <1>3, <4>1 DEF IsNumber
      <4>3. h[m + 1] = 256 * h[m] + digits[m + 1]
        BY <1>6, <4>1
      <4>4. QED
        BY <4>1, <4>2, <4>3
    <3>2. CASE ~(m + 1 <= n)
      BY <3>2
    <3>3. QED
      BY <3>1, <3>2
  <2> HIDE DEF S
  <2>3. Nat \subseteq S
    BY <2>1, <2>2, SetInduction
  <2>4. i \in Nat /\ i <= n
    OBVIOUS
  <2>5. QED
    BY <2>3, <2>4 DEF S
<1>8. QED
  BY <1>2, <1>3, <1>7

(***************************************************************************)
(* The distance of a payload from a lower bound.                           *)
(***************************************************************************)
LEMMA DigitType ==
  ASSUME NEW bytes \in Seq(Byte), NEW i \in Nat, i >= 1
  PROVE  Digit(bytes, i) \in Nat /\ Digit(bytes, i) <= 255
<1>1. CASE i <= Len(bytes)
  <2>1. bytes[i] \in Byte
    BY <1>1
  <2>2. QED
    BY <1>1, <2>1, ByteType DEF Digit
<1>2. CASE ~(i <= Len(bytes))
  BY <1>2 DEF Digit
<1>3. QED
  BY <1>1, <1>2

Distance(bytes, low, i) == Digit(bytes, i) - low[i]

IsGap(gap, bytes, low) ==
  /\ gap \in [0..Len(low) -> Int]
  /\ gap[0] = 0
  /\ \A i \in 1..Len(low) : gap[i] = 256 * gap[i - 1] + Distance(bytes, low, i)

LEMMA GapNumber ==
  ASSUME NEW bytes \in Seq(Byte), NEW low \in Seq(Byte)
  PROVE  /\ \E gap : IsGap(gap, bytes, low) /\ Gap(bytes, low) = gap[Len(low)]
         /\ \A gap : IsGap(gap, bytes, low) => Gap(bytes, low) = gap[Len(low)]
<1> DEFINE n == Len(low)
           digits == [i \in 1..n |-> Distance(bytes, low, i)]
<1>1. n \in Nat
  OBVIOUS
<1>2. ASSUME NEW i \in 1..n
      PROVE  Distance(bytes, low, i) \in Int
  <2>1. low[i] \in Byte
    OBVIOUS
  <2>2. low[i] \in Int
    BY <2>1, ByteType
  <2>3. Digit(bytes, i) \in Int
    BY DigitType
  <2>4. QED
    BY <2>2, <2>3 DEF Distance
<1>3. digits \in [1..n -> Int]
  BY <1>2
<1>4. Gap(bytes, low) = Horner(digits)
  BY DEF Gap, Distance
<1>5. \A gap : IsGap(gap, bytes, low) <=> IsNumber(gap, digits, n)
  BY DEF IsGap, IsNumber
<1> HIDE DEF digits, n
<1>6. PICK number : IsNumber(number, digits, n) /\ Horner(digits) = number[n]
  BY <1>1, <1>3, HornerNumber
<1>7. \A gap : IsNumber(gap, digits, n) => gap[n] = number[n]
  BY <1>1, <1>6, NumberUnique
<1>8. QED
  BY <1>4, <1>5, <1>6, <1>7 DEF n

\* A byte more of both.
LEMMA GapAppend ==
  ASSUME NEW bytes \in Seq(Byte), NEW low \in Seq(Byte)
  PROVE  /\ Gap(bytes, low) \in Int
         /\ Gap(bytes, Append(low, 0)) = 256 * Gap(bytes, low) + Digit(bytes, Len(low) + 1)
<1> DEFINE n == Len(low)
           more == Append(low, 0)
<1>1. /\ n \in Nat /\ more \in Seq(Byte) /\ Len(more) = n + 1
      /\ more[n + 1] = 0 /\ \A i \in 1..n : more[i] = low[i]
  BY ByteType
<1> HIDE DEF more
<1>2. PICK g : IsGap(g, bytes, more) /\ Gap(bytes, more) = g[n + 1]
  BY <1>1, GapNumber
<1>3. /\ g \in [0..(n + 1) -> Int] /\ g[0] = 0
      /\ \A i \in 1..(n + 1) : g[i] = 256 * g[i - 1] + Distance(bytes, more, i)
  BY <1>1, <1>2 DEF IsGap
<1> DEFINE h == [i \in 0..n |-> g[i]]
<1>4. h \in [0..n -> Int] /\ h[0] = 0
  BY <1>1, <1>3
<1>5. ASSUME NEW i \in 1..n
      PROVE  h[i] = 256 * h[i - 1] + Distance(bytes, low, i)
  <2>1. i \in 1..(n + 1) /\ i \in 0..n /\ i - 1 \in 0..n
    BY <1>1
  <2>2. Distance(bytes, more, i) = Distance(bytes, low, i)
    BY <1>1 DEF Distance
  <2>3. QED
    BY <1>3, <2>1, <2>2
<1>6. IsGap(h, bytes, low)
  BY <1>4, <1>5 DEF IsGap
<1>7. Gap(bytes, low) = g[n]
  <2>1. h[n] = g[n]
    BY <1>1
  <2>2. QED
    BY <1>6, <2>1, GapNumber
<1>8. g[n + 1] = 256 * g[n] + Distance(bytes, more, n + 1)
  BY <1>1, <1>3
<1>9. Distance(bytes, more, n + 1) = Digit(bytes, n + 1)
  <2>1. Digit(bytes, n + 1) \in Int
    BY <1>1, DigitType
  <2>2. QED
    BY <1>1, <2>1 DEF Distance
<1>10. g[n] \in Int
  BY <1>1, <1>3
<1>11. QED
  BY <1>2, <1>7, <1>8, <1>9, <1>10 DEF more

\* Bytes that agree as far as the lower bound goes are as far from it.
LEMMA GapSame ==
  ASSUME NEW low \in Seq(Byte), NEW bytes, NEW others,
         \A i \in 1..Len(low) : Digit(bytes, i) = Digit(others, i)
  PROVE  Gap(bytes, low) = Gap(others, low)
BY DEF Gap

\* A payload that begins with the lower bound is not above it.
LEMMA GapOfPrefix ==
  ASSUME NEW bytes \in Seq(Byte), NEW low \in Seq(Byte),
         \A i \in 1..Len(low) : Digit(bytes, i) = low[i]
  PROVE  Gap(bytes, low) = 0
<1> DEFINE n == Len(low)
           g == [i \in 0..n |-> 0]
<1>1. n \in Nat
  OBVIOUS
<1>2. ASSUME NEW i \in 1..n
      PROVE  g[i] = 256 * g[i - 1] + Distance(bytes, low, i)
  <2>1. low[i] \in Byte /\ i - 1 \in 0..n /\ i \in 0..n
    OBVIOUS
  <2>2. low[i] \in Int
    BY <2>1, ByteType
  <2>3. Distance(bytes, low, i) = 0
    BY <2>2 DEF Distance
  <2>4. QED
    BY <2>1, <2>3
<1>3. g \in [0..n -> Int] /\ g[0] = 0 /\ g[n] = 0
  BY <1>1
<1>4. IsGap(g, bytes, low)
  BY <1>2, <1>3 DEF IsGap
<1> HIDE DEF g
<1>5. QED
  BY <1>3, <1>4, GapNumber

\* The first two bytes.
LEMMA GapOfStart ==
  ASSUME NEW bytes \in Seq(Byte), Len(bytes) >= 2
  PROVE  Gap(bytes, <<0, 0>>) = 256 * bytes[1] + bytes[2]
<1> DEFINE low == <<0, 0>>
<1>1. 0 \in Byte
  BY ByteType
<1>2. low \in Seq(Byte) /\ Len(low) = 2 /\ low[1] = 0 /\ low[2] = 0
  BY <1>1
<1> HIDE DEF low
<1>3. PICK g : IsGap(g, bytes, low) /\ Gap(bytes, low) = g[2]
  BY <1>2, GapNumber
<1>4. /\ g[0] = 0
      /\ g[1] = 256 * g[0] + Distance(bytes, low, 1)
      /\ g[2] = 256 * g[1] + Distance(bytes, low, 2)
  <2>1. 1 \in 1..2 /\ 2 \in 1..2
    OBVIOUS
  <2>2. 1 - 1 = 0 /\ 2 - 1 = 1
    OBVIOUS
  <2>3. QED
    BY <1>2, <1>3, <2>1, <2>2 DEF IsGap
<1>5. Digit(bytes, 1) = bytes[1] /\ Digit(bytes, 2) = bytes[2]
  BY DEF Digit
<1>6. bytes[1] \in Int /\ bytes[2] \in Int
  <2>1. bytes[1] \in Byte /\ bytes[2] \in Byte
    OBVIOUS
  <2>2. QED
    BY <2>1, ByteType
<1> DEFINE a == bytes[1]
           b == bytes[2]
<1>7. g[1] = a /\ g[2] = 256 * g[1] + b
  BY <1>2, <1>4, <1>5, <1>6 DEF Distance
<1>8. QED
  BY <1>3, <1>7 DEF low

\* Where the carry of add_to_low gets, byte by byte.
LEMMA CarrySteps ==
  ASSUME NEW low \in Seq(Byte), Len(low) >= 2, NEW value \in Nat,
         NEW i \in Nat, NEW k \in Nat, k = i + 1, k <= Len(low) - 2
  PROVE  /\ CarryReaches(low, value, i) <=>
              CarryReaches(low, value, k) /\ low[k] = 255
         /\ CarryReaches(low, value, k) /\ low[k] = 255 =>
              AddToLow(low, value)[k] = 0
         /\ CarryReaches(low, value, k) /\ low[k] # 255 =>
              AddToLow(low, value)[k] = low[k] + 1
         /\ ~CarryReaches(low, value, k) => AddToLow(low, value)[k] = low[k]
<1> DEFINE n == Len(low)
<1>1. n \in Nat /\ k \in 1..n /\ k # n /\ k # n - 1
  OBVIOUS
<1>2. low[k] \in Nat /\ low[k] <= 255
  <2>1. low[k] \in Byte
    BY <1>1
  <2>2. QED
    BY <2>1, ByteType
<1>3. CarryReaches(low, value, i) <=>
        CarryReaches(low, value, k) /\ low[k] = 255
  <2>1. (\A j \in (i + 1)..(n - 2) : low[j] = 255) <=>
        (\A j \in (k + 1)..(n - 2) : low[j] = 255) /\ low[k] = 255
    <3>1. k \in (i + 1)..(n - 2)
      BY <1>1
    <3>2. \A j \in (i + 1)..(n - 2) : j = k \/ j \in (k + 1)..(n - 2)
      BY <1>1
    <3>3. \A j \in (k + 1)..(n - 2) : j \in (i + 1)..(n - 2)
      BY <1>1
    <3>4. QED
      BY <3>1, <3>2, <3>3
  <2>2. QED
    BY <2>1 DEF CarryReaches
<1>4. AddToLow(low, value)[k] =
        IF CarryReaches(low, value, k) THEN (low[k] + 1) % 256 ELSE low[k]
  BY <1>1 DEF AddToLow
<1> DEFINE b == low[k]
<1> HIDE DEF b
<1>5. b \in Nat /\ b <= 255 => (b + 1) % 256 = IF b = 255 THEN 0 ELSE b + 1
  OBVIOUS
<1>6. (low[k] + 1) % 256 = IF low[k] = 255 THEN 0 ELSE low[k] + 1
  BY <1>2, <1>5 DEF b
<1>7. QED
  BY <1>3, <1>4, <1>6

\* The last digits, with the carry out of them, as numbers.
LEMMA CarriedTail ==
  ASSUME NEW g0 \in Int, NEW g1 \in Int, NEW g2 \in Int,
         NEW h0 \in Int, NEW h1 \in Int, NEW h2 \in Int,
         NEW a \in Int, NEW b \in Int, NEW c \in Int, NEW d \in Int,
         NEW x \in Int, NEW y \in Int, NEW over \in Int, NEW value \in Int,
         g1 = 256 * g0 + (x - a), g2 = 256 * g1 + (y - b),
         h1 = 256 * h0 + (x - c), h2 = 256 * h1 + (y - d),
         256 * c + d = 256 * a + b + value - 65536 * over,
         h0 = g0 - over
  PROVE  h2 = g2 - value
OBVIOUS

\* add_to_low raises the lower bound by the value: no carry is lost.
LEMMA GapAdd ==
  ASSUME NEW bytes \in Seq(Byte), NEW low \in Seq(Byte), Len(low) >= 2,
         NEW value \in Nat, value <= 65536, ~Overflows(low, value)
  PROVE  Gap(bytes, AddToLow(low, value)) = Gap(bytes, low) - value
<1> DEFINE n == Len(low)
           new == AddToLow(low, value)
           t == TailSum(low, value)
           carry(i) == IF CarryReaches(low, value, i) THEN 1 ELSE 0
<1>1. n \in Nat /\ n >= 2 /\ new \in Seq(Byte) /\ Len(new) = n
  BY AddToLowType
<1>2. PICK g : IsGap(g, bytes, low) /\ Gap(bytes, low) = g[n]
  BY GapNumber
<1>3. PICK h : IsGap(h, bytes, new) /\ Gap(bytes, new) = h[n]
  BY <1>1, GapNumber
<1>4. /\ g \in [0..n -> Int] /\ g[0] = 0
      /\ \A i \in 1..n : g[i] = 256 * g[i - 1] + Distance(bytes, low, i)
  BY <1>2 DEF IsGap
<1>5. /\ h \in [0..n -> Int] /\ h[0] = 0
      /\ \A i \in 1..n : h[i] = 256 * h[i - 1] + Distance(bytes, new, i)
  BY <1>1, <1>3 DEF IsGap
<1>6. ASSUME NEW i \in 1..n
      PROVE  /\ Digit(bytes, i) \in Int /\ low[i] \in Int /\ new[i] \in Int
             /\ Distance(bytes, low, i) = Digit(bytes, i) - low[i]
             /\ Distance(bytes, new, i) = Digit(bytes, i) - new[i]
  <2>1. low[i] \in Byte /\ new[i] \in Byte
    BY <1>1
  <2>2. low[i] \in Int /\ new[i] \in Int
    BY <2>1, ByteType
  <2>3. Digit(bytes, i) \in Int
    BY <1>1, DigitType
  <2>4. /\ Distance(bytes, low, i) = Digit(bytes, i) - low[i]
        /\ Distance(bytes, new, i) = Digit(bytes, i) - new[i]
    BY DEF Distance
  <2>5. QED
    BY <2>2, <2>3, <2>4
<1> HIDE DEF new, n
<1>7. h[n - 2] = g[n - 2] - carry(n - 2)
  <2> DEFINE S == {m \in Nat : m <= n - 2 => h[m] = g[m] - carry(m)}
  <2>1. 0 \in S
    <3>1. carry(0) = 0
      BY DEF Overflows
    <3>2. QED
      BY <1>4, <1>5, <3>1
  <2>2. ASSUME NEW m \in Nat, m \in S
        PROVE  m + 1 \in S
    <3> SUFFICES ASSUME m + 1 <= n - 2
                 PROVE  h[m + 1] = g[m + 1] - carry(m + 1)
      OBVIOUS
    <3>1. h[m] = g[m] - carry(m)
      BY <1>1, <2>2
    <3>2. m + 1 \in 1..n /\ (m + 1) - 1 = m /\ m \in 0..n
      BY <1>1
    <3> DEFINE a == low[m + 1]
               b == new[m + 1]
               d == Digit(bytes, m + 1)
    <3>3. a \in Int /\ b \in Int /\ d \in Int
      BY <1>6, <3>2
    <3>4. g[m + 1] = 256 * g[m] + (d - a) /\ h[m + 1] = 256 * h[m] + (d - b)
      BY <1>4, <1>5, <1>6, <3>2
    <3>5. /\ CarryReaches(low, value, m) <=> CarryReaches(low, value, m + 1) /\ a = 255
          /\ CarryReaches(low, value, m + 1) /\ a = 255 => b = 0
          /\ CarryReaches(low, value, m + 1) /\ a # 255 => b = a + 1
          /\ ~CarryReaches(low, value, m + 1) => b = a
      <4>1. PICK k \in Nat : k = m + 1
        OBVIOUS
      <4>2. k <= Len(low) - 2
        BY <4>1 DEF n
      <4>3. CarryReaches(low, value, m) <=> CarryReaches(low, value, k) /\ low[k] = 255
        BY <4>1, <4>2, CarrySteps
      <4>4. CarryReaches(low, value, k) /\ low[k] = 255 => AddToLow(low, value)[k] = 0
        BY <4>1, <4>2, <4>3, CarrySteps
      <4>5. CarryReaches(low, value, k) /\ low[k] # 255 => AddToLow(low, value)[k] = low[k] + 1
        BY <4>1, <4>2, <4>3, CarrySteps
      <4>6. ~CarryReaches(low, value, k) => AddToLow(low, value)[k] = low[k]
        BY <4>1, <4>2, <4>3, CarrySteps
      <4>7. QED
        BY <4>1, <4>3, <4>4, <4>5, <4>6 DEF new
    <3>6. g[m] \in Int /\ h[m] \in Int
      BY <1>4, <1>5, <3>2
    <3> DEFINE c0 == carry(m)
               c1 == carry(m + 1)
    <3>7. \/ c1 = 1 /\ a = 255 /\ c0 = 1 /\ b = 0
          \/ c1 = 1 /\ c0 = 0 /\ b = a + 1
          \/ c1 = 0 /\ c0 = 0 /\ b = a
      BY <3>5
    <3> DEFINE g0 == g[m]
               h0 == h[m]
               g1 == g[m + 1]
               h1 == h[m + 1]
    <3>8. /\ h0 = g0 - c0 /\ g1 = 256 * g0 + (d - a) /\ h1 = 256 * h0 + (d - b)
          /\ g0 \in Int /\ h0 \in Int /\ g1 \in Int /\ h1 \in Int
      <4>1. h0 = g0 - c0
        BY <3>1
      <4>2. g1 = 256 * g0 + (d - a) /\ h1 = 256 * h0 + (d - b)
        BY <3>4
      <4>3. m \in 0..n /\ m + 1 \in 0..n
        BY <3>2
      <4>4. g \in [0..n -> Int] /\ h \in [0..n -> Int]
        BY <1>4, <1>5
      <4>5. g0 \in Int /\ g1 \in Int /\ h0 \in Int /\ h1 \in Int
        BY <4>3, <4>4
      <4>6. QED
        BY <4>1, <4>2, <4>5
    <3> HIDE DEF a, b, d, c0, c1, g0, h0, g1, h1
    <3>10. h1 = g1 - c1
      <4>1. CASE c1 = 1 /\ a = 255 /\ c0 = 1 /\ b = 0
        BY <3>3, <3>8, <4>1
      <4>2. CASE c1 = 1 /\ c0 = 0 /\ b = a + 1
        BY <3>3, <3>8, <4>2
      <4>3. CASE c1 = 0 /\ c0 = 0 /\ b = a
        BY <3>3, <3>8, <4>3
      <4>4. QED
        BY <3>7, <4>1, <4>2, <4>3
    <3>9. QED
      BY <3>10 DEF c1, g1, h1
  <2> HIDE DEF S
  <2>3. n - 2 \in Nat
    BY <1>1
  <2>4. n - 2 \in S
    BY <2>1, <2>2, <2>3, SetInduction
  <2>5. QED
    BY <2>3, <2>4 DEF S
<1> DEFINE a == low[n - 1]
           b == low[n]
           c == new[n - 1]
           d == new[n]
           x == Digit(bytes, n - 1)
           y == Digit(bytes, n)
           over == carry(n - 2)
<1>8. /\ a \in Nat /\ a <= 255 /\ b \in Nat /\ b <= 255 /\ t = 256 * a + b + value
  BY TailBytes DEF TailSum, n
<1>9. c = (t \div 256) % 256 /\ d = t % 256
  <2>1. n - 1 \in 1..n /\ n \in 1..n /\ n - 1 # n
    BY <1>1
  <2>2. new = [i \in 1..n |->
                 CASE i = n     -> t % 256
                   [] i = n - 1 -> (t \div 256) % 256
                   [] OTHER -> IF CarryReaches(low, value, i) THEN (low[i] + 1) % 256
                               ELSE low[i]]
    BY DEF AddToLow, n, new
  <2> HIDE DEF t
  <2>3. QED
    BY <2>1, <2>2
<1>10. over = IF t >= 65536 THEN 1 ELSE 0
  <2>1. \A j \in ((n - 2) + 1)..(n - 2) : FALSE
    BY <1>1
  <2>2. CarryReaches(low, value, n - 2) <=> t >= 65536
    BY <2>1 DEF CarryReaches, n
  <2> DEFINE large == t >= 65536
             reached == CarryReaches(low, value, n - 2)
  <2>3. reached <=> large
    BY <2>2
  <2>4. over = IF reached THEN 1 ELSE 0
    OBVIOUS
  <2> HIDE DEF large, reached, over
  <2>5. over = IF large THEN 1 ELSE 0
    BY <2>3, <2>4
  <2>6. QED
    BY <2>5 DEF large
<1> DEFINE g0 == g[n - 2]
           g1 == g[n - 1]
           g2 == g[n]
           h0 == h[n - 2]
           h1 == h[n - 1]
           h2 == h[n]
<1>11. /\ n - 1 \in 1..n /\ n \in 1..n /\ (n - 1) - 1 = n - 2
       /\ n - 2 \in 0..n /\ n - 1 \in 0..n /\ n \in 0..n
  BY <1>1
<1>12. /\ g0 \in Int /\ g1 \in Int /\ g2 \in Int
       /\ h0 \in Int /\ h1 \in Int /\ h2 \in Int
       /\ x \in Int /\ y \in Int
  <2>1. g0 \in Int /\ g1 \in Int /\ g2 \in Int
    BY <1>4, <1>11
  <2>2. h0 \in Int /\ h1 \in Int /\ h2 \in Int
    BY <1>5, <1>11
  <2>3. x \in Int /\ y \in Int
    BY <1>6, <1>11
  <2>4. QED
    BY <2>1, <2>2, <2>3
<1>13. g1 = 256 * g0 + (x - a) /\ g2 = 256 * g1 + (y - b)
  <2>1. /\ g[n - 1] = 256 * g[(n - 1) - 1] + Distance(bytes, low, n - 1)
        /\ g[n] = 256 * g[n - 1] + Distance(bytes, low, n)
    <3>1. g[n - 1] = 256 * g[(n - 1) - 1] + Distance(bytes, low, n - 1)
      BY <1>4, <1>11
    <3>2. g[n] = 256 * g[n - 1] + Distance(bytes, low, n)
      BY <1>4, <1>11
    <3>3. QED
      BY <3>1, <3>2
  <2>2. Distance(bytes, low, n - 1) = x - a /\ Distance(bytes, low, n) = y - b
    BY <1>6, <1>11
  <2>3. QED
    BY <1>11, <2>1, <2>2
<1>14. h1 = 256 * h0 + (x - c) /\ h2 = 256 * h1 + (y - d)
  <2>1. h[n - 1] = 256 * h[(n - 1) - 1] + Distance(bytes, new, n - 1)
    BY <1>5, <1>11
  <2>2. h[n] = 256 * h[n - 1] + Distance(bytes, new, n)
    BY <1>5, <1>11
  <2>3. Distance(bytes, new, n - 1) = x - c /\ Distance(bytes, new, n) = y - d
    BY <1>6, <1>11
  <2>4. QED
    BY <1>11, <2>1, <2>2, <2>3
<1> HIDE DEF a, b, c, d, x, y, t, over, carry, g0, g1, g2, h0, h1, h2
<1>15. t \in Nat /\ t < 2 * 65536
  BY <1>8
<1>16. 256 * c + d = 256 * a + b + value - 65536 * over /\ c \in Int /\ d \in Int /\ over \in Int
  BY <1>8, <1>9, <1>10, <1>15
<1>17. h0 = g0 - over
  BY <1>7 DEF over, g0, h0
<1>18. h2 = g2 - value
  BY <1>8, <1>12, <1>13, <1>14, <1>16, <1>17, CarriedTail
<1>19. QED
  BY <1>2, <1>3, <1>18 DEF new, g2, h2

\* The part of the range that stands for a one, the part that a decision takes, and how
\* far a payload is above the lower bound of that part.
OnePart(coder, context, decision) ==
  OneRange(coder.range, coder.states[context][decision.slot])

Part(coder, context, decision) ==
  IF decision.bit THEN OnePart(coder, context, decision)
  ELSE coder.range - OnePart(coder, context, decision)

Rest(coder, context, decision, bytes) ==
  IF decision.bit
  THEN Gap(bytes, coder.low_bytes) - (coder.range - OnePart(coder, context, decision))
  ELSE Gap(bytes, coder.low_bytes)

\* What a decision makes of the interval and of the distance of a payload from it.
LEMMA NarrowedGap ==
  ASSUME NEW coder \in EncoderStates, Len(coder.low_bytes) >= 2,
         ~Overflows(coder.low_bytes, coder.range),
         NEW context \in Contexts, NEW decision \in [slot : Slots, bit : BOOLEAN],
         NEW bytes \in Seq(Byte)
  PROVE  LET one == OnePart(coder, context, decision)
             range == Part(coder, context, decision)
             rest == Rest(coder, context, decision, bytes)
             new == Narrowed(coder, context, decision)
         IN /\ one \in Nat /\ range \in Nat /\ rest \in Int
            /\ Gap(bytes, coder.low_bytes) \in Int /\ coder.range \in Nat
            /\ 8 <= one /\ one <= coder.range - 8
            /\ new.states = Adapted(coder.states, context, decision.slot, decision.bit)
            /\ ~TooSmall(range) => /\ new.range = range
                                   /\ Len(new.low_bytes) = Len(coder.low_bytes)
                                   /\ Gap(bytes, new.low_bytes) = rest
            /\ TooSmall(range) =>
                 /\ new.range = range * 256
                 /\ Len(new.low_bytes) = Len(coder.low_bytes) + 1
                 /\ Gap(bytes, new.low_bytes) =
                      256 * rest + Digit(bytes, Len(coder.low_bytes) + 1)
<1> DEFINE one == OnePart(coder, context, decision)
           range == Part(coder, context, decision)
           gap == Gap(bytes, coder.low_bytes)
           rest == Rest(coder, context, decision, bytes)
           new == Narrowed(coder, context, decision)
<1> SUFFICES /\ one \in Nat /\ range \in Nat /\ gap \in Int /\ rest \in Int
             /\ coder.range \in Nat
             /\ 8 <= one /\ one <= coder.range - 8
             /\ new.states = Adapted(coder.states, context, decision.slot, decision.bit)
             /\ ~TooSmall(range) => /\ new.range = range
                                    /\ Len(new.low_bytes) = Len(coder.low_bytes)
                                    /\ Gap(bytes, new.low_bytes) = rest
             /\ TooSmall(range) =>
                  /\ new.range = range * 256
                  /\ Len(new.low_bytes) = Len(coder.low_bytes) + 1
                  /\ Gap(bytes, new.low_bytes) =
                       256 * rest + Digit(bytes, Len(coder.low_bytes) + 1)
  OBVIOUS
<1>0. /\ one = OneRange(coder.range, coder.states[context][decision.slot])
      /\ range = (IF decision.bit THEN one ELSE coder.range - one)
      /\ gap = Gap(bytes, coder.low_bytes)
      /\ rest = (IF decision.bit THEN gap - (coder.range - one) ELSE gap)
      /\ new = Narrowed(coder, context, decision)
  BY DEF OnePart, Part, Rest
<1> HIDE DEF one, range, gap, rest, new
<1> DEFINE low == IF decision.bit THEN AddToLow(coder.low_bytes, coder.range - one)
                  ELSE coder.low_bytes
<1>1. /\ coder.range \in 256..MaxRange /\ coder.low_bytes \in Seq(Byte)
      /\ coder.states \in [Contexts -> [Slots -> Live]]
      /\ decision.slot \in Slots /\ decision.bit \in BOOLEAN
  BY DEF EncoderStates
<1>2. one \in Nat /\ 8 <= one /\ one <= coder.range - 8
  <2>1. coder.states[context][decision.slot] \in Live
    BY <1>1
  <2>2. QED
    BY <1>0, <1>1, <2>1, Split
<1>3. coder.range \in Nat /\ coder.range <= 65280
  <2>1. coder.range \in Int /\ 256 <= coder.range /\ coder.range <= MaxRange
    BY <1>1, RangeType
  <2>2. QED
    BY <2>1, MaxRangeValue
<1>4. gap \in Int /\ rest \in Int /\ range \in Nat
  <2>1. gap \in Int
    BY <1>0, <1>1, GapAppend
  <2>2. QED
    BY <1>0, <1>2, <1>3, <2>1
<1>5. /\ low \in Seq(Byte) /\ Len(low) = Len(coder.low_bytes)
      /\ Gap(bytes, low) = rest
  <2>1. CASE decision.bit
    <3> DEFINE value == coder.range - one
    <3>1. value \in Nat /\ value <= coder.range /\ value <= 65536
      BY <1>2, <1>3
    <3> HIDE DEF value
    <3>2. ~Overflows(coder.low_bytes, value)
      BY <1>1, <1>3, <3>1, LowerPartFits
    <3>3. /\ AddToLow(coder.low_bytes, value) \in Seq(Byte)
          /\ Len(AddToLow(coder.low_bytes, value)) = Len(coder.low_bytes)
      BY <1>1, <3>1, AddToLowType
    <3>4. Gap(bytes, AddToLow(coder.low_bytes, value)) = Gap(bytes, coder.low_bytes) - value
      BY <1>1, <3>1, <3>2, GapAdd
    <3>5. low = AddToLow(coder.low_bytes, value) /\ rest = gap - value
      BY <1>0, <2>1 DEF value
    <3>6. QED
      BY <1>0, <3>3, <3>4, <3>5
  <2>2. CASE ~decision.bit
    BY <1>0, <1>1, <2>2
  <2>3. QED
    BY <1>1, <2>1, <2>2
<1>6. new = [range     |-> IF TooSmall(range) THEN range * 256 ELSE range,
             low_bytes |-> IF TooSmall(range) THEN Append(low, 0) ELSE low,
             states    |-> Adapted(coder.states, context, decision.slot, decision.bit)]
  BY <1>0 DEF Narrowed
<1> HIDE DEF low
<1>7. new.states = Adapted(coder.states, context, decision.slot, decision.bit)
  BY <1>6
<1>8. CASE TooSmall(range)
  <2>1. new.range = range * 256 /\ new.low_bytes = Append(low, 0)
    BY <1>6, <1>8
  <2>2. Len(Append(low, 0)) = Len(coder.low_bytes) + 1
    <3>1. Len(Append(low, 0)) = Len(low) + 1
      BY <1>5
    <3>2. QED
      BY <1>5, <3>1
  <2>3. Gap(bytes, Append(low, 0)) = 256 * rest + Digit(bytes, Len(coder.low_bytes) + 1)
    <3>1. Gap(bytes, Append(low, 0)) = 256 * Gap(bytes, low) + Digit(bytes, Len(low) + 1)
      BY <1>5, GapAppend, SMTT(30)
    <3>2. QED
      BY <1>5, <3>1
  <2>4. QED
    BY <1>2, <1>3, <1>4, <1>7, <1>8, <2>1, <2>2, <2>3
<1>9. CASE ~TooSmall(range)
  <2>1. new.range = range /\ new.low_bytes = low
    BY <1>6, <1>9
  <2>2. QED
    BY <1>2, <1>3, <1>4, <1>5, <1>7, <1>9, <2>1
<1>10. QED
  BY <1>8, <1>9

\* A payload in the interval behind a decision was in the one before it, in the part
\* that stands for the decision.
LEMMA NarrowedContains ==
  ASSUME NEW coder \in EncoderStates, Len(coder.low_bytes) >= 2,
         ~Overflows(coder.low_bytes, coder.range),
         NEW context \in Contexts, NEW decision \in [slot : Slots, bit : BOOLEAN],
         NEW bytes \in Seq(Byte),
         Contains(Narrowed(coder, context, decision), bytes)
  PROVE  /\ Contains(coder, bytes)
         /\ decision.bit <=>
              Gap(bytes, coder.low_bytes) >= coder.range - OnePart(coder, context, decision)
<1> DEFINE one == OnePart(coder, context, decision)
           range == Part(coder, context, decision)
           gap == Gap(bytes, coder.low_bytes)
           rest == Rest(coder, context, decision, bytes)
           new == Narrowed(coder, context, decision)
           whole == coder.range
           digit == Digit(bytes, Len(coder.low_bytes) + 1)
<1>0. /\ range = (IF decision.bit THEN one ELSE whole - one)
      /\ rest = (IF decision.bit THEN gap - (whole - one) ELSE gap)
  BY DEF Part, Rest
<1>1. /\ one \in Nat /\ range \in Nat /\ gap \in Int /\ rest \in Int /\ whole \in Nat
      /\ 8 <= one /\ one <= whole - 8
      /\ ~TooSmall(range) => new.range = range /\ Gap(bytes, new.low_bytes) = rest
      /\ TooSmall(range) => /\ new.range = range * 256
                            /\ Gap(bytes, new.low_bytes) = 256 * rest + digit
  BY NarrowedGap
<1>2. digit \in Nat /\ digit <= 255
  <2>1. Len(coder.low_bytes) \in Nat
    BY DEF EncoderStates
  <2>2. Len(coder.low_bytes) + 1 \in Nat /\ Len(coder.low_bytes) + 1 >= 1
    BY <2>1
  <2>3. QED
    BY <2>2, DigitType
<1>3. 0 <= Gap(bytes, new.low_bytes) /\ Gap(bytes, new.low_bytes) < new.range
  BY DEF Contains
<1>4. decision.bit \in BOOLEAN
  OBVIOUS
<1>5. /\ decision.bit => range = one /\ rest = gap - (whole - one)
      /\ ~decision.bit => range = whole - one /\ rest = gap
  BY <1>0
<1> HIDE DEF one, range, gap, rest, new, whole, digit
<1>6. 0 <= rest /\ rest < range
  <2>1. CASE TooSmall(range)
    <3>1. 0 <= 256 * rest + digit /\ 256 * rest + digit < range * 256
      BY <1>1, <1>3, <2>1
    <3>2. QED
      BY <1>1, <1>2, <3>1
  <2>2. CASE ~TooSmall(range)
    BY <1>1, <1>3, <2>2
  <2>3. QED
    BY <2>1, <2>2
<1>7. 0 <= gap /\ gap < whole /\ (decision.bit <=> gap >= whole - one)
  <2>1. CASE decision.bit
    BY <1>1, <1>5, <1>6, <2>1
  <2>2. CASE ~decision.bit
    BY <1>1, <1>5, <1>6, <2>2
  <2>3. QED
    BY <1>4, <2>1, <2>2
<1>8. QED
  BY <1>7 DEF Contains, one, gap, whole

(***************************************************************************)
(* The code of a symbol, and how it is parsed.                             *)
(***************************************************************************)

\* The powers of two up to n.
ArePowers(power, n) ==
  /\ power \in [0..n -> Nat \ {0}]
  /\ power[0] = 1
  /\ \A i \in 1..n : power[i] = 2 * power[i - 1]

LEMMA PowersExist ==
  ASSUME NEW n \in Nat
  PROVE  \E power : ArePowers(power, n)
<1> DEFINE S == {m \in Nat : \E power : ArePowers(power, m)}
<1>1. 0 \in S
  <2> DEFINE power == [i \in 0..0 |-> 1]
  <2>1. ArePowers(power, 0)
    BY DEF ArePowers
  <2>2. QED
    BY <2>1
<1>2. ASSUME NEW m \in Nat, m \in S
      PROVE  m + 1 \in S
  <2>1. PICK g : ArePowers(g, m)
    BY <1>2
  <2> DEFINE top == 2 * g[m]
             h == [i \in 0..(m + 1) |-> IF i = m + 1 THEN top ELSE g[i]]
  <2>2. /\ g \in [0..m -> Nat \ {0}] /\ g[0] = 1
        /\ \A i \in 1..m : g[i] = 2 * g[i - 1]
    BY <2>1 DEF ArePowers
  <2>3. top \in Nat \ {0}
    BY <2>2
  <2> HIDE DEF top
  <2>4. h \in [0..(m + 1) -> Nat \ {0}] /\ h[0] = 1
    BY <2>2, <2>3
  <2>5. ASSUME NEW i \in 1..(m + 1)
        PROVE  h[i] = 2 * h[i - 1]
    <3>1. CASE i = m + 1
      BY <3>1 DEF top
    <3>2. CASE i # m + 1
      BY <2>2, <3>2
    <3>3. QED
      BY <3>1, <3>2
  <2>6. ArePowers(h, m + 1)
    BY <2>4, <2>5 DEF ArePowers
  <2>7. QED
    BY <2>6
<1> HIDE DEF S
<1>3. n \in S
  BY <1>1, <1>2, SetInduction
<1>4. QED
  BY <1>3 DEF S

LEMMA Powers ==
  /\ Power[0] = 1
  /\ \A n \in 0..(MaxExponent + 1) : Power[n] \in Nat \ {0}
  /\ \A n \in 1..(MaxExponent + 1) : Power[n] = 2 * Power[n - 1]
<1> DEFINE n == MaxExponent + 1
<1>1. n \in Nat
  BY CodingAssumption
<1> DEFINE F(power) == [i \in 0..n |-> IF i = 0 THEN 1 ELSE 2 * power[i - 1]]
           h == CHOOSE power : power = F(power)
<1>2. Power = h
  BY DEF Power
<1> HIDE DEF n
<1>3. PICK g : ArePowers(g, n)
  BY <1>1, PowersExist
<1>4. g = F(g)
  BY <1>3 DEF ArePowers
<1>5. h = F(h)
  BY <1>4
<1> HIDE DEF h
<1>6. ASSUME NEW i \in 0..n
      PROVE  h[i] = IF i = 0 THEN 1 ELSE 2 * h[i - 1]
  BY <1>5
<1>7. ASSUME NEW i \in 0..n
      PROVE  h[i] \in Nat \ {0}
  <2> DEFINE S == {m \in Nat : m <= n => h[m] \in Nat \ {0}}
  <2>1. 0 \in S
    BY <1>6, <1>1
  <2>2. ASSUME NEW m \in Nat, m \in S
        PROVE  m + 1 \in S
    <3>1. CASE m + 1 <= n
      <4>1. m + 1 \in 0..n /\ (m + 1) - 1 = m /\ h[m] \in Nat \ {0} /\ m + 1 # 0
        BY <2>2, <3>1, <1>1
      <4>2. h[m + 1] = 2 * h[m]
        BY <1>6, <4>1
      <4>3. QED
        BY <4>1, <4>2
    <3>2. CASE ~(m + 1 <= n)
      BY <3>2
    <3>3. QED
      BY <3>1, <3>2
  <2> HIDE DEF S
  <2>3. Nat \subseteq S
    BY <2>1, <2>2, SetInduction
  <2>4. i \in Nat /\ i <= n
    BY <1>1
  <2>5. QED
    BY <2>3, <2>4 DEF S
<1>8. 0 \in 0..n /\ \A i \in 1..n : i \in 0..n /\ i # 0
  BY <1>1
<1>9. h[0] = 1 /\ \A i \in 1..n : h[i] = 2 * h[i - 1]
  BY <1>6, <1>8
<1>10. QED
  BY <1>2, <1>7, <1>9 DEF n

LEMMA Quotient ==
  ASSUME NEW m \in Nat, NEW p \in Nat \ {0}
  PROVE  /\ m \div p \in Nat
         /\ (m \div p) * p <= m /\ m < (m \div p) * p + p
OBVIOUS

\* The quotient by a power and the one by its double differ by a bit.
LEMMA HalfQuotient ==
  ASSUME NEW m \in Nat, NEW p \in Nat \ {0}, NEW q \in Nat, q = 2 * p
  PROVE  /\ m \div q \in Nat /\ m \div p \in Nat
         /\ m \div p = 2 * (m \div q) + ((m \div p) % 2)
<1> DEFINE a == m \div p
           b == m \div q
           x == a * p
           y == b * p
<1>1. a \in Nat /\ b \in Nat /\ x <= m /\ m < x + p
  BY Quotient
<1>2. b * q <= m /\ m < b * q + q
  <2>1. q \in Nat \ {0}
    OBVIOUS
  <2>2. QED
    BY <2>1, Quotient
<1>3. b * q = 2 * y
  BY <1>1
<1>4. x \in Nat /\ y \in Nat
  BY <1>1
<1> HIDE DEF a, b
<1>5. a >= 2 * b
  <2> SUFFICES ASSUME a + 1 <= 2 * b PROVE FALSE
    BY <1>1
  <2>1. (2 * b - (a + 1)) * p >= 0
    BY <1>1
  <2>2. (2 * b - (a + 1)) * p = 2 * y - x - p
    BY <1>1
  <2> HIDE DEF x, y
  <2>3. QED
    BY <1>1, <1>2, <1>3, <1>4, <2>1, <2>2
<1>6. a <= 2 * b + 1
  <2> SUFFICES ASSUME a >= 2 * b + 2 PROVE FALSE
    BY <1>1
  <2>1. (a - (2 * b + 2)) * p >= 0
    BY <1>1
  <2>2. (a - (2 * b + 2)) * p = x - 2 * y - 2 * p
    BY <1>1
  <2> HIDE DEF x, y
  <2>3. QED
    BY <1>1, <1>2, <1>3, <1>4, <2>1, <2>2
<1>7. a = 2 * b + (a % 2)
  BY <1>1, <1>5, <1>6
<1>8. QED
  BY <1>1, <1>7 DEF a, b

\* The quotient of a number that has the exponent of the power is 1.
LEMMA LeadingBit ==
  ASSUME NEW m \in Nat, NEW p \in Nat \ {0}, p <= m, m < 2 * p
  PROVE  m \div p = 1
<1> DEFINE a == m \div p
           x == a * p
<1>1. a \in Nat /\ x <= m /\ m < x + p
  BY Quotient
<1> HIDE DEF a
<1>2. a >= 1
  BY <1>1
<1>3. a < 2
  <2> SUFFICES ASSUME a >= 2 PROVE FALSE
    BY <1>1
  <2>1. (a - 2) * p >= 0
    BY <1>1
  <2>2. (a - 2) * p = x - 2 * p
    BY <1>1
  <2>3. x \in Nat
    BY <1>1
  <2> HIDE DEF x
  <2>4. QED
    BY <1>1, <2>1, <2>2, <2>3
<1>4. QED
  BY <1>1, <1>2, <1>3 DEF a

\* What a member of a concatenation is.
LEMMA ConcatenationAt ==
  ASSUME NEW S, NEW s \in Seq(S), NEW t \in Seq(S), NEW j \in Nat, j >= 1
  PROVE  /\ j <= Len(s) => (s \o t)[j] = s[j]
         /\ j > Len(s) /\ j <= Len(s) + Len(t) => (s \o t)[j] = t[j - Len(s)]
OBVIOUS

Parts(a, b, c, d, f) == a \o b \o c \o d \o f

HasParts(w, a, b, c, d, f) ==
  /\ Len(w) = 2 * Len(b) + 2 + Len(f)
  /\ w[1] = a[1]
  /\ \A j \in Nat : 2 <= j /\ j <= Len(b) + 1 => w[j] = b[j - 1]
  /\ w[Len(b) + 2] = c[1]
  /\ \A j \in Nat : Len(b) + 3 <= j /\ j <= 2 * Len(b) + 2 => w[j] = d[j - (Len(b) + 2)]
  /\ Len(f) = 1 => w[2 * Len(b) + 3] = f[1]

\* The parts of a code: a decision, as many as the exponent, a decision, as many again,
\* and the sign.
LEMMA FiveParts ==
  ASSUME NEW a \in Seq(DecisionType), NEW b \in Seq(DecisionType), NEW c \in Seq(DecisionType),
         NEW d \in Seq(DecisionType), NEW f \in Seq(DecisionType),
         Len(a) = 1, Len(c) = 1, Len(d) = Len(b)
  PROVE  HasParts(Parts(a, b, c, d, f), a, b, c, d, f)
<1> DEFINE e == Len(b)
<1>0. e \in Nat /\ Len(b) = e /\ Len(d) = e
  OBVIOUS
<1> HIDE DEF e
<1> DEFINE w2 == a \o b
<1>1. w2 \in Seq(DecisionType) /\ Len(w2) = e + 1
  <2>1. w2 \in Seq(DecisionType)
    BY Concatenation
  <2>2. Len(w2) = Len(a) + Len(b)
    BY Concatenation
  <2>3. QED
    BY <1>0, <2>1, <2>2
<1>2. w2[1] = a[1] /\ \A j \in Nat : 2 <= j /\ j <= e + 1 => w2[j] = b[j - 1]
  <2>1. w2[1] = a[1]
    <3>1. PICK j \in Nat : j = 1
      OBVIOUS
    <3>2. j >= 1 /\ j <= Len(a)
      BY <3>1
    <3>3. w2[j] = a[j]
      BY <3>2, ConcatenationAt
    <3>4. QED
      BY <3>1, <3>3
  <2>2. ASSUME NEW j \in Nat, 2 <= j, j <= e + 1
        PROVE  w2[j] = b[j - 1]
    <3>1. j > Len(a) /\ j <= Len(a) + Len(b) /\ j - Len(a) = j - 1 /\ j >= 1
      BY <1>0, <2>2
    <3>2. w2[j] = b[j - Len(a)]
      BY <3>1, ConcatenationAt
    <3>3. QED
      BY <3>1, <3>2
  <2>3. QED
    BY <2>1, <2>2
<1> HIDE DEF w2
<1> DEFINE w3 == w2 \o c
<1>3. w3 \in Seq(DecisionType) /\ Len(w3) = e + 2
  <2>1. w3 \in Seq(DecisionType)
    BY <1>1, Concatenation
  <2>2. Len(w3) = Len(w2) + Len(c)
    BY <1>1, Concatenation
  <2>3. QED
    BY <1>0, <1>1, <2>1, <2>2
<1>4. (\A j \in Nat : 1 <= j /\ j <= e + 1 => w3[j] = w2[j]) /\ w3[e + 2] = c[1]
  <2>1. ASSUME NEW j \in Nat, 1 <= j, j <= e + 1
        PROVE  w3[j] = w2[j]
    BY <1>0, <1>1, <2>1, ConcatenationAt
  <2>2. w3[e + 2] = c[1]
    <3> DEFINE j == e + 2
    <3>1. j \in Nat /\ j > Len(w2) /\ j <= Len(w2) + Len(c) /\ j - Len(w2) = 1 /\ j >= 1
      BY <1>0, <1>1
    <3> HIDE DEF j
    <3>2. w3[j] = c[j - Len(w2)]
      BY <1>1, <3>1, ConcatenationAt
    <3>3. QED
      BY <3>1, <3>2 DEF j
  <2>3. QED
    BY <2>1, <2>2
<1> HIDE DEF w3
<1> DEFINE w4 == w3 \o d
<1>5. w4 \in Seq(DecisionType) /\ Len(w4) = 2 * e + 2
  <2>1. w4 \in Seq(DecisionType)
    BY <1>3, Concatenation
  <2>2. Len(w4) = Len(w3) + Len(d)
    BY <1>3, Concatenation
  <2>3. QED
    BY <1>0, <1>3, <2>1, <2>2
<1>6. /\ \A j \in Nat : 1 <= j /\ j <= e + 2 => w4[j] = w3[j]
      /\ \A j \in Nat : e + 3 <= j /\ j <= 2 * e + 2 => w4[j] = d[j - (e + 2)]
  <2>1. ASSUME NEW j \in Nat, 1 <= j, j <= e + 2
        PROVE  w4[j] = w3[j]
    BY <1>0, <1>3, <2>1, ConcatenationAt
  <2>2. ASSUME NEW j \in Nat, e + 3 <= j, j <= 2 * e + 2
        PROVE  w4[j] = d[j - (e + 2)]
    <3>1. j > Len(w3) /\ j <= Len(w3) + Len(d) /\ j - Len(w3) = j - (e + 2) /\ j >= 1
      BY <1>0, <1>3, <2>2
    <3>2. w4[j] = d[j - Len(w3)]
      BY <1>3, <3>1, ConcatenationAt
    <3>3. QED
      BY <3>1, <3>2
  <2>3. QED
    BY <2>1, <2>2
<1> HIDE DEF w4
<1> DEFINE w5 == w4 \o f
<1>7. Len(f) \in Nat /\ Len(w5) = 2 * e + 2 + Len(f)
  <2>1. Len(w5) = Len(w4) + Len(f)
    BY <1>5, Concatenation
  <2>2. QED
    BY <1>0, <1>5, <2>1
<1>8. /\ \A j \in Nat : 1 <= j /\ j <= 2 * e + 2 => w5[j] = w4[j]
      /\ Len(f) = 1 => w5[2 * e + 3] = f[1]
  <2>1. ASSUME NEW j \in Nat, 1 <= j, j <= 2 * e + 2
        PROVE  w5[j] = w4[j]
    BY <1>0, <1>5, <2>1, ConcatenationAt
  <2>2. ASSUME Len(f) = 1
        PROVE  w5[2 * e + 3] = f[1]
    <3> DEFINE j == 2 * e + 3
    <3>1. j \in Nat /\ j > Len(w4) /\ j <= Len(w4) + Len(f) /\ j - Len(w4) = 1 /\ j >= 1
      BY <1>0, <1>5, <2>2
    <3> HIDE DEF j
    <3>2. w5[j] = f[j - Len(w4)]
      BY <1>5, <3>1, ConcatenationAt
    <3>3. QED
      BY <3>1, <3>2 DEF j
  <2>3. QED
    BY <2>1, <2>2
<1> HIDE DEF w5
<1>9. w5[1] = a[1]
  <2>1. 1 \in Nat /\ 1 <= e + 1 /\ 1 <= e + 2 /\ 1 <= 2 * e + 2
    BY <1>0
  <2>2. w5[1] = w4[1]
    BY <1>8, <2>1
  <2>3. w4[1] = w3[1]
    BY <1>6, <2>1
  <2>4. w3[1] = w2[1]
    BY <1>4, <2>1
  <2>5. QED
    BY <1>2, <2>2, <2>3, <2>4
<1>10. \A j \in Nat : 2 <= j /\ j <= e + 1 => w5[j] = b[j - 1]
  <2> TAKE j \in Nat
  <2> HAVE 2 <= j /\ j <= e + 1
  <2>1. w5[j] = w4[j] /\ w4[j] = w3[j] /\ w3[j] = w2[j]
    BY <1>0, <1>4, <1>6, <1>8
  <2>2. QED
    BY <1>2, <2>1
<1>11. w5[e + 2] = c[1]
  <2>1. e + 2 \in Nat /\ 1 <= e + 2 /\ e + 2 <= 2 * e + 2
    BY <1>0
  <2>2. w5[e + 2] = w4[e + 2] /\ w4[e + 2] = w3[e + 2]
    BY <1>6, <1>8, <2>1
  <2>3. QED
    BY <1>4, <2>2
<1>12. \A j \in Nat : e + 3 <= j /\ j <= 2 * e + 2 => w5[j] = d[j - (e + 2)]
  BY <1>0, <1>6, <1>8
<1>13. w5 = Parts(a, b, c, d, f)
  BY DEF Parts, w2, w3, w4, w5
<1>14. QED
  BY <1>7, <1>8, <1>9, <1>10, <1>11, <1>12, <1>13 DEF e, HasParts

\* The exponent of a symbol.
Top(symbol) == Exponent(Magnitude(symbol.value))

LEMMA TopType ==
  ASSUME NEW symbol \in Symbols, Writable(symbol), symbol.kind # "bool", symbol.value # 0
  PROVE  /\ Top(symbol) \in Nat /\ Top(symbol) <= MaxExponent
         /\ Magnitude(symbol.value) \in Nat \ {0}
         /\ Power[Top(symbol)] <= Magnitude(symbol.value)
         /\ Magnitude(symbol.value) < Power[Top(symbol) + 1]
<1>1. symbol.value \in Int
  BY DEF Symbols
<1>2. PICK e \in 0..MaxExponent : HasExponent(Magnitude(symbol.value), e)
  BY DEF Writable, Codable
<1>3. /\ Top(symbol) \in 0..MaxExponent
      /\ HasExponent(Magnitude(symbol.value), Top(symbol))
  BY <1>2 DEF Top, Exponent
<1>4. Magnitude(symbol.value) \in Nat \ {0}
  BY <1>1 DEF Magnitude
<1>5. QED
  BY <1>3, <1>4, CodingAssumption DEF HasExponent

\* The decisions of a symbol, by their number.
LEMMA DecisionsAt ==
  ASSUME NEW symbol \in Symbols, Writable(symbol), symbol.kind # "bool", symbol.value # 0
  PROVE  LET d == Decisions(symbol)
             e == Top(symbol)
             m == Magnitude(symbol.value)
         IN /\ Len(d) = 2 * e + (IF symbol.kind = "signed" THEN 3 ELSE 2)
            /\ d[1] = Decision(0, FALSE)
            /\ \A j \in Nat : 2 <= j /\ j <= e + 1 => d[j] = Decision(1 + AtMost(j - 2, 9), TRUE)
            /\ d[e + 2] = Decision(1 + AtMost(e, 9), FALSE)
            /\ \A j \in Nat : e + 3 <= j /\ j <= 2 * e + 2 =>
                 d[j] = Decision(22 + AtMost(2 * e + 2 - j, 9), (m \div Power[2 * e + 2 - j]) % 2 = 1)
            /\ symbol.kind = "signed" =>
                 d[2 * e + 3] = Decision(11 + AtMost(e, 10), symbol.value < 0)
<1> DEFINE d == Decisions(symbol)
           e == Top(symbol)
           m == Magnitude(symbol.value)
           zero == <<Decision(0, FALSE)>>
           prefix == [i \in 1..e |-> Decision(1 + AtMost(i - 1, 9), TRUE)]
           stop == <<Decision(1 + AtMost(e, 9), FALSE)>>
           mantissa == [i \in 1..e |-> Decision(22 + AtMost(e - i, 9), (m \div Power[e - i]) % 2 = 1)]
           sign == IF symbol.kind = "signed"
                   THEN <<Decision(11 + AtMost(e, 10), symbol.value < 0)>> ELSE <<>>
<1> SUFFICES /\ Len(d) = 2 * e + (IF symbol.kind = "signed" THEN 3 ELSE 2)
             /\ d[1] = Decision(0, FALSE)
             /\ \A j \in Nat : 2 <= j /\ j <= e + 1 => d[j] = Decision(1 + AtMost(j - 2, 9), TRUE)
             /\ d[e + 2] = Decision(1 + AtMost(e, 9), FALSE)
             /\ \A j \in Nat : e + 3 <= j /\ j <= 2 * e + 2 =>
                  d[j] = Decision(22 + AtMost(2 * e + 2 - j, 9),
                                  (m \div Power[2 * e + 2 - j]) % 2 = 1)
             /\ symbol.kind = "signed" =>
                  d[2 * e + 3] = Decision(11 + AtMost(e, 10), symbol.value < 0)
  OBVIOUS
<1>1. e \in Nat /\ m \in Nat \ {0}
  BY TopType
<1>2. d = zero \o prefix \o stop \o mantissa \o sign
  BY <1>1 DEF Decisions, Top
<1>3. \A slot \in Slots, bit \in BOOLEAN : Decision(slot, bit) \in DecisionType
  BY DEF Decision, DecisionType
<1>4. 0 \in Slots
  BY SlotsType
<1> HIDE DEF e, m, d
<1>5. zero \in Seq(DecisionType) /\ Len(zero) = 1 /\ zero[1] = Decision(0, FALSE)
  <2> DEFINE first == Decision(0, FALSE)
  <2>1. first \in DecisionType
    BY <1>3, <1>4
  <2>2. zero = <<first>> /\ first = Decision(0, FALSE)
    OBVIOUS
  <2> HIDE DEF zero, first
  <2>3. <<first>> \in Seq(DecisionType) /\ Len(<<first>>) = 1 /\ <<first>>[1] = first
    BY <2>1
  <2>4. QED
    BY <2>2, <2>3
<1>6. /\ stop \in Seq(DecisionType) /\ Len(stop) = 1
      /\ stop[1] = Decision(1 + AtMost(e, 9), FALSE)
  <2> DEFINE last == Decision(1 + AtMost(e, 9), FALSE)
  <2>1. last \in DecisionType
    BY <1>1, <1>3, DecisionSlots
  <2>2. stop = <<last>> /\ last = Decision(1 + AtMost(e, 9), FALSE)
    OBVIOUS
  <2> HIDE DEF stop, last
  <2>3. <<last>> \in Seq(DecisionType) /\ Len(<<last>>) = 1 /\ <<last>>[1] = last
    BY <2>1
  <2>4. QED
    BY <2>2, <2>3
<1>7. /\ prefix \in Seq(DecisionType) /\ Len(prefix) = e
      /\ \A i \in 1..e : prefix[i] = Decision(1 + AtMost(i - 1, 9), TRUE)
  <2>1. ASSUME NEW i \in 1..e
        PROVE  Decision(1 + AtMost(i - 1, 9), TRUE) \in DecisionType
    <3>1. i - 1 \in Nat
      BY <1>1
    <3>2. QED
      BY <1>3, <3>1, DecisionSlots
  <2>2. prefix \in [1..e -> DecisionType]
    BY <2>1
  <2>3. \A i \in 1..e : prefix[i] = Decision(1 + AtMost(i - 1, 9), TRUE)
    OBVIOUS
  <2> HIDE DEF prefix
  <2>4. QED
    BY <1>1, <2>2, <2>3, Tabulated
<1>8. /\ mantissa \in Seq(DecisionType) /\ Len(mantissa) = e
      /\ \A i \in 1..e : mantissa[i] = Decision(22 + AtMost(e - i, 9), (m \div Power[e - i]) % 2 = 1)
  <2>1. ASSUME NEW i \in 1..e
        PROVE  Decision(22 + AtMost(e - i, 9), (m \div Power[e - i]) % 2 = 1) \in DecisionType
    <3>1. e - i \in Nat
      BY <1>1
    <3>2. QED
      BY <1>3, <3>1, DecisionSlots
  <2>2. mantissa \in [1..e -> DecisionType]
    BY <2>1
  <2>3. \A i \in 1..e : mantissa[i] = Decision(22 + AtMost(e - i, 9), (m \div Power[e - i]) % 2 = 1)
    OBVIOUS
  <2> HIDE DEF mantissa
  <2>4. QED
    BY <1>1, <2>2, <2>3, Tabulated
<1>9. /\ sign \in Seq(DecisionType)
      /\ Len(sign) = IF symbol.kind = "signed" THEN 1 ELSE 0
      /\ symbol.kind = "signed" => sign[1] = Decision(11 + AtMost(e, 10), symbol.value < 0)
  <2> DEFINE negative == symbol.value < 0
             last == Decision(11 + AtMost(e, 10), negative)
  <2>1. negative \in BOOLEAN
    OBVIOUS
  <2> HIDE DEF negative
  <2>2. last \in DecisionType
    BY <1>1, <1>3, <2>1, DecisionSlots
  <2> HIDE DEF last
  <2>3. <<last>> \in Seq(DecisionType) /\ Len(<<last>>) = 1 /\ <<last>>[1] = last
    BY <2>2
  <2>4. sign = IF symbol.kind = "signed" THEN <<last>> ELSE <<>>
    BY DEF last, negative
  <2>5. <<>> \in Seq(DecisionType) /\ Len(<<>>) = 0
    OBVIOUS
  <2>6. last = Decision(11 + AtMost(e, 10), symbol.value < 0)
    BY DEF last, negative
  <2> HIDE DEF sign
  <2>7. CASE symbol.kind = "signed"
    BY <2>3, <2>4, <2>6, <2>7
  <2>8. CASE symbol.kind # "signed"
    BY <2>4, <2>5, <2>8
  <2>9. QED
    BY <2>7, <2>8
<1> HIDE DEF zero, prefix, stop, mantissa, sign
<1>10. /\ Len(d) = 2 * e + 2 + Len(sign)
       /\ d[1] = zero[1]
       /\ \A j \in Nat : 2 <= j /\ j <= e + 1 => d[j] = prefix[j - 1]
       /\ d[e + 2] = stop[1]
       /\ \A j \in Nat : e + 3 <= j /\ j <= 2 * e + 2 => d[j] = mantissa[j - (e + 2)]
       /\ Len(sign) = 1 => d[2 * e + 3] = sign[1]
  <2>1. /\ zero \in Seq(DecisionType) /\ prefix \in Seq(DecisionType)
        /\ stop \in Seq(DecisionType) /\ mantissa \in Seq(DecisionType)
        /\ sign \in Seq(DecisionType)
        /\ Len(zero) = 1 /\ Len(prefix) = e /\ Len(stop) = 1 /\ Len(mantissa) = e
    BY <1>5, <1>6, <1>7, <1>8, <1>9
  <2> DEFINE w == Parts(zero, prefix, stop, mantissa, sign)
  <2>2. Len(mantissa) = Len(prefix)
    BY <2>1
  <2>3. HasParts(w, zero, prefix, stop, mantissa, sign)
    BY <2>1, <2>2, FiveParts
  <2>6. d = w
    BY <1>2 DEF Parts
  <2> HIDE DEF w
  <2>7. QED
    BY <2>1, <2>3, <2>6 DEF HasParts
<1>11. Len(d) = 2 * e + (IF symbol.kind = "signed" THEN 3 ELSE 2)
  BY <1>1, <1>9, <1>10
<1>12. \A j \in Nat : 2 <= j /\ j <= e + 1 => d[j] = Decision(1 + AtMost(j - 2, 9), TRUE)
  <2> TAKE j \in Nat
  <2> HAVE 2 <= j /\ j <= e + 1
  <2>1. j - 1 \in 1..e /\ (j - 1) - 1 = j - 2
    BY <1>1
  <2>2. QED
    BY <1>7, <1>10, <2>1
<1>13. \A j \in Nat : e + 3 <= j /\ j <= 2 * e + 2 =>
         d[j] = Decision(22 + AtMost(2 * e + 2 - j, 9), (m \div Power[2 * e + 2 - j]) % 2 = 1)
  <2> TAKE j \in Nat
  <2> HAVE e + 3 <= j /\ j <= 2 * e + 2
  <2>1. j - (e + 2) \in 1..e /\ e - (j - (e + 2)) = 2 * e + 2 - j
    BY <1>1
  <2>2. d[j] = mantissa[j - (e + 2)]
    BY <1>10
  <2>3. mantissa[j - (e + 2)] = Decision(22 + AtMost(e - (j - (e + 2)), 9),
                                         (m \div Power[e - (j - (e + 2))]) % 2 = 1)
    BY <1>8, <2>1
  <2>4. QED
    BY <2>1, <2>2, <2>3
<1>14. QED
  BY <1>5, <1>6, <1>9, <1>10, <1>11, <1>12, <1>13

\* The magnitude is complete.
Whole(kind, exponent, magnitude) ==
  Reader(IF kind = "signed" THEN "sign" ELSE "done", kind, exponent, 0, magnitude)

LEMMA CompletedWhole ==
  ASSUME NEW stage, NEW kind, NEW e, NEW value, NEW magnitude
  PROVE  Completed(Reader(stage, kind, e, 0, value), magnitude) = Whole(kind, e, magnitude)
<1> DEFINE p == Reader(stage, kind, e, 0, value)
           last == IF kind = "signed" THEN "sign" ELSE "done"
<1>1. /\ p.kind = kind
      /\ p = [stage |-> stage, kind |-> kind, exponent |-> e, index |-> 0, value |-> value]
  BY DEF Reader
<1>2. Completed(p, magnitude) = [p EXCEPT !.value = magnitude, !.stage = last]
  BY <1>1 DEF Completed
<1>3. Reader(last, kind, e, 0, magnitude) = Whole(kind, e, magnitude)
  BY DEF Whole
<1> HIDE DEF p, last
<1> DEFINE q == [p EXCEPT !.value = magnitude]
<1>4. q = [stage |-> stage, kind |-> kind, exponent |-> e, index |-> 0, value |-> magnitude]
  BY <1>1
<1>5. [p EXCEPT !.value = magnitude, !.stage = last] = [q EXCEPT !.stage = last]
  OBVIOUS
<1> HIDE DEF q
<1>6. [q EXCEPT !.stage = last] = Reader(last, kind, e, 0, magnitude)
  BY <1>4 DEF Reader
<1>7. QED
  BY <1>2, <1>3, <1>5, <1>6 DEF p

LEMMA ParsedZero ==
  ASSUME NEW kind \in {"unsigned", "signed"}
  PROVE  /\ Parsed(Reader("zero", kind, 0, 0, 0), FALSE) = Reader("exponent", kind, 0, 0, 0)
         /\ Parsed(Reader("zero", kind, 0, 0, 0), TRUE) = Reader("done", kind, 0, 0, 0)
<1> DEFINE p == Reader("zero", kind, 0, 0, 0)
<1>1. /\ p.stage = "zero" /\ p.kind = kind
      /\ p = [stage |-> "zero", kind |-> kind, exponent |-> 0, index |-> 0, value |-> 0]
  BY DEF Reader
<1> HIDE DEF p
<1>2. [p EXCEPT !.stage = "exponent"] = Reader("exponent", kind, 0, 0, 0)
  BY <1>1 DEF Reader
<1> DEFINE q == [p EXCEPT !.stage = "done"]
<1>3. q = [stage |-> "done", kind |-> kind, exponent |-> 0, index |-> 0, value |-> 0]
  BY <1>1
<1>4. [p EXCEPT !.stage = "done", !.value = 0] = [q EXCEPT !.value = 0]
  OBVIOUS
<1> HIDE DEF q
<1>5. [q EXCEPT !.value = 0] = Reader("done", kind, 0, 0, 0)
  BY <1>3 DEF Reader
<1>6. Parsed(p, FALSE) = [p EXCEPT !.stage = "exponent"]
  BY <1>1 DEF Parsed, AfterZero
<1>7. Parsed(p, TRUE) = [p EXCEPT !.stage = "done", !.value = 0]
  BY <1>1 DEF Parsed, AfterZero
<1>8. QED
  BY <1>2, <1>4, <1>5, <1>6, <1>7 DEF p

LEMMA ParsedBool ==
  ASSUME NEW bit \in BOOLEAN, NEW value, value = IF bit THEN 1 ELSE 0
  PROVE  Parsed(Reader("zero", "bool", 0, 0, 0), bit) = Reader("done", "bool", 0, 0, value)
<1> DEFINE p == Reader("zero", "bool", 0, 0, 0)
<1>1. /\ p.stage = "zero" /\ p.kind = "bool"
      /\ p = [stage |-> "zero", kind |-> "bool", exponent |-> 0, index |-> 0, value |-> 0]
  BY DEF Reader
<1> HIDE DEF p
<1> DEFINE q == [p EXCEPT !.stage = "done"]
<1>2. q = [stage |-> "done", kind |-> "bool", exponent |-> 0, index |-> 0, value |-> 0]
  BY <1>1
<1>3. [p EXCEPT !.stage = "done", !.value = value] = [q EXCEPT !.value = value]
  OBVIOUS
<1> HIDE DEF q
<1>4. [q EXCEPT !.value = value] = Reader("done", "bool", 0, 0, value)
  BY <1>2 DEF Reader
<1>5. Parsed(p, bit) = [p EXCEPT !.stage = "done", !.value = value]
  BY <1>1 DEF Parsed, AfterZero
<1>6. QED
  BY <1>3, <1>4, <1>5 DEF p

LEMMA ParsedExponent ==
  ASSUME NEW kind \in {"unsigned", "signed"}, NEW n \in Nat
  PROVE  /\ n < MaxExponent =>
              Parsed(Reader("exponent", kind, n, 0, 0), TRUE) = Reader("exponent", kind, n + 1, 0, 0)
         /\ n = 0 => Parsed(Reader("exponent", kind, n, 0, 0), FALSE) = Whole(kind, n, 1)
         /\ n # 0 => Parsed(Reader("exponent", kind, n, 0, 0), FALSE) =
                       Reader("mantissa", kind, n, n - 1, 1)
<1> DEFINE p == Reader("exponent", kind, n, 0, 0)
           less == n - 1
<1>1. /\ p.stage = "exponent" /\ p.kind = kind /\ p.exponent = n
      /\ p = [stage |-> "exponent", kind |-> kind, exponent |-> n, index |-> 0, value |-> 0]
  BY DEF Reader
<1>2. Completed(p, 1) = Whole(kind, n, 1)
  BY CompletedWhole
<1>3. less = n - 1
  OBVIOUS
<1> HIDE DEF p, less
<1>4. [p EXCEPT !.exponent = n + 1] = Reader("exponent", kind, n + 1, 0, 0)
  BY <1>1 DEF Reader
<1> DEFINE q == [p EXCEPT !.stage = "mantissa"]
<1>5. q = [stage |-> "mantissa", kind |-> kind, exponent |-> n, index |-> 0, value |-> 0]
  BY <1>1
<1> DEFINE r == [q EXCEPT !.index = less]
<1>6. [p EXCEPT !.stage = "mantissa", !.index = less, !.value = 1] = [r EXCEPT !.value = 1]
  OBVIOUS
<1> HIDE DEF q
<1>7. r = [stage |-> "mantissa", kind |-> kind, exponent |-> n, index |-> less, value |-> 0]
  BY <1>5
<1> HIDE DEF r
<1>8. [r EXCEPT !.value = 1] = Reader("mantissa", kind, n, less, 1)
  BY <1>7 DEF Reader
<1>9. Parsed(p, TRUE) = AfterExponent(p, TRUE) /\ Parsed(p, FALSE) = AfterExponent(p, FALSE)
  BY <1>1 DEF Parsed
<1>10. n < MaxExponent => AfterExponent(p, TRUE) = [p EXCEPT !.exponent = n + 1]
  BY <1>1, CodingAssumption DEF AfterExponent
<1>11. n = 0 => AfterExponent(p, FALSE) = Completed(p, 1)
  BY <1>1 DEF AfterExponent
<1>12. n # 0 => AfterExponent(p, FALSE) =
                  [p EXCEPT !.stage = "mantissa", !.index = less, !.value = 1]
  BY <1>1, <1>3 DEF AfterExponent
<1>13. QED
  BY <1>2, <1>3, <1>4, <1>6, <1>8, <1>9, <1>10, <1>11, <1>12 DEF p

LEMMA ParsedMantissa ==
  ASSUME NEW kind \in {"unsigned", "signed"}, NEW e \in Nat, NEW n \in Nat, NEW value \in Int,
         NEW bit \in BOOLEAN, NEW more \in Int, more = 2 * value + (IF bit THEN 1 ELSE 0)
  PROVE  /\ n = 0 => Parsed(Reader("mantissa", kind, e, n, value), bit) = Whole(kind, e, more)
         /\ n # 0 => Parsed(Reader("mantissa", kind, e, n, value), bit) =
                       Reader("mantissa", kind, e, n - 1, more)
<1> DEFINE p == Reader("mantissa", kind, e, n, value)
           less == n - 1
<1>1. /\ p.stage = "mantissa" /\ p.kind = kind /\ p.index = n /\ p.value = value
      /\ p = [stage |-> "mantissa", kind |-> kind, exponent |-> e, index |-> n, value |-> value]
  BY DEF Reader
<1>2. n = 0 => Completed(p, more) = Whole(kind, e, more)
  BY CompletedWhole
<1>3. less = n - 1
  OBVIOUS
<1> HIDE DEF p, less
<1> DEFINE q == [p EXCEPT !.value = more]
<1>4. q = [stage |-> "mantissa", kind |-> kind, exponent |-> e, index |-> n, value |-> more]
  BY <1>1
<1>5. [p EXCEPT !.value = more, !.index = less] = [q EXCEPT !.index = less]
  OBVIOUS
<1> HIDE DEF q
<1>6. [q EXCEPT !.index = less] = Reader("mantissa", kind, e, less, more)
  BY <1>4 DEF Reader
<1>7. Parsed(p, bit) = AfterMantissa(p, bit)
  BY <1>1 DEF Parsed
<1>8. n = 0 => AfterMantissa(p, bit) = Completed(p, more)
  BY <1>1 DEF AfterMantissa
<1>9. n # 0 => AfterMantissa(p, bit) = [p EXCEPT !.value = more, !.index = less]
  BY <1>1, <1>3 DEF AfterMantissa
<1>10. QED
  BY <1>2, <1>3, <1>5, <1>6, <1>7, <1>8, <1>9 DEF p

LEMMA ParsedSign ==
  ASSUME NEW kind, NEW e \in Nat, NEW value \in Int, NEW bit \in BOOLEAN,
         NEW signed \in Int, signed = IF bit THEN -value ELSE value
  PROVE  Parsed(Reader("sign", kind, e, 0, value), bit) = Reader("done", kind, e, 0, signed)
<1> DEFINE p == Reader("sign", kind, e, 0, value)
<1>1. /\ p.stage = "sign" /\ p.value = value
      /\ p = [stage |-> "sign", kind |-> kind, exponent |-> e, index |-> 0, value |-> value]
  BY DEF Reader
<1> HIDE DEF p
<1> DEFINE q == [p EXCEPT !.stage = "done"]
<1>2. q = [stage |-> "done", kind |-> kind, exponent |-> e, index |-> 0, value |-> value]
  BY <1>1
<1>3. [p EXCEPT !.stage = "done", !.value = signed] = [q EXCEPT !.value = signed]
  OBVIOUS
<1> HIDE DEF q
<1>4. [q EXCEPT !.value = signed] = Reader("done", kind, e, 0, signed)
  BY <1>2 DEF Reader
<1>5. Parsed(p, bit) = [p EXCEPT !.stage = "done", !.value = signed]
  BY <1>1 DEF Parsed
<1>6. QED
  BY <1>3, <1>4, <1>5 DEF p

LEMMA ReaderSlot ==
  ASSUME NEW kind, NEW e \in Nat, NEW n \in Nat, NEW value \in Int
  PROVE  /\ SlotOf(Reader("zero", kind, e, n, value)) = 0
         /\ SlotOf(Reader("exponent", kind, e, n, value)) = 1 + AtMost(e, 9)
         /\ SlotOf(Reader("mantissa", kind, e, n, value)) = 22 + AtMost(n, 9)
         /\ SlotOf(Reader("sign", kind, e, n, value)) = 11 + AtMost(e, 10)
<1>1. /\ Reader("zero", kind, e, n, value).stage = "zero"
      /\ Reader("exponent", kind, e, n, value).stage = "exponent"
      /\ Reader("mantissa", kind, e, n, value).stage = "mantissa"
      /\ Reader("sign", kind, e, n, value).stage = "sign"
      /\ Reader("exponent", kind, e, n, value).exponent = e
      /\ Reader("sign", kind, e, n, value).exponent = e
      /\ Reader("mantissa", kind, e, n, value).index = n
  BY DEF Reader
<1>2. QED
  BY <1>1 DEF SlotOf

\* What the prefixes of a code make of a reader, field by field.
LEMMA ParseAfterType ==
  ASSUME NEW symbol \in Symbols, symbol.kind \in {"unsigned", "signed"}, symbol.value # 0,
         NEW e \in Nat, e = Top(symbol), NEW m \in Nat, m = Magnitude(symbol.value), m # 0,
         NEW read \in Nat
  PROVE  /\ read = 0 => ParseAfter(symbol, read) = Reader("zero", symbol.kind, 0, 0, 0)
         /\ 1 <= read /\ read <= e + 1 =>
              ParseAfter(symbol, read) = Reader("exponent", symbol.kind, read - 1, 0, 0)
         /\ e + 2 <= read /\ read < 2 * e + 2 =>
              ParseAfter(symbol, read) =
                Reader("mantissa", symbol.kind, e, 2 * e + 1 - read, m \div Power[2 * e + 2 - read])
         /\ read = 2 * e + 2 /\ symbol.kind = "signed" =>
              ParseAfter(symbol, read) = Reader("sign", symbol.kind, e, 0, m)
         /\ (read = 2 * e + 2 /\ symbol.kind # "signed") \/ read > 2 * e + 2 =>
              ParseAfter(symbol, read) = Reader("done", symbol.kind, e, 0, symbol.value)
<1>1. StartOfSymbol(symbol.kind) = Reader("zero", symbol.kind, 0, 0, 0)
  BY DEF StartOfSymbol, Reader
<1>2. QED
  BY <1>1 DEF ParseAfter, Top

\* A reader that has parsed the first decisions of a symbol asks for the next one, and is
\* moved on by it.
ReadsOn(symbol, read, d) ==
  /\ SlotOf(ParseAfter(symbol, read)) = d.slot
  /\ Parsed(ParseAfter(symbol, read), d.bit) = ParseAfter(symbol, read + 1)
  /\ ParseAfter(symbol, read).stage \notin {"done", "error"}

Coded(symbol) ==
  symbol \in Symbols /\ Writable(symbol) /\ symbol.kind # "bool" /\ symbol.value # 0

\* The part of ParseAfterType about the decision that is the sign.
LEMMA ParseAtSign ==
  ASSUME NEW symbol \in Symbols, symbol.kind \in {"unsigned", "signed"}, symbol.value # 0,
         NEW e \in Nat, e = Top(symbol), NEW m \in Nat, m = Magnitude(symbol.value), m # 0,
         NEW read \in Nat, read = 2 * e + 2, symbol.kind = "signed"
  PROVE  ParseAfter(symbol, read) = Reader("sign", symbol.kind, e, 0, m)
BY ParseAfterType

LEMMA CodedType ==
  ASSUME NEW symbol, Coded(symbol)
  PROVE  /\ symbol \in Symbols /\ Writable(symbol)
         /\ symbol.kind \in {"unsigned", "signed"} /\ symbol.kind # "bool"
         /\ symbol.value \in Int /\ symbol.value # 0
         /\ symbol.kind = "unsigned" => symbol.value = Magnitude(symbol.value)
         /\ symbol.value < 0 => symbol.value = -Magnitude(symbol.value)
         /\ ~(symbol.value < 0) => symbol.value = Magnitude(symbol.value)
<1>1. symbol \in Symbols /\ Writable(symbol) /\ symbol.kind # "bool" /\ symbol.value # 0
  BY DEF Coded
<1>2. symbol.kind \in Kinds /\ symbol.value \in Int
  BY <1>1 DEF Symbols
<1>3. symbol.kind \in {"unsigned", "signed"}
  BY <1>1, <1>2 DEF Kinds
<1>4. symbol.kind = "unsigned" => symbol.value >= 0
  BY <1>1 DEF Writable
<1>5. QED
  BY <1>1, <1>2, <1>3, <1>4 DEF Magnitude

\* Behind the mantissa, the magnitude is complete.
LEMMA ParsedWhole ==
  ASSUME NEW symbol, Coded(symbol)
  PROVE  ParseAfter(symbol, 2 * Top(symbol) + 2) =
           Whole(symbol.kind, Top(symbol), Magnitude(symbol.value))
<1> DEFINE e == Top(symbol)
           m == Magnitude(symbol.value)
           read == 2 * e + 2
<1>1. e \in Nat /\ m \in Nat /\ m # 0
  BY CodedType, TopType
<1>2. read \in Nat /\ e = Top(symbol) /\ m = Magnitude(symbol.value) /\ read = 2 * e + 2
  BY <1>1
<1>3. /\ symbol.kind = "unsigned" => symbol.value = m
      /\ symbol.kind \in {"unsigned", "signed"} /\ symbol \in Symbols /\ symbol.value # 0
  BY CodedType
<1> HIDE DEF e, m, read
<1>4. /\ read = 2 * e + 2 /\ symbol.kind = "signed" =>
           ParseAfter(symbol, read) = Reader("sign", symbol.kind, e, 0, m)
      /\ (read = 2 * e + 2 /\ symbol.kind # "signed") \/ read > 2 * e + 2 =>
           ParseAfter(symbol, read) = Reader("done", symbol.kind, e, 0, symbol.value)
  BY <1>1, <1>2, <1>3, ParseAfterType
<1>5. ParseAfter(symbol, read) = Whole(symbol.kind, e, m)
  BY <1>2, <1>3, <1>4 DEF Whole
<1>6. QED
  BY <1>5 DEF read, e, m

LEMMA ReaderStage ==
  ASSUME NEW stage, NEW kind, NEW e, NEW n, NEW value
  PROVE  Reader(stage, kind, e, n, value).stage = stage
BY DEF Reader

\* The five forms of a reader, each under a hypothesis of its own.
LEMMA AfterMantissaDigits ==
  ASSUME NEW symbol, Coded(symbol), NEW read \in Nat,
         Top(symbol) + 2 <= read, read < 2 * Top(symbol) + 2
  PROVE  ParseAfter(symbol, read) =
           Reader("mantissa", symbol.kind, Top(symbol), 2 * Top(symbol) + 1 - read,
                  Magnitude(symbol.value) \div Power[2 * Top(symbol) + 2 - read])
<1> DEFINE e == Top(symbol)
           m == Magnitude(symbol.value)
<1>1. e \in Nat /\ m \in Nat /\ m # 0 /\ e = Top(symbol) /\ m = Magnitude(symbol.value)
      /\ e + 2 <= read /\ read < 2 * e + 2
  BY CodedType, TopType
<1>2. symbol.kind \in {"unsigned", "signed"} /\ symbol \in Symbols /\ symbol.value # 0
  BY CodedType
<1> HIDE DEF e, m
<1>3. /\ e + 2 <= read /\ read < 2 * e + 2 =>
              ParseAfter(symbol, read) =
                Reader("mantissa", symbol.kind, e, 2 * e + 1 - read, m \div Power[2 * e + 2 - read])
  BY <1>1, <1>2, ParseAfterType
<1>4. QED
  BY <1>1, <1>3 DEF e, m

LEMMA AfterAll ==
  ASSUME NEW symbol, Coded(symbol), NEW read \in Nat,
         \/ read > 2 * Top(symbol) + 2
         \/ read = 2 * Top(symbol) + 2 /\ symbol.kind = "unsigned"
  PROVE  ParseAfter(symbol, read) = Reader("done", symbol.kind, Top(symbol), 0, symbol.value)
<1> DEFINE e == Top(symbol)
           m == Magnitude(symbol.value)
<1>1. e \in Nat /\ m \in Nat /\ m # 0 /\ e = Top(symbol) /\ m = Magnitude(symbol.value)
  BY CodedType, TopType
<1>2. symbol.kind \in {"unsigned", "signed"} /\ symbol \in Symbols /\ symbol.value # 0
  BY CodedType
<1>3. (read = 2 * e + 2 /\ symbol.kind # "signed") \/ read > 2 * e + 2
  BY <1>1, <1>2
<1> HIDE DEF e, m
<1>4. (read = 2 * e + 2 /\ symbol.kind # "signed") \/ read > 2 * e + 2 =>
              ParseAfter(symbol, read) = Reader("done", symbol.kind, e, 0, symbol.value)
  BY <1>1, <1>2, ParseAfterType
<1>5. QED
  BY <1>3, <1>4 DEF e, m

LEMMA ReadsPrefix ==
  ASSUME NEW symbol, Coded(symbol), NEW read \in Nat, read <= Top(symbol)
  PROVE  ReadsOn(symbol, read, Decisions(symbol)[read + 1])
<1> DEFINE e == Top(symbol)
           m == Magnitude(symbol.value)
           kind == symbol.kind
           d == Decisions(symbol)
<1>1. /\ e \in Nat /\ m \in Nat /\ m # 0 /\ e <= MaxExponent /\ read <= e
      /\ e = Top(symbol) /\ m = Magnitude(symbol.value)
  BY CodedType, TopType
<1>2. kind \in {"unsigned", "signed"} /\ symbol \in Symbols /\ symbol.value # 0
  BY CodedType
<1>3. /\ d[1] = Decision(0, FALSE)
      /\ \A j \in Nat : 2 <= j /\ j <= e + 1 => d[j] = Decision(1 + AtMost(j - 2, 9), TRUE)
  BY CodedType, DecisionsAt
<1> HIDE DEF e, m, d
<1> DEFINE k == read + 1
<1>4. k \in Nat /\ k - 1 = read /\ 1 <= k /\ k <= e + 1
  BY <1>1
<1>5. k = read + 1
  OBVIOUS
<1> HIDE DEF k
<1>6. ParseAfter(symbol, k) = Reader("exponent", kind, read, 0, 0)
  BY <1>1, <1>2, <1>4, ParseAfterType
<1>7. CASE read = 0
  <2>1. ParseAfter(symbol, read) = Reader("zero", kind, 0, 0, 0)
    BY <1>1, <1>2, <1>7, ParseAfterType
  <2>2. d[k].slot = 0 /\ d[k].bit = FALSE
    BY <1>3, <1>5, <1>7 DEF Decision
  <2>3. SlotOf(Reader("zero", kind, 0, 0, 0)) = 0 /\ Reader("zero", kind, 0, 0, 0).stage = "zero"
    BY ReaderSlot, ReaderStage
  <2>4. Parsed(Reader("zero", kind, 0, 0, 0), FALSE) = Reader("exponent", kind, 0, 0, 0)
    BY <1>2, ParsedZero
  <2>5. QED
    BY <1>5, <1>6, <1>7, <2>1, <2>2, <2>3, <2>4 DEF ReadsOn, d
<1>8. CASE read # 0
  <2> DEFINE n == read - 1
  <2>1. n \in Nat /\ n < MaxExponent /\ n + 1 = read /\ k - 2 = n /\ n = read - 1
    BY <1>1, <1>4, <1>8, CodingAssumption
  <2>2. 2 <= k /\ k <= e + 1 /\ 1 <= read /\ read <= e + 1
    BY <1>1, <1>4, <1>8
  <2> HIDE DEF n
  <2>3. ParseAfter(symbol, read) = Reader("exponent", kind, n, 0, 0)
    BY <1>1, <1>2, <2>1, <2>2, ParseAfterType
  <2>4. d[k] = Decision(1 + AtMost(n, 9), TRUE)
    BY <1>3, <1>4, <2>1, <2>2
  <2>5. d[k].slot = 1 + AtMost(n, 9) /\ d[k].bit = TRUE
    BY <2>4 DEF Decision
  <2>6. /\ SlotOf(Reader("exponent", kind, n, 0, 0)) = 1 + AtMost(n, 9)
        /\ Reader("exponent", kind, n, 0, 0).stage = "exponent"
    BY <2>1, ReaderSlot, ReaderStage
  <2>7. Parsed(Reader("exponent", kind, n, 0, 0), TRUE) = Reader("exponent", kind, read, 0, 0)
    BY <1>2, <2>1, ParsedExponent
  <2>8. QED
    BY <1>5, <1>6, <2>3, <2>5, <2>6, <2>7 DEF ReadsOn, d
<1>9. QED
  BY <1>7, <1>8

LEMMA ReadsStop ==
  ASSUME NEW symbol, Coded(symbol), NEW read \in Nat, read = Top(symbol) + 1
  PROVE  ReadsOn(symbol, read, Decisions(symbol)[read + 1])
<1> DEFINE e == Top(symbol)
           m == Magnitude(symbol.value)
           kind == symbol.kind
           d == Decisions(symbol)
<1>1. /\ e \in Nat /\ m \in Nat /\ m # 0 /\ e <= MaxExponent /\ read = e + 1
      /\ e = Top(symbol) /\ m = Magnitude(symbol.value)
      /\ Power[e] <= m /\ m < Power[e + 1]
  BY CodedType, TopType
<1>2. kind \in {"unsigned", "signed"} /\ symbol \in Symbols /\ symbol.value # 0
  BY CodedType
<1>3. d[e + 2] = Decision(1 + AtMost(e, 9), FALSE)
  BY CodedType, DecisionsAt
<1>4. ParseAfter(symbol, 2 * e + 2) = Whole(kind, e, m)
  BY ParsedWhole
<1>5. m \div Power[e] = 1 /\ Power[0] = 1 /\ Power[1] = 2
  <2>1. e \in 0..(MaxExponent + 1) /\ e + 1 \in 1..(MaxExponent + 1) /\ (e + 1) - 1 = e
        /\ 1 \in 1..(MaxExponent + 1)
    BY <1>1, CodingAssumption
  <2> DEFINE p == Power[e]
  <2>2. p \in Nat \ {0} /\ Power[e + 1] = 2 * p
    BY <2>1, Powers
  <2> HIDE DEF p
  <2>3. p <= m /\ m < 2 * p
    BY <1>1, <2>2 DEF p
  <2>4. m \div p = 1
    BY <1>1, <2>2, <2>3, LeadingBit
  <2>5. Power[1] = 2 * Power[0] /\ Power[0] = 1
    BY <2>1, Powers
  <2>6. QED
    BY <2>4, <2>5 DEF p
<1> HIDE DEF e, m, d
<1> DEFINE k == read + 1
<1>6. k \in Nat /\ k = e + 2 /\ k - 1 = read /\ read - 1 = e /\ 1 <= read /\ read <= e + 1
  BY <1>1
<1>7. k = read + 1
  OBVIOUS
<1> HIDE DEF k
<1>8. ParseAfter(symbol, read) = Reader("exponent", kind, e, 0, 0)
  BY <1>1, <1>2, <1>6, ParseAfterType
<1>9. d[k].slot = 1 + AtMost(e, 9) /\ d[k].bit = FALSE
  BY <1>3, <1>6 DEF Decision
<1>10. /\ SlotOf(Reader("exponent", kind, e, 0, 0)) = 1 + AtMost(e, 9)
       /\ Reader("exponent", kind, e, 0, 0).stage = "exponent"
  BY <1>1, ReaderSlot, ReaderStage
<1>11. Parsed(Reader("exponent", kind, e, 0, 0), FALSE) = ParseAfter(symbol, k)
  <2>1. CASE e = 0
    <3>1. m = 1 /\ k = 2 * e + 2
      BY <1>1, <1>5, <1>6, <2>1
    <3>2. Parsed(Reader("exponent", kind, e, 0, 0), FALSE) = Whole(kind, e, 1)
      BY <1>1, <1>2, <2>1, ParsedExponent
    <3>3. QED
      BY <1>4, <3>1, <3>2
  <2>2. CASE e # 0
    <3>1. Parsed(Reader("exponent", kind, e, 0, 0), FALSE) = Reader("mantissa", kind, e, e - 1, 1)
      BY <1>1, <1>2, <2>2, ParsedExponent
    <3>2. e + 2 <= k /\ k < 2 * e + 2 /\ 2 * e + 1 - k = e - 1 /\ 2 * e + 2 - k = e
      BY <1>1, <1>6, <2>2
    <3>3. ParseAfter(symbol, k) =
            Reader("mantissa", kind, e, 2 * e + 1 - k, m \div Power[2 * e + 2 - k])
      BY <1>6, <3>2, AfterMantissaDigits DEF e, m
    <3>4. QED
      BY <1>5, <3>1, <3>2, <3>3
  <2>3. QED
    BY <2>1, <2>2
<1>12. QED
  BY <1>7, <1>8, <1>9, <1>10, <1>11 DEF ReadsOn, d

LEMMA ReadsMantissa ==
  ASSUME NEW symbol, Coded(symbol), NEW read \in Nat,
         Top(symbol) + 2 <= read, read < 2 * Top(symbol) + 2
  PROVE  ReadsOn(symbol, read, Decisions(symbol)[read + 1])
<1> DEFINE e == Top(symbol)
           m == Magnitude(symbol.value)
           kind == symbol.kind
           d == Decisions(symbol)
<1>1. /\ e \in Nat /\ m \in Nat /\ m # 0 /\ e <= MaxExponent
      /\ e + 2 <= read /\ read < 2 * e + 2
      /\ e = Top(symbol) /\ m = Magnitude(symbol.value)
  BY CodedType, TopType
<1>2. kind \in {"unsigned", "signed"} /\ symbol \in Symbols /\ symbol.value # 0
  BY CodedType
<1>3. \A j \in Nat : e + 3 <= j /\ j <= 2 * e + 2 =>
        d[j] = Decision(22 + AtMost(2 * e + 2 - j, 9), (m \div Power[2 * e + 2 - j]) % 2 = 1)
  BY CodedType, DecisionsAt
<1>4. ParseAfter(symbol, 2 * e + 2) = Whole(kind, e, m)
  BY ParsedWhole
<1> HIDE DEF e, m, d
<1> DEFINE j == read + 1
           k == 2 * e + 1 - read
<1>5. /\ j \in Nat /\ e + 3 <= j /\ j <= 2 * e + 2 /\ 2 * e + 2 - j = k /\ j = read + 1
      /\ k \in Nat /\ k < e /\ 2 * e + 1 - read = k /\ 2 * e + 2 - read = k + 1
      /\ k = 0 => j = 2 * e + 2
      /\ k # 0 => e + 2 <= j /\ j < 2 * e + 2 /\ 2 * e + 1 - j = k - 1
  BY <1>1
<1> HIDE DEF j, k
<1> DEFINE p == Power[k]
           q == Power[k + 1]
           bit == (m \div p) % 2 = 1
<1>6. p \in Nat \ {0} /\ q \in Nat /\ q = 2 * p /\ (k = 0 => p = 1)
  <2>1. k \in 0..(MaxExponent + 1) /\ k + 1 \in 1..(MaxExponent + 1) /\ (k + 1) - 1 = k
        /\ k + 1 \in 0..(MaxExponent + 1)
    BY <1>1, <1>5, CodingAssumption
  <2>2. p \in Nat \ {0} /\ q \in Nat
    BY <2>1, Powers
  <2>3. q = 2 * p
    BY <2>1, Powers
  <2>4. k = 0 => p = 1
    BY Powers
  <2>5. QED
    BY <2>2, <2>3, <2>4
<1>7. ParseAfter(symbol, read) = Reader("mantissa", kind, e, k, m \div q)
  <2>1. ParseAfter(symbol, read) =
          Reader("mantissa", kind, e, 2 * e + 1 - read, m \div Power[2 * e + 2 - read])
    BY <1>1, <1>2, ParseAfterType
  <2>2. QED
    BY <1>5, <2>1
<1>8. d[j] = Decision(22 + AtMost(k, 9), bit)
  BY <1>3, <1>5
<1> HIDE DEF p, q
<1>9. /\ m \div q \in Nat /\ m \div p \in Nat
      /\ m \div p = 2 * (m \div q) + ((m \div p) % 2)
  BY <1>1, <1>6, HalfQuotient
<1> DEFINE more == m \div p
           value == m \div q
<1>10. value \in Int /\ more \in Int /\ more = 2 * value + (IF bit THEN 1 ELSE 0) /\ bit \in BOOLEAN
  <2>1. more % 2 = 0 \/ more % 2 = 1
    BY <1>9
  <2>2. QED
    BY <1>9, <2>1
<1>11. k = 0 => more = m
  BY <1>1, <1>6
<1>12. d[j].slot = 22 + AtMost(k, 9) /\ d[j].bit = bit
  BY <1>8 DEF Decision
<1> HIDE DEF bit
<1>13. /\ SlotOf(Reader("mantissa", kind, e, k, value)) = 22 + AtMost(k, 9)
       /\ Reader("mantissa", kind, e, k, value).stage = "mantissa"
  BY <1>1, <1>5, <1>10, ReaderSlot, ReaderStage
<1> HIDE DEF more, value
<1>14. Parsed(Reader("mantissa", kind, e, k, value), bit) = ParseAfter(symbol, j)
  <2>1. CASE k = 0
    <3>1. Parsed(Reader("mantissa", kind, e, k, value), bit) = Whole(kind, e, more)
      BY <1>1, <1>2, <1>5, <1>10, <2>1, ParsedMantissa
    <3>2. QED
      BY <1>4, <1>5, <1>11, <2>1, <3>1
  <2>2. CASE k # 0
    <3>1. Parsed(Reader("mantissa", kind, e, k, value), bit) = Reader("mantissa", kind, e, k - 1, more)
      BY <1>1, <1>2, <1>5, <1>10, <2>2, ParsedMantissa
    <3>2. ParseAfter(symbol, j) =
            Reader("mantissa", kind, e, 2 * e + 1 - j, m \div Power[2 * e + 2 - j])
      BY <1>1, <1>2, <1>5, <2>2, ParseAfterType
    <3>3. ParseAfter(symbol, j) = Reader("mantissa", kind, e, k - 1, more)
      BY <1>5, <2>2, <3>2 DEF more, p
    <3>4. QED
      BY <3>1, <3>3
  <2>3. QED
    BY <2>1, <2>2
<1>15. ParseAfter(symbol, read) = Reader("mantissa", kind, e, k, value)
  BY <1>7 DEF value
<1>16. QED
  BY <1>5, <1>12, <1>13, <1>14, <1>15 DEF ReadsOn, d

LEMMA ReadsSign ==
  ASSUME NEW symbol, Coded(symbol), symbol.kind = "signed",
         NEW read \in Nat, read = 2 * Top(symbol) + 2
  PROVE  ReadsOn(symbol, read, Decisions(symbol)[read + 1])
<1> DEFINE e == Top(symbol)
           m == Magnitude(symbol.value)
           kind == symbol.kind
           d == Decisions(symbol)
           negative == symbol.value < 0
           value == symbol.value
<1>1. /\ e \in Nat /\ m \in Nat /\ m # 0 /\ read = 2 * e + 2
      /\ e = Top(symbol) /\ m = Magnitude(symbol.value)
  BY CodedType, TopType
<1>2. /\ kind \in {"unsigned", "signed"} /\ symbol \in Symbols /\ symbol.value # 0
      /\ value \in Int /\ negative \in BOOLEAN
      /\ value = IF negative THEN -m ELSE m
  BY CodedType
<1>3. d[2 * e + 3] = Decision(11 + AtMost(e, 10), negative)
  BY CodedType, DecisionsAt
<1> HIDE DEF e, m, d, negative
<1> DEFINE k == read + 1
<1>4. k \in Nat /\ k = 2 * e + 3 /\ k > 2 * e + 2
  BY <1>1
<1>5. k = read + 1
  OBVIOUS
<1> HIDE DEF k
<1>6. ParseAfter(symbol, read) = Reader("sign", kind, e, 0, m)
  BY <1>1, <1>2, ParseAtSign
<1>7. ParseAfter(symbol, k) = Reader("done", kind, e, 0, value)
  BY <1>4, AfterAll DEF e
<1>8. d[k].slot = 11 + AtMost(e, 10) /\ d[k].bit = negative
  BY <1>3, <1>4 DEF Decision
<1>9. /\ SlotOf(Reader("sign", kind, e, 0, m)) = 11 + AtMost(e, 10)
      /\ Reader("sign", kind, e, 0, m).stage = "sign"
  BY <1>1, ReaderSlot, ReaderStage
<1>10. Parsed(Reader("sign", kind, e, 0, m), negative) = Reader("done", kind, e, 0, value)
  BY <1>1, <1>2, ParsedSign
<1>11. QED
  BY <1>5, <1>6, <1>7, <1>8, <1>9, <1>10 DEF ReadsOn, d

LEMMA CodedAt ==
  ASSUME NEW symbol, Coded(symbol)
  PROVE  /\ Len(Decisions(symbol)) = 2 * Top(symbol) + (IF symbol.kind = "signed" THEN 3 ELSE 2)
         /\ Top(symbol) \in Nat /\ Top(symbol) <= 62
<1>1. Top(symbol) \in Nat /\ Top(symbol) <= MaxExponent
  BY CodedType, TopType
<1>2. Top(symbol) <= 62
  BY <1>1, CodingAssumption
<1>3. QED
  BY <1>1, <1>2, CodedType, DecisionsAt

LEMMA ReadsCoded ==
  ASSUME NEW symbol, Coded(symbol)
  PROVE  /\ \A read \in Nat : read < Len(Decisions(symbol)) =>
              ReadsOn(symbol, read, Decisions(symbol)[read + 1])
         /\ ParseAfter(symbol, Len(Decisions(symbol))) =
              Reader("done", symbol.kind, Top(symbol), 0, symbol.value)
         /\ Len(Decisions(symbol)) \in Nat
         /\ 1 <= Len(Decisions(symbol)) /\ Len(Decisions(symbol)) <= 127
<1> DEFINE e == Top(symbol)
           n == Len(Decisions(symbol))
<1>1. /\ e \in Nat /\ e <= 62
      /\ n = 2 * e + (IF symbol.kind = "signed" THEN 3 ELSE 2)
  BY CodedAt
<1>2. symbol.kind \in {"unsigned", "signed"}
  BY CodedType
<1> HIDE DEF e, n
<1>3. /\ n \in Nat /\ 1 <= n /\ n <= 127
      /\ n > 2 * e + 2 \/ (n = 2 * e + 2 /\ symbol.kind = "unsigned")
  BY <1>1, <1>2
<1>4. ASSUME NEW read \in Nat, read < n
      PROVE  ReadsOn(symbol, read, Decisions(symbol)[read + 1])
  <2>1. CASE read <= e
    BY <2>1, ReadsPrefix DEF e
  <2>2. CASE read = e + 1
    BY <2>2, ReadsStop DEF e
  <2>3. CASE e + 2 <= read /\ read < 2 * e + 2
    BY <2>3, ReadsMantissa DEF e
  <2>4. CASE read >= 2 * e + 2
    <3>1. symbol.kind = "signed" /\ read = 2 * e + 2
      BY <1>1, <1>2, <1>4, <2>4
    <3>2. QED
      BY <3>1, ReadsSign DEF e
  <2>5. QED
    BY <1>1, <2>1, <2>2, <2>3, <2>4
<1>5. ParseAfter(symbol, n) = Reader("done", symbol.kind, e, 0, symbol.value)
  BY <1>3, AfterAll DEF e
<1>6. QED
  BY <1>3, <1>4, <1>5 DEF n, e

LEMMA ReadsSimple ==
  ASSUME NEW symbol \in Symbols, Writable(symbol), symbol.kind = "bool" \/ symbol.value = 0
  PROVE  /\ Len(Decisions(symbol)) = 1
         /\ ReadsOn(symbol, 0, Decisions(symbol)[1])
         /\ ParseAfter(symbol, 1) = Reader("done", symbol.kind, 0, 0, symbol.value)
<1> DEFINE kind == symbol.kind
           value == symbol.value
           bit == (value = 0) = (kind # "bool")
<1>1. /\ kind \in {"bool", "unsigned", "signed"} /\ value \in Int
      /\ kind = "bool" => value \in {0, 1}
      /\ kind # "bool" => value = 0
  BY DEF Symbols, Kinds, Writable
<1>2. kind = "bool" \/ Magnitude(value) = 0
  BY <1>1 DEF Magnitude
<1>3. Decisions(symbol) = <<Decision(0, bit)>>
  BY <1>2 DEF Decisions
<1>4. ParseAfter(symbol, 1) = Reader("done", kind, 0, 0, value)
  BY <1>2 DEF ParseAfter
<1>5. ParseAfter(symbol, 0) = Reader("zero", kind, 0, 0, 0)
  BY DEF ParseAfter, StartOfSymbol, Reader
<1>6. Decisions(symbol)[1].slot = 0 /\ Decisions(symbol)[1].bit = bit /\ bit \in BOOLEAN
  BY <1>3 DEF Decision
<1>7. kind = "bool" => value = IF bit THEN 1 ELSE 0
  BY <1>1
<1>8. kind # "bool" => bit = TRUE /\ value = 0
  BY <1>1
<1>9. Len(Decisions(symbol)) = 1
  BY <1>3
<1> DEFINE d == Decisions(symbol)[1]
<1> HIDE DEF bit, d
<1>10. SlotOf(Reader("zero", kind, 0, 0, 0)) = 0 /\ Reader("zero", kind, 0, 0, 0).stage = "zero"
  BY ReaderSlot, ReaderStage
<1>11. Parsed(Reader("zero", kind, 0, 0, 0), bit) = Reader("done", kind, 0, 0, value)
  <2>1. CASE kind = "bool"
    BY <1>1, <1>6, <1>7, <2>1, ParsedBool
  <2>2. CASE kind # "bool"
    <3>1. kind \in {"unsigned", "signed"}
      BY <1>1, <2>2
    <3>2. Parsed(Reader("zero", kind, 0, 0, 0), TRUE) = Reader("done", kind, 0, 0, 0)
      BY <3>1, ParsedZero
    <3>3. QED
      BY <1>8, <2>2, <3>2
  <2>3. QED
    BY <2>1, <2>2
<1>12. ReadsOn(symbol, 0, d)
  <2>1. 0 + 1 = 1
    OBVIOUS
  <2>2. d.slot = 0 /\ d.bit = bit
    BY <1>6 DEF d
  <2>3. QED
    BY <1>4, <1>5, <1>10, <1>11, <2>1, <2>2 DEF ReadsOn
<1>13. QED
  BY <1>4, <1>9, <1>12 DEF d

\* What read_symbol makes of the code of a symbol, decision by decision and in the end.
ReadsBack(symbol) ==
  /\ ParseAfter(symbol, 0) = StartOfSymbol(symbol.kind)
  /\ \A read \in Nat : read < Len(Decisions(symbol)) =>
       ReadsOn(symbol, read, Decisions(symbol)[read + 1])
  /\ ParseAfter(symbol, Len(Decisions(symbol))).stage = "done"
  /\ ParseAfter(symbol, Len(Decisions(symbol))).value = symbol.value
  /\ Len(Decisions(symbol)) \in Nat
  /\ 1 <= Len(Decisions(symbol)) /\ Len(Decisions(symbol)) <= 127

(***************************************************************************)
(* read_symbol inverts write_symbol, and the code of a symbol has room in  *)
(* the array of 127 decisions of write_symbol, for every value and kind.   *)
(***************************************************************************)
THEOREM SymbolReadBack ==
  ASSUME NEW symbol \in Symbols, Writable(symbol)
  PROVE  ReadsBack(symbol)
<1>1. ParseAfter(symbol, 0) = StartOfSymbol(symbol.kind)
  BY DEF ParseAfter
<1>2. CASE symbol.kind = "bool" \/ symbol.value = 0
  <2>1. /\ Len(Decisions(symbol)) = 1 /\ ReadsOn(symbol, 0, Decisions(symbol)[1])
        /\ ParseAfter(symbol, 1) = Reader("done", symbol.kind, 0, 0, symbol.value)
    BY <1>2, ReadsSimple
  <2>2. \A read \in Nat : read < 1 => read = 0 /\ read + 1 = 1
    OBVIOUS
  <2>3. /\ ParseAfter(symbol, 1).stage = "done" /\ ParseAfter(symbol, 1).value = symbol.value
    BY <2>1 DEF Reader
  <2>4. QED
    BY <1>1, <2>1, <2>2, <2>3 DEF ReadsBack
<1>3. CASE ~(symbol.kind = "bool" \/ symbol.value = 0)
  <2>1. Coded(symbol)
    BY <1>3 DEF Coded
  <2> DEFINE n == Len(Decisions(symbol))
  <2>2. /\ \A read \in Nat : read < n => ReadsOn(symbol, read, Decisions(symbol)[read + 1])
        /\ ParseAfter(symbol, n) = Reader("done", symbol.kind, Top(symbol), 0, symbol.value)
        /\ n \in Nat /\ 1 <= n /\ n <= 127
    BY <2>1, ReadsCoded
  <2>3. ParseAfter(symbol, n).stage = "done" /\ ParseAfter(symbol, n).value = symbol.value
    BY <2>2 DEF Reader
  <2>4. QED
    BY <1>1, <2>2, <2>3 DEF ReadsBack
<1>4. QED
  BY <1>2, <1>3

LEMMA ResetFollows ==
  ASSUME NEW bytes \in Seq(Byte), Len(bytes) >= 2, NEW states, NEW others,
         Contains(EncoderReset(states), bytes)
  PROVE  Follows(DecoderReset(bytes, others), EncoderReset(states), bytes)
<1> DEFINE coder == EncoderReset(states)
           low == 256 * bytes[1] + bytes[2]
           d == DecoderReset(bytes, others)
           zeros == <<0, 0>>
<1>1. coder.range = MaxRange /\ coder.low_bytes = zeros /\ Len(zeros) = 2
  BY DEF EncoderReset
<1>2. Gap(bytes, zeros) = low
  BY GapOfStart
<1>3. low < MaxRange
  BY <1>1, <1>2 DEF Contains
<1>4. low \in Int
  <2>1. bytes[1] \in Byte /\ bytes[2] \in Byte
    OBVIOUS
  <2> DEFINE a == bytes[1]
             b == bytes[2]
  <2>2. a \in Int /\ b \in Int
    BY <2>1, ByteType
  <2> HIDE DEF a, b
  <2>3. 256 * a + b \in Int
    BY <2>2
  <2>4. QED
    BY <2>3 DEF a, b
<1>5. d = [range |-> MaxRange,
           low |-> IF low >= MaxRange THEN MaxRange ELSE low,
           byte_position |-> 2,
           end |-> Len(bytes) <= 2 \/ low >= MaxRange,
           states |-> others]
  BY DEF DecoderReset
<1> HIDE DEF low, d, coder, zeros
<1>6. ~(low >= MaxRange)
  BY <1>3, <1>4, MaxRangeType
<1>7. d.range = MaxRange /\ d.low = low /\ d.byte_position = 2 /\ d.end = (Len(bytes) <= 2)
  BY <1>5, <1>6
<1>8. AtMost(2, Len(bytes)) = 2 /\ (Len(bytes) <= 2) = (2 >= Len(bytes))
  BY DEF AtMost
<1>9. Follows(d, coder, bytes)
  BY <1>1, <1>2, <1>7, <1>8 DEF Follows
<1>10. QED
  BY <1>9 DEF d, coder

\* An interval with one byte more of the payload behind it, the one after the first n.
Refilled(interval, range, low, n) ==
  /\ interval.range = range * 256
  /\ interval.low = 256 * low + Digit(payload, n + 1)
  /\ interval.byte_position = AtMost(n + 1, Len(payload))
  /\ interval.end = (n + 1 >= Len(payload))

\* The part of the payload that a reader has taken.
ReadUntil(n) ==
  dec.byte_position = AtMost(n, Len(payload)) /\ dec.end = (n >= Len(payload))

\* refill takes the byte that write_rac appended.
LEMMA RefillFollows ==
  ASSUME payload \in Seq(Byte), NEW n \in Nat, n >= 1, ReadUntil(n),
         NEW range \in Nat, NEW low \in Int
  PROVE  Refilled(Refill(range, low), range, low, n)
<1> DEFINE size == Len(payload)
           read == ~dec.end /\ dec.byte_position < size
           position == IF read THEN dec.byte_position + 1 ELSE dec.byte_position
           byte == IF read THEN payload[position] ELSE 0
           interval == Refill(range, low)
           digit == Digit(payload, n + 1)
           m == n + 1
<1>1. size \in Nat /\ m = n + 1 /\ m \in Nat
  OBVIOUS
<1>2. interval = [range |-> range * 256, low |-> low * 256 + byte,
                  byte_position |-> position, end |-> dec.end \/ position >= size]
  BY DEF Refill
<1> HIDE DEF m
<1>3. digit = (IF m <= size THEN payload[m] ELSE 0) /\ digit \in Int
  BY <1>1, DigitType DEF Digit
<1> HIDE DEF size, digit
<1>14. /\ dec.byte_position = (IF n < size THEN n ELSE size)
       /\ dec.end = (n >= size)
  BY DEF ReadUntil, AtMost, size
<1>4. ASSUME n < size
      PROVE  read /\ position = m /\ byte = digit /\ m <= size
  <2>7. dec.byte_position = n
    BY <1>4, <1>14
  <2>8. (n >= size) = FALSE
    BY <1>1, <1>4
  <2>1. dec.end = FALSE /\ dec.byte_position = n
    BY <2>7, <2>8, <1>14
  <2>2. read
    BY <1>4, <2>1
  <2>3. position = m
    BY <1>1, <2>1, <2>2
  <2>4. byte = payload[m]
    BY <2>2, <2>3
  <2>5. m <= size
    BY <1>1, <1>4
  <2>6. QED
    BY <1>3, <2>2, <2>3, <2>4, <2>5
<1>5. ASSUME ~(n < size)
      PROVE  ~read /\ position = size /\ byte = digit /\ byte = 0 /\ dec.end
  <2>7. dec.byte_position = size
    BY <1>5, <1>14
  <2>8. (n >= size) = TRUE
    BY <1>1, <1>5
  <2>1. dec.end = TRUE /\ dec.byte_position = size
    BY <2>7, <2>8, <1>14
  <2>2. ~read
    BY <2>1
  <2>3. ~(m <= size)
    BY <1>1, <1>5
  <2>4. QED
    BY <1>3, <2>1, <2>2, <2>3
<1>6. byte = digit
  BY <1>4, <1>5
<1>7. position = AtMost(m, size)
  BY <1>1, <1>4, <1>5 DEF AtMost
<1>8. (dec.end \/ position >= size) = (m >= size)
  <2>1. CASE n < size
    <3>1. dec.end = FALSE
      BY <1>4, <2>1
    <3>2. QED
      BY <1>4, <2>1, <3>1
  <2>2. CASE ~(n < size)
    BY <1>1, <1>5, <2>2
  <2>3. QED
    BY <2>1, <2>2
<1> HIDE DEF read, position, byte, interval
<1>9. /\ interval.range = range * 256
      /\ interval.low = low * 256 + digit
      /\ interval.byte_position = AtMost(m, size)
      /\ interval.end = (m >= size)
  BY <1>2, <1>6, <1>7, <1>8
<1>10. low * 256 + digit = 256 * low + digit
  BY <1>3
<1>11. QED
  BY <1>9, <1>10 DEF Refilled, interval, size, digit, m

\* A decision is read as it was written: the payload is in the part of the interval that
\* stands for it.
LEMMA ReadRacFollows ==
  ASSUME NEW coder \in EncoderStates, Len(coder.low_bytes) >= 2,
         ~Overflows(coder.low_bytes, coder.range),
         NEW context \in Contexts, NEW decision \in [slot : Slots, bit : BOOLEAN],
         payload \in Seq(Byte), Follows(dec, coder, payload),
         dec.states[context] = coder.states[context], SlotOf(parse) = decision.slot,
         ReadRac(context), Contains(Narrowed(coder, context, decision), payload)
  PROVE  /\ Follows(dec', Narrowed(coder, context, decision), payload)
         /\ dec'.states = Adapted(dec.states, context, decision.slot, decision.bit)
         /\ Narrowed(coder, context, decision).states =
              Adapted(coder.states, context, decision.slot, decision.bit)
         /\ parse' = Parsed(parse, decision.bit)
<1> DEFINE slot == SlotOf(parse)
           one == OneRange(dec.range, dec.states[context][slot])
           bit == dec.low >= dec.range - one
           range == IF bit THEN one ELSE dec.range - one
           low == IF bit THEN dec.low - (dec.range - one) ELSE dec.low
           interval == IF TooSmall(range) THEN Refill(range, low) ELSE Kept(range, low)
           new == Narrowed(coder, context, decision)
           n == Len(coder.low_bytes)
           taken == Part(coder, context, decision)
           rest == Rest(coder, context, decision, payload)
           gap == Gap(payload, coder.low_bytes)
<1>1. /\ dec' = [range |-> interval.range, low |-> interval.low,
                 byte_position |-> interval.byte_position, end |-> interval.end,
                 states |-> Adapted(dec.states, context, slot, bit)]
      /\ parse' = Parsed(parse, bit)
  BY DEF ReadRac
<1>2. /\ dec.range = coder.range /\ dec.low = gap
      /\ dec.byte_position = AtMost(n, Len(payload)) /\ dec.end = (n >= Len(payload))
  BY DEF Follows
<1>3. slot = decision.slot /\ one = OnePart(coder, context, decision)
  BY <1>2 DEF OnePart
<1>4. decision.bit <=> gap >= coder.range - OnePart(coder, context, decision)
  BY NarrowedContains
<1>5. bit = decision.bit
  <2>1. bit \in BOOLEAN /\ decision.bit \in BOOLEAN
    OBVIOUS
  <2>2. bit <=> decision.bit
    BY <1>2, <1>3, <1>4
  <2>3. QED
    BY <2>1, <2>2
<1>6. range = taken /\ low = rest
  BY <1>2, <1>3, <1>5 DEF Part, Rest
<1>7. /\ taken \in Nat /\ rest \in Int
      /\ new.states = Adapted(coder.states, context, decision.slot, decision.bit)
      /\ ~TooSmall(taken) => /\ new.range = taken
                             /\ Len(new.low_bytes) = n
                             /\ Gap(payload, new.low_bytes) = rest
      /\ TooSmall(taken) => /\ new.range = taken * 256
                            /\ Len(new.low_bytes) = n + 1
                            /\ Gap(payload, new.low_bytes) = 256 * rest + Digit(payload, n + 1)
  BY NarrowedGap
<1>8. n \in Nat /\ n >= 1
  BY DEF EncoderStates
<1>9. interval = IF TooSmall(taken) THEN Refill(taken, rest) ELSE Kept(taken, rest)
  BY <1>6
<1> HIDE DEF slot, one, bit, range, low, interval, new, n, taken, rest, gap
<1>10. /\ interval.range = new.range
       /\ interval.low = Gap(payload, new.low_bytes)
       /\ interval.byte_position = AtMost(Len(new.low_bytes), Len(payload))
       /\ interval.end = (Len(new.low_bytes) >= Len(payload))
  <2>1. CASE TooSmall(taken)
    <3> DEFINE refilled == Refill(taken, rest)
    <3>1. /\ refilled.range = taken * 256
          /\ refilled.low = 256 * rest + Digit(payload, n + 1)
          /\ refilled.byte_position = AtMost(n + 1, Len(payload))
          /\ refilled.end = (n + 1 >= Len(payload))
      <4>1. ReadUntil(n)
        BY <1>2 DEF ReadUntil
      <4>2. taken \in Nat /\ rest \in Int
        BY <1>7
      <4>3. Refilled(refilled, taken, rest, n)
        BY <1>8, <4>1, <4>2, RefillFollows
      <4> HIDE DEF refilled
      <4>4. QED
        BY <4>3 DEF Refilled
    <3>2. interval = refilled
      BY <1>9, <2>1
    <3> HIDE DEF refilled
    <3>3. QED
      BY <1>7, <2>1, <3>1, <3>2
  <2>2. CASE ~TooSmall(taken)
    <3>1. interval = Kept(taken, rest)
      BY <1>9, <2>2
    <3>2. /\ interval.range = taken /\ interval.low = rest
          /\ interval.byte_position = dec.byte_position /\ interval.end = dec.end
      BY <3>1 DEF Kept
    <3>3. QED
      BY <1>2, <1>7, <2>2, <3>2
  <2>3. QED
    BY <2>1, <2>2
<1>11. /\ dec'.range = interval.range /\ dec'.low = interval.low
       /\ dec'.byte_position = interval.byte_position /\ dec'.end = interval.end
       /\ dec'.states = Adapted(dec.states, context, slot, bit)
  BY <1>1
<1>12. Follows(dec', new, payload)
  BY <1>10, <1>11 DEF Follows
<1>13. QED
  BY <1>1, <1>3, <1>5, <1>7, <1>11, <1>12 DEF new

WritableSymbols == {symbol \in Symbols : Writable(symbol)}

LEMMA SymbolType ==
  ASSUME NEW context \in Contexts, NEW kind \in Kinds, NEW value \in Int,
         kind = "bool" => value \in {0, 1},
         kind # "bool" => Codable(value),
         kind = "unsigned" => value >= 0
  PROVE  Symbol(context, kind, value) \in WritableSymbols
BY DEF Symbol, WritableSymbols, Symbols, Writable

LEMMA HeaderType ==
  ASSUME NEW keyframe \in BOOLEAN, cell \in Cells
  PROVE  /\ Header(keyframe) \in Seq(WritableSymbols)
         /\ Len(Header(keyframe)) = HeaderLength /\ HeaderLength \in Nat /\ HeaderLength >= 1
<1>1. cell[1] \in Nat /\ cell[2] \in Nat /\ Codable(cell[1]) /\ Codable(cell[2])
  BY SliceAssumption
<1>2. /\ "keyframe" \in Contexts /\ "header" \in Contexts
      /\ "bool" \in Kinds /\ "unsigned" \in Kinds
  BY SliceAssumption DEF Kinds
<1>3. Flag(keyframe) \in Seq(WritableSymbols) /\ Len(Flag(keyframe)) = IF First THEN 1 ELSE 0
  <2> DEFINE v == IF keyframe THEN 1 ELSE 0
  <2>1. v \in Int /\ v \in {0, 1}
    OBVIOUS
  <2> HIDE DEF v
  <2>2. Symbol("keyframe", "bool", v) \in WritableSymbols
    BY <1>2, <2>1, SymbolType
  <2>3. QED
    BY <2>2 DEF Flag, v
<1> DEFINE values == HeaderValues
<1>4. /\ Len(values) = 9 /\ DOMAIN values = 1..9
      /\ \A i \in 1..9 : values[i] \in Int /\ Codable(values[i]) /\ values[i] >= 0
  <2>1. Codable(0)
    BY DEF Codable
  <2>2. QED
    BY <1>1, <2>1 DEF HeaderValues
<1> HIDE DEF values
<1>5. ASSUME NEW i \in 1..9
      PROVE  Symbol("header", "unsigned", values[i]) \in WritableSymbols
  BY <1>2, <1>4, SymbolType
<1> DEFINE rest == [i \in 1..9 |-> Symbol("header", "unsigned", values[i])]
<1>6. rest \in Seq(WritableSymbols) /\ Len(rest) = 9
  BY <1>5
<1>7. Header(keyframe) = Flag(keyframe) \o rest
  BY <1>4 DEF Header, values
<1> HIDE DEF rest
<1>8. HeaderLength = 9 + IF First THEN 1 ELSE 0
  BY <1>4 DEF HeaderLength, values
<1> DEFINE flag == Flag(keyframe)
<1> HIDE DEF flag
<1>9. flag \in Seq(WritableSymbols) /\ Len(flag) = IF First THEN 1 ELSE 0
  BY <1>3 DEF flag
<1>10. /\ flag \o rest \in Seq(WritableSymbols)
       /\ Len(flag \o rest) = Len(flag) + Len(rest)
  BY <1>6, <1>9, Concatenation
<1>11. HeaderLength \in Nat /\ HeaderLength >= 1 /\ Len(flag) + Len(rest) = HeaderLength
  BY <1>6, <1>8, <1>9
<1>12. QED
  BY <1>7, <1>10, <1>11 DEF flag

LEMMA ContentType ==
  ASSUME NEW samples \in SampleSeqs
  PROVE  Content(samples) \in Seq(WritableSymbols)
<1>1. PICK n \in 1..MaxSamples : samples \in [1..n -> Samples]
  BY DEF SampleSeqs
<1>2. n \in Nat /\ DOMAIN samples = 1..n
  BY <1>1, SliceAssumption
<1>3. ASSUME NEW i \in 1..n
      PROVE  Symbol("content", "signed", samples[i]) \in WritableSymbols
  <2>1. samples[i] \in Int /\ Codable(samples[i])
    BY <1>1, SliceAssumption
  <2>2. QED
    BY <2>1, SymbolType, SliceAssumption DEF Kinds
<1>4. QED
  BY <1>2, <1>3 DEF Content

(***************************************************************************)
(* Contexts, and the closed payload.                                       *)
(***************************************************************************)
ReferenceType == [Slots -> Live] \cup {None}

LEMMA StatesFromType ==
  ASSUME NEW contexts \in ReferenceType
  PROVE  StatesFrom(contexts) \in [Contexts -> [Slots -> Live]]
<1>1. DefaultState \in Live
  BY LiveType DEF DefaultState
<1>2. DefaultStates \in [Slots -> Live]
  BY <1>1 DEF DefaultStates
<1>3. QED
  BY <1>2 DEF StatesFrom, ReferenceType

LEMMA NoReference == None \in ReferenceType
BY DEF ReferenceType

LEMMA EncoderResetType ==
  ASSUME NEW states \in [Contexts -> [Slots -> Live]]
  PROVE  /\ EncoderReset(states) \in EncoderStates
         /\ Len(EncoderReset(states).low_bytes) = 2
         /\ ~Overflows(EncoderReset(states).low_bytes, EncoderReset(states).range)
<1>1. MaxRange \in 256..MaxRange
  <2>1. 256 <= MaxRange
    BY MaxRangeValue
  <2>2. QED
    BY <2>1, MaxRangeType, RangeType
<1>2. 0 \in Byte
  BY ByteType
<1>3. <<0, 0>> \in Seq(Byte) /\ Len(<<0, 0>>) = 2
  BY <1>2
<1>4. EncoderReset(states) = [range |-> MaxRange, low_bytes |-> <<0, 0>>, states |-> states]
  BY DEF EncoderReset
<1>5. TailSum(<<0, 0>>, MaxRange) = MaxRange
  BY MaxRangeType DEF TailSum
<1>6. ~Overflows(<<0, 0>>, MaxRange)
  BY <1>5, MaxRangeValue DEF Overflows, CarryReaches
<1>7. QED
  BY <1>1, <1>3, <1>4, <1>6 DEF EncoderStates

\* The value that closes the payload lies within the interval.
LEMMA ClosingDeltaType ==
  ASSUME enc \in EncoderStates, Len(enc.low_bytes) >= 2
  PROVE  ClosingDelta \in Nat /\ ClosingDelta < enc.range
<1> DEFINE range == enc.range
           toZero == (256 - LastByte) % 256
           target == range \div 2
           below == IF toZero <= target THEN toZero + 256 * ((target - toZero) \div 256) ELSE toZero
<1>1. enc.range \in 256..MaxRange /\ enc.low_bytes \in Seq(Byte)
  BY DEF EncoderStates
<1>2. range \in Nat /\ 256 <= range
  BY <1>1, RangeType
<1>3. LastByte \in Nat /\ LastByte <= 255
  BY <1>1, TailBytes DEF LastByte
<1>4. toZero \in Nat /\ toZero <= 255
  BY <1>3
<1>5. target \in Nat /\ target <= range
  BY <1>2
<1>6. ClosingDelta = IF below + 256 < range /\ target - below > below + 256 - target
                     THEN below + 256 ELSE below
  BY DEF ClosingDelta
<1> HIDE DEF toZero, target, range
<1>7. below \in Nat /\ below < range
  <2>1. CASE toZero <= target
    <3> DEFINE q == (target - toZero) \div 256
    <3>1. q \in Nat /\ 256 * q <= target - toZero
      BY <1>4, <1>5, <2>1
    <3>2. below = toZero + 256 * q
      BY <2>1
    <3>3. target < range
      BY <1>2 DEF target
    <3> HIDE DEF q, below
    <3>4. QED
      BY <1>2, <1>4, <1>5, <3>1, <3>2, <3>3
  <2>2. CASE ~(toZero <= target)
    BY <1>2, <1>4, <2>2
  <2>3. QED
    BY <2>1, <2>2
<1> HIDE DEF below
<1>8. QED
  BY <1>2, <1>6, <1>7 DEF range

LEMMA ClosedBytesType ==
  ASSUME enc \in EncoderStates, Len(enc.low_bytes) >= 2
  PROVE  ClosedBytes \in Seq(Byte) /\ Len(ClosedBytes) >= 2
<1> DEFINE bytes == AddToLow(enc.low_bytes, ClosingDelta)
<1>1. enc.low_bytes \in Seq(Byte)
  BY DEF EncoderStates
<1>2. bytes \in Seq(Byte) /\ Len(bytes) >= 2
  BY <1>1, ClosingDeltaType, AddToLowType
<1>3. ClosedBytes = IF Len(bytes) > 2 /\ bytes[Len(bytes)] = 0
                    THEN SubSeq(bytes, 1, Len(bytes) - 1) ELSE bytes
  BY DEF ClosedBytes
<1> HIDE DEF bytes
<1>4. Len(bytes) > 2 => /\ SubSeq(bytes, 1, Len(bytes) - 1) \in Seq(Byte)
                        /\ Len(SubSeq(bytes, 1, Len(bytes) - 1)) = Len(bytes) - 1
  BY <1>2
<1>5. QED
  BY <1>2, <1>3, <1>4

(***************************************************************************)
(* The invariant.                                                          *)
(***************************************************************************)
LEMMA DecoderHolds ==
  ASSUME TypeOK, ReaderInv
  PROVE  DecoderInv(dec, payload)
BY DEF TypeOK, ReaderInv, DecoderInv

LEMMA StartParses ==
  ASSUME NEW kind \in Kinds
  PROVE  StartOfSymbol(kind) \in Parses
<1>1. "zero" \in Stages
  BY DEF Stages
<1>2. QED
  BY <1>1 DEF StartOfSymbol, Parses

\* What the script of a slice in progress contains.
LEMMA ScriptHolds ==
  ASSUME ScriptInv, pc # "idle"
  PROVE  /\ Len(script) \in Nat /\ HeaderLength \in Nat
         /\ HeaderLength >= 1 /\ HeaderLength <= Len(script)
         /\ \A i \in 1..Len(script) :
              /\ script[i] \in Symbols /\ Writable(script[i])
              /\ script[i].context \in Contexts /\ script[i].kind \in Kinds
              /\ Decisions(script[i]) \in Seq(DecisionType) /\ Len(Decisions(script[i])) >= 1
<1>1. script \in Seq(Symbols) /\ Len(script) \in Nat /\ DOMAIN script = 1..Len(script)
  BY DEF ScriptInv
<1>2. cell \in Cells /\ Len(script) >= HeaderLength
  BY DEF ScriptInv
<1>3. HeaderLength >= 1
  BY <1>2, HeaderType
<1>4. HeaderLength \in Nat
  BY <1>2, HeaderType
<1>5. ASSUME NEW i \in 1..Len(script)
      PROVE  script[i] \in Symbols /\ Writable(script[i])
  BY <1>1 DEF ScriptInv
<1>6. \A symbol \in Symbols : symbol.context \in Contexts /\ symbol.kind \in Kinds
  BY DEF Symbols
<1>7. QED
  BY <1>1, <1>2, <1>3, <1>4, <1>5, <1>6, DecisionsType

LEMMA Initial == Init => CoderInv
<1> SUFFICES ASSUME Init
             PROVE  CoderInv
  OBVIOUS
<1> DEFINE states == StatesFrom(None)
<1>1. states \in [Contexts -> [Slots -> Live]]
  BY StatesFromType, NoReference
<1>2. enc = EncoderReset(states) /\ dec = DecoderReset(<<0, 0>>, states)
  BY DEF Init
<1> HIDE DEF states
<1>3. <<0, 0>> \in Seq(Byte) /\ Len(<<0, 0>>) = 2
  <2>1. 0 \in Byte
    BY ByteType
  <2>2. QED
    BY <2>1
<1> DEFINE zeros == <<0, 0>>
<1>4. zeros \in Seq(Byte) /\ Len(zeros) = 2 /\ dec = DecoderReset(zeros, states)
  BY <1>2, <1>3
<1> HIDE DEF zeros
<1>5. DecoderInv(dec, zeros)
  <2>1. Len(zeros) >= 2
    BY <1>4
  <2>2. DecoderInv(DecoderReset(zeros, states), zeros)
    BY <1>1, <1>4, <2>1, ResetKeeps
  <2>3. QED
    BY <1>4, <2>2
<1>6. enc \in EncoderStates /\ Len(enc.low_bytes) = 2 /\ ~Overflows(enc.low_bytes, enc.range)
  BY <1>1, <1>2, EncoderResetType
<1>7. TypeOK /\ CarryInv
  BY <1>4, <1>5, <1>6 DEF TypeOK, DecoderInv, CarryInv
<1>8. ReaderInv
  <2>1. dec.low = dec.range => dec.end
    BY <1>5 DEF DecoderInv
  <2>2. parse \in Parses
    BY StartParses DEF Init, Kinds
  <2>3. QED
    BY <2>1, <2>2 DEF Init, ReaderInv, Parses
<1>9. ContextsInv
  BY DEF Init, ContextsInv
<1>10. ScriptInv
  BY DEF Init, ScriptInv
<1>11. QED
  BY <1>7, <1>8, <1>9, <1>10 DEF CoderInv

LEMMA EncodeSliceKeeps ==
  ASSUME CoderInv, NEW keyframe \in BOOLEAN, NEW samples \in SampleSeqs,
         EncodeSlice(keyframe, samples)
  PROVE  CoderInv'
<1> DEFINE content == IF golomb THEN <<>> ELSE Content(samples)
           references == IF keyframe THEN None ELSE enc_contexts
<1>1. /\ script' = Header(keyframe) \o content
      /\ next' = 1 /\ coded' = 0 /\ pc' = "encode"
      /\ enc' = EncoderReset(StatesFrom(references))
      /\ UNCHANGED <<cell, slice, payload, dec, parse, enc_contexts, dec_contexts>>
  BY DEF EncodeSlice, streamVars
<1>2. cell \in Cells
  BY DEF CoderInv, ScriptInv
<1>3. content \in Seq(WritableSymbols)
  BY ContentType
<1>4. /\ Header(keyframe) \in Seq(WritableSymbols)
      /\ Len(Header(keyframe)) = HeaderLength /\ HeaderLength >= 1
  BY <1>2, HeaderType
<1>5. references \in ReferenceType
  BY DEF CoderInv, ContextsInv, ReferenceType
<1> HIDE DEF content, references
<1> DEFINE header == Header(keyframe)
<1> HIDE DEF header
<1>6. /\ script' \in Seq(WritableSymbols) /\ Len(script') >= HeaderLength
      /\ Len(script') \in Nat /\ Len(script') >= 1
  <2>1. header \in Seq(WritableSymbols) /\ Len(header) = HeaderLength /\ HeaderLength >= 1
    BY <1>4 DEF header
  <2>2. header \o content \in Seq(WritableSymbols) /\ Len(header \o content) = Len(header) + Len(content)
    BY <1>3, <2>1, Concatenation
  <2>3. Len(header) \in Nat /\ Len(content) \in Nat
    BY <1>3, <2>1
  <2>4. script' = header \o content
    BY <1>1 DEF header
  <2>5. QED
    BY <2>1, <2>2, <2>3, <2>4
<1>7. HeaderLength' = HeaderLength
  BY <1>1 DEF HeaderLength, HeaderValues, First
<1>8. ScriptInv'
  <2>1. \A i \in DOMAIN script' : script'[i] \in Symbols /\ Writable(script'[i])
    BY <1>6 DEF WritableSymbols
  <2>2. script' \in Seq(Symbols)
    <3>1. WritableSymbols \subseteq Symbols
      BY DEF WritableSymbols
    <3>2. QED
      BY <1>6, <3>1
  <2>3. 1 \in DOMAIN script'
    BY <1>6
  <2>4. Len(Decisions(script'[1])) >= 1 /\ Len(Decisions(script'[1])) \in Nat
    BY <2>1, <2>3, DecisionsType
  <2>5. coded' < Len(Decisions(script'[next']))
    <3>1. script'[next'] = script'[1] /\ coded' = 0
      BY <1>1
    <3>2. Len(Decisions(script'[next'])) = Len(Decisions(script'[1]))
      BY <3>1
    <3> DEFINE n == Len(Decisions(script'[1]))
    <3> HIDE DEF n
    <3>3. n \in Nat /\ n >= 1
      BY <2>4 DEF n
    <3>4. coded' < n
      BY <3>1, <3>3
    <3>5. QED
      BY <3>2, <3>4 DEF n
  <2>6. QED
    BY <1>1, <1>2, <1>6, <1>7, <2>1, <2>2, <2>5 DEF ScriptInv
<1>9. TypeOK' /\ CarryInv'
  <2>1. StatesFrom(references) \in [Contexts -> [Slots -> Live]]
    BY <1>5, StatesFromType
  <2>2. enc' \in EncoderStates /\ Len(enc'.low_bytes) = 2 /\ ~Overflows(enc'.low_bytes, enc'.range)
    BY <1>1, <2>1, EncoderResetType
  <2>3. QED
    BY <1>1, <2>2 DEF CoderInv, TypeOK, CarryInv
<1>10. ReaderInv' /\ ContextsInv'
  BY <1>1 DEF CoderInv, ReaderInv, ContextsInv
<1>11. QED
  BY <1>8, <1>9, <1>10 DEF CoderInv

LEMMA WriteDecisionKeeps ==
  ASSUME CoderInv, WriteDecision
  PROVE  CoderInv'
<1> DEFINE decisions == Decisions(script[next])
<1>1. /\ pc = "encode" /\ next <= Len(script)
      /\ WriteRac(script[next].context, decisions[coded + 1])
      /\ IF coded + 1 < Len(decisions)
         THEN coded' = coded + 1 /\ next' = next
         ELSE coded' = 0 /\ next' = next + 1
      /\ UNCHANGED <<pc, cell, script, slice, payload, dec, parse, enc_contexts, dec_contexts>>
  BY DEF WriteDecision, streamVars, sliceVars
<1>2. /\ Len(script) \in Nat /\ next \in 1..Len(script) /\ coded \in Nat
      /\ coded < Len(decisions)
  <2>1. next \in Nat \ {0} /\ coded \in Nat /\ coded < Len(decisions)
    BY <1>1 DEF CoderInv, ScriptInv
  <2>2. Len(script) \in Nat
    BY <1>1, ScriptHolds DEF CoderInv
  <2>3. QED
    BY <1>1, <2>1, <2>2
<1>3. /\ script[next].context \in Contexts
      /\ decisions \in Seq(DecisionType)
  BY <1>1, <1>2, ScriptHolds DEF CoderInv
<1>4. \A i \in 1..Len(script) : Len(Decisions(script[i])) >= 1 /\ Len(Decisions(script[i])) \in Nat
  <2>1. \A s \in Seq(DecisionType) : Len(s) \in Nat
    OBVIOUS
  <2>2. QED
    BY <1>1, <2>1, ScriptHolds DEF CoderInv
<1> HIDE DEF decisions
<1>5. coded + 1 \in 1..Len(decisions) /\ Len(decisions) \in Nat
  BY <1>2, <1>3
<1>6. decisions[coded + 1] \in [slot : Slots, bit : BOOLEAN]
  <2>1. decisions[coded + 1] \in DecisionType
    BY <1>3, <1>5
  <2>2. QED
    BY <2>1 DEF DecisionType
<1>7. enc' \in EncoderStates /\ Len(enc'.low_bytes) >= 2 /\ CarryInv'
  <2>1. /\ enc \in EncoderStates /\ Len(enc.low_bytes) >= 2
        /\ ~Overflows(enc.low_bytes, enc.range)
    BY DEF CoderInv, TypeOK, CarryInv
  <2>2. enc' = Narrowed(enc, script[next].context, decisions[coded + 1])
    BY <1>1 DEF WriteRac
  <2> DEFINE new == Narrowed(enc, script[next].context, decisions[coded + 1])
  <2>3. new \in EncoderStates /\ Len(new.low_bytes) >= 2 /\ ~Overflows(new.low_bytes, new.range)
    BY <1>3, <1>6, <2>1, NarrowedType
  <2> HIDE DEF new
  <2>4. enc' = new
    BY <2>2 DEF new
  <2>5. QED
    BY <2>3, <2>4 DEF CarryInv
<1>8. next' \in Nat \ {0} /\ coded' \in Nat
  BY <1>1, <1>2
<1>9. next' <= Len(script) => coded' < Len(Decisions(script[next']))
  <2>1. CASE coded + 1 < Len(decisions)
    BY <1>1, <2>1 DEF decisions
  <2>2. CASE ~(coded + 1 < Len(decisions))
    <3>1. coded' = 0 /\ next' = next + 1
      BY <1>1, <2>2
    <3>2. next' <= Len(script) => next' \in 1..Len(script)
      BY <1>2, <3>1
    <3>3. QED
      BY <1>4, <3>1, <3>2
  <2>3. QED
    BY <2>1, <2>2
<1>10. HeaderLength' = HeaderLength
  BY <1>1 DEF HeaderLength, HeaderValues, First
<1>11. ScriptInv'
  BY <1>1, <1>8, <1>9, <1>10 DEF CoderInv, ScriptInv
<1>12. TypeOK' /\ ReaderInv' /\ ContextsInv'
  BY <1>1, <1>7 DEF CoderInv, TypeOK, ReaderInv, ContextsInv
<1>13. QED
  BY <1>7, <1>11, <1>12 DEF CoderInv

Footer(size, check) == <<size \div 65536, (size \div 256) % 256, size % 256>> \o check

LEMMA FooterType ==
  ASSUME NEW bytes \in Seq(Byte), Len(bytes) < 16777216, NEW check \in Checks
  PROVE  /\ Footer(Len(bytes), check) \in Seq(Byte)
         /\ Len(Footer(Len(bytes), check)) >= 1
         /\ Footer(Len(bytes), check)[1] = Len(bytes) \div 65536
<1> DEFINE size == Len(bytes)
           high == size \div 65536
           middle == (size \div 256) % 256
           low == size % 256
<1>1. size \in Nat /\ size < 16777216
  OBVIOUS
<1> HIDE DEF size
<1>2. high \in Int /\ 0 <= high /\ high <= 255
  BY <1>1
<1>3. middle \in Byte /\ low \in Byte
  BY <1>1, Modulo
<1> HIDE DEF high, middle, low
<1>4. high \in Byte
  BY <1>2, ByteType
<1>5. <<high, middle, low>> \in Seq(Byte)
  BY <1>3, <1>4
<1> DEFINE sizes == <<high, middle, low>>
<1>6. check \in Seq(Byte)
  BY SliceAssumption
<1>7. /\ sizes \o check \in Seq(Byte) /\ Len(sizes \o check) >= 1
      /\ (sizes \o check)[1] = high
  <2>1. sizes \in Seq(Byte) /\ Len(sizes) = 3 /\ sizes[1] = high
    BY <1>5
  <2>9. sizes \in Seq(Byte)
    BY <2>1
  <2> HIDE DEF sizes
  <2>2. sizes \o check \in Seq(Byte) /\ Len(sizes \o check) = Len(sizes) + Len(check)
    <3>1. sizes \o check \in Seq(Byte)
      BY ONLY <1>6, <2>9, Concatenation
    <3>2. Len(sizes \o check) = Len(sizes) + Len(check)
      BY ONLY <1>6, <2>9, Concatenation
    <3>3. QED
      BY <3>1, <3>2
  <2>3. Len(check) \in Nat
    BY <1>6
  <2>4. Len(sizes \o check) >= 1
    BY <2>1, <2>2, <2>3
  <2>5. (sizes \o check)[1] = sizes[1]
    <3>1. PICK i \in Nat : i = 1
      OBVIOUS
    <3>2. i \in Nat /\ i >= 1 /\ i <= Len(sizes)
      BY <2>1, <3>1
    <3>3. i <= Len(sizes) => (sizes \o check)[i] = sizes[i]
      BY ONLY <1>6, <2>9, <3>2, ConcatenationAt
    <3>4. (sizes \o check)[i] = sizes[i]
      BY <3>2, <3>3
    <3>5. QED
      BY ONLY <3>1, <3>4
  <2>6. QED
    BY <2>1, <2>2, <2>4, <2>5
<1>8. Footer(size, check) = sizes \o check
  BY DEF Footer, high, middle, low
<1>9. QED
  BY <1>7, <1>8 DEF high, size

\* Both readers start within their bytes, with the first symbol of the script.
LEMMA StartReads ==
  ASSUME ScriptInv, pc # "idle",
         NEW bytes \in Seq(Byte), Len(bytes) >= 2, NEW references \in ReferenceType
  PROVE  /\ DecoderInv(DecoderReset(bytes, StatesFrom(references)), bytes)
         /\ StartOfSymbol(script[1].kind) \in Parses
<1>1. DecoderInv(DecoderReset(bytes, StatesFrom(references)), bytes)
  <2> DEFINE states == StatesFrom(references)
  <2>1. states \in [Contexts -> [Slots -> Live]]
    BY StatesFromType
  <2> HIDE DEF states
  <2>2. DecoderInv(DecoderReset(bytes, states), bytes)
    BY <2>1, ResetKeeps
  <2>3. QED
    BY <2>2 DEF states
<1>2. script[1].kind \in Kinds
  <2>1. 1 \in 1..Len(script)
    BY ScriptHolds
  <2>2. QED
    BY <2>1, ScriptHolds
<1>3. QED
  BY <1>1, <1>2, StartParses

LEMMA FinishSliceKeeps ==
  ASSUME CoderInv, NEW body \in Bodies, NEW check \in Checks, FinishSlice(body, check)
  PROVE  CoderInv'
<1> DEFINE bytes == IF golomb THEN ExactBytes \o body ELSE ClosedBytes
           size == Len(bytes)
           tail == Footer(Len(bytes), check)
<1>1. /\ pc = "encode" /\ size < 16777216
      /\ enc_contexts' = IF golomb THEN enc_contexts ELSE enc.states["content"]
      /\ slice' = bytes
      /\ payload' = bytes \o tail
      /\ dec' = DecoderReset(bytes \o tail, StatesFrom(None))
      /\ parse' = StartOfSymbol(script[1].kind)
      /\ next' = 1 /\ pc' = "probe"
      /\ UNCHANGED <<cell, script, coded, dec_contexts, enc>>
  BY DEF FinishSlice, StartProbe, Footer, streamVars
<1>2. enc \in EncoderStates /\ Len(enc.low_bytes) >= 2
  BY DEF CoderInv, TypeOK
<1>3. bytes \in Seq(Byte) /\ Len(bytes) >= 2
  <2>1. CASE golomb
    <3>1. enc.low_bytes \in Seq(Byte) /\ body \in Seq(Byte)
      BY <1>2, SliceAssumption DEF EncoderStates
    <3>2. /\ enc.low_bytes \o body \in Seq(Byte)
          /\ Len(enc.low_bytes \o body) = Len(enc.low_bytes) + Len(body)
      BY <3>1, Concatenation
    <3>3. Len(body) \in Nat /\ Len(enc.low_bytes) \in Nat
      BY <3>1
    <3>4. bytes = enc.low_bytes \o body
      BY <2>1 DEF ExactBytes
    <3> HIDE DEF bytes
    <3>5. QED
      BY <1>2, <3>2, <3>3, <3>4
  <2>2. CASE ~golomb
    BY <1>2, <2>2, ClosedBytesType
  <2>3. QED
    BY <2>1, <2>2
<1> HIDE DEF bytes
<1>4. tail \in Seq(Byte)
  BY <1>1, <1>3, FooterType
<1> HIDE DEF size, tail
<1>5. bytes \o tail \in Seq(Byte) /\ Len(bytes \o tail) >= 2
  <2>1. /\ bytes \o tail \in Seq(Byte)
        /\ Len(bytes \o tail) = Len(bytes) + Len(tail)
    BY <1>3, <1>4, Concatenation
  <2>2. Len(bytes) \in Nat /\ Len(tail) \in Nat
    BY <1>3, <1>4
  <2>3. QED
    BY <1>3, <2>1, <2>2
<1>6. DecoderInv(dec', payload') /\ parse' \in Parses
  <2> DEFINE all == bytes \o tail
  <2>1. all \in Seq(Byte) /\ Len(all) >= 2 /\ ScriptInv /\ pc # "idle"
    BY <1>1, <1>5 DEF CoderInv
  <2> HIDE DEF all
  <2>2. /\ DecoderInv(DecoderReset(all, StatesFrom(None)), all)
        /\ StartOfSymbol(script[1].kind) \in Parses
    BY <2>1, NoReference, StartReads
  <2>3. QED
    BY <1>1, <2>2 DEF all
<1>7. TypeOK' /\ CarryInv'
  BY <1>1, <1>6 DEF CoderInv, TypeOK, DecoderInv, CarryInv
<1>8. ReaderInv'
  BY <1>1, <1>3, <1>5, <1>6 DEF ReaderInv, DecoderInv, Parses
<1>9. ContextsInv'
  <2>1. enc.states["content"] \in [Slots -> Live]
    BY <1>2, SliceAssumption DEF EncoderStates
  <2>2. QED
    BY <1>1, <2>1 DEF CoderInv, ContextsInv
<1>10. ScriptInv'
  <2>1. HeaderLength' = HeaderLength
    BY <1>1 DEF HeaderLength, HeaderValues, First
  <2>2. HeaderLength >= 1 /\ HeaderLength \in Nat
    BY <1>1, ScriptHolds DEF CoderInv
  <2>3. QED
    BY <1>1, <2>1, <2>2 DEF CoderInv, ScriptInv
<1>11. QED
  BY <1>7, <1>8, <1>9, <1>10 DEF CoderInv

LEMMA ReadDecisionKeeps ==
  ASSUME CoderInv, ReadDecision
  PROVE  CoderInv'
<1>1. /\ pc \in {"probe", "decode"}
      /\ ReadRac(script[next].context)
      /\ UNCHANGED <<pc, cell, script, next, coded, slice, payload, enc, enc_contexts, dec_contexts>>
  BY DEF ReadDecision, streamVars, sliceVars
<1>2. script[next].context \in Contexts
  <2>1. Len(script) \in Nat /\ HeaderLength \in Nat /\ HeaderLength <= Len(script)
    BY <1>1, ScriptHolds DEF CoderInv
  <2>2. next \in Nat \ {0} /\ (next <= HeaderLength \/ next <= Len(script))
    BY <1>1 DEF CoderInv, ScriptInv
  <2>3. next \in 1..Len(script)
    BY <2>1, <2>2
  <2>4. QED
    BY <1>1, <2>3, ScriptHolds DEF CoderInv
<1>3. DecoderInv(dec', payload) /\ parse' \in Parses
  <2>1. payload \in Seq(Byte) /\ parse \in Parses
    BY DEF CoderInv, ReaderInv, Parses
  <2>2. DecoderInv(dec, payload)
    BY DecoderHolds DEF CoderInv
  <2>3. QED
    BY <1>1, <1>2, <2>1, <2>2, ReadRacKeeps
<1>4. TypeOK' /\ ReaderInv'
  BY <1>1, <1>3 DEF CoderInv, TypeOK, ReaderInv, DecoderInv, Parses
<1>5. HeaderLength' = HeaderLength
  BY <1>1 DEF HeaderLength, HeaderValues, First
<1>6. ScriptInv' /\ ContextsInv' /\ CarryInv'
  BY <1>1, <1>5 DEF CoderInv, ScriptInv, ContextsInv, CarryInv
<1>7. QED
  BY <1>4, <1>6 DEF CoderInv

LEMMA NextSymbolKeeps ==
  ASSUME CoderInv, NextSymbol
  PROVE  CoderInv'
<1>1. /\ pc \in {"probe", "decode"} /\ next < ToRead /\ next' = next + 1
      /\ parse' = StartOfSymbol(script[next + 1].kind)
      /\ UNCHANGED <<pc, cell, script, coded, slice, payload, dec, enc, enc_contexts, dec_contexts>>
  BY DEF NextSymbol, streamVars, sliceVars
<1>2. /\ Len(script) \in Nat /\ HeaderLength \in Nat /\ HeaderLength <= Len(script)
      /\ next \in Nat \ {0}
  BY <1>1, ScriptHolds DEF CoderInv, ScriptInv
<1>3. ToRead = IF pc = "probe" THEN HeaderLength ELSE Len(script)
  BY DEF ToRead
<1>4. next + 1 \in 1..Len(script) /\ next' <= ToRead
  BY <1>1, <1>2, <1>3
<1>5. parse' \in Parses
  BY <1>1, <1>4, ScriptHolds, StartParses DEF CoderInv
<1>6. HeaderLength' = HeaderLength
  BY <1>1 DEF HeaderLength, HeaderValues, First
<1>7. ScriptInv'
  BY <1>1, <1>2, <1>3, <1>4, <1>6 DEF CoderInv, ScriptInv
<1>8. TypeOK' /\ ReaderInv' /\ ContextsInv' /\ CarryInv'
  BY <1>1, <1>5 DEF CoderInv, TypeOK, ReaderInv, ContextsInv, CarryInv, Parses
<1>9. QED
  BY <1>7, <1>8 DEF CoderInv

LEMMA HeaderReadKeeps ==
  ASSUME CoderInv, HeaderRead
  PROVE  CoderInv'
<1>1. /\ pc = "probe"
      /\ UNCHANGED <<cell, script, coded, slice, enc, enc_contexts, dec_contexts>>
  BY DEF HeaderRead, streamVars, sliceVars
<1>2. HeaderLength' = HeaderLength
  BY <1>1 DEF HeaderLength, HeaderValues, First
<1>3. CASE pc' \in {"refused", "body"} /\ UNCHANGED <<payload, dec, parse, next>>
  BY <1>1, <1>2, <1>3 DEF CoderInv, TypeOK, ScriptInv, ReaderInv, ContextsInv, CarryInv
<1>4. CASE /\ pc' = "decode" /\ payload' = slice
           /\ dec' = DecoderReset(slice, StatesFrom(References))
           /\ parse' = StartOfSymbol(script[1].kind) /\ next' = 1
  <2>1. References \in ReferenceType
    BY NoReference DEF References, CoderInv, ContextsInv, ReferenceType
  <2>2. slice \in Seq(Byte) /\ Len(slice) >= 2
    BY <1>1 DEF CoderInv, ReaderInv
  <2>3. DecoderInv(dec', slice) /\ parse' \in Parses
    BY <1>1, <1>4, <2>1, <2>2, StartReads DEF CoderInv
  <2>4. TypeOK' /\ ReaderInv'
    BY <1>1, <1>4, <2>2, <2>3 DEF CoderInv, TypeOK, ReaderInv, DecoderInv, Parses
  <2>5. HeaderLength \in Nat /\ HeaderLength >= 1 /\ Len(script) >= HeaderLength /\ Len(script) \in Nat
    BY <1>1, ScriptHolds DEF CoderInv
  <2>6. ScriptInv'
    BY <1>1, <1>2, <1>4, <2>5 DEF CoderInv, ScriptInv
  <2>7. ContextsInv' /\ CarryInv'
    BY <1>1 DEF CoderInv, ContextsInv, CarryInv
  <2>8. QED
    BY <2>4, <2>6, <2>7 DEF CoderInv
<1>5. QED
  BY <1>3, <1>4 DEF HeaderRead

LEMMA SliceReadKeeps ==
  ASSUME CoderInv, SliceRead
  PROVE  CoderInv'
<1>1. /\ pc' = "idle"
      /\ dec_contexts' \in {dec.states["content"], dec_contexts}
      /\ UNCHANGED <<cell, script, next, coded, slice, enc_contexts, enc, payload, dec, parse>>
  BY DEF SliceRead, streamVars, sliceVars
<1>2. dec.states["content"] \in [Slots -> Live]
  BY SliceAssumption DEF CoderInv, TypeOK, DecoderStates
<1>3. ScriptInv'
  BY <1>1 DEF CoderInv, ScriptInv
<1>4. TypeOK' /\ ReaderInv' /\ ContextsInv' /\ CarryInv'
  BY <1>1, <1>2 DEF CoderInv, TypeOK, ReaderInv, ContextsInv, CarryInv
<1>5. QED
  BY <1>3, <1>4 DEF CoderInv

\* Every step keeps the invariant.
LEMMA Invariance == CoderInv /\ [Next]_vars => CoderInv'
<1> SUFFICES ASSUME CoderInv, [Next]_vars
             PROVE  CoderInv'
  OBVIOUS
<1>1. CASE \E keyframe \in BOOLEAN, samples \in SampleSeqs : EncodeSlice(keyframe, samples)
  BY <1>1, EncodeSliceKeeps
<1>2. CASE WriteDecision
  BY <1>2, WriteDecisionKeeps
<1>3. CASE \E body \in Bodies, check \in Checks : FinishSlice(body, check)
  BY <1>3, FinishSliceKeeps
<1>4. CASE ReadDecision
  BY <1>4, ReadDecisionKeeps
<1>5. CASE NextSymbol
  BY <1>5, NextSymbolKeeps
<1>6. CASE HeaderRead
  BY <1>6, HeaderReadKeeps
<1>7. CASE SliceRead
  BY <1>7, SliceReadKeeps
<1>8. CASE UNCHANGED vars
  <2>1. UNCHANGED <<pc, cell, script, next, coded, slice, payload, enc, dec, parse,
                    enc_contexts, dec_contexts>>
    BY <1>8 DEF vars, streamVars, sliceVars
  <2>2. HeaderLength' = HeaderLength
    BY <2>1 DEF HeaderLength, HeaderValues, First
  <2>3. QED
    BY <2>1, <2>2 DEF CoderInv, TypeOK, ScriptInv, ReaderInv, ContextsInv, CarryInv
<1>9. QED
  BY <1>1, <1>2, <1>3, <1>4, <1>5, <1>6, <1>7, <1>8 DEF Next

(***************************************************************************)
(* Both coders keep their types: ranges of 8 to 16 bits, live adaptive     *)
(* states, and low never beyond the range (write_rac, read_rac, refill).   *)
(***************************************************************************)
THEOREM TypeCorrect == Spec => []TypeOK
<1>1. CoderInv => TypeOK
  BY DEF CoderInv
<1>2. QED
  BY <1>1, Initial, Invariance, PTL DEF Spec

(***************************************************************************)
(* add_to_low never meets its internal error, however long the slice and   *)
(* whatever it codes: the interval above the lower bound never reaches     *)
(* past the bytes written, and finalize_closed picks a value inside it.    *)
(***************************************************************************)
THEOREM EncoderPrecision == Spec => []WithinPrecision
<1>1. CoderInv => WithinPrecision
  BY ClosingDeltaType DEF CoderInv, TypeOK, CarryInv, WithinPrecision
<1>2. QED
  BY <1>1, Initial, Invariance, PTL DEF Spec

(***************************************************************************)
(* The bytes of a slice lie in the last interval of the encoder.           *)
(***************************************************************************)
LEMMA ClosedContains ==
  ASSUME enc \in EncoderStates, Len(enc.low_bytes) >= 2, ~Overflows(enc.low_bytes, enc.range)
  PROVE  /\ Contains(enc, ClosedBytes)
         /\ Len(enc.low_bytes) <= Len(ClosedBytes) + 1
<1> DEFINE low == enc.low_bytes
           delta == ClosingDelta
           bytes == AddToLow(low, delta)
           n == Len(low)
           closed == ClosedBytes
<1>1. low \in Seq(Byte) /\ n \in Nat /\ n >= 2 /\ enc.range \in 256..MaxRange
  BY DEF EncoderStates
<1>2. enc.range \in Nat /\ enc.range <= 65280
  <2>1. enc.range \in Int /\ 256 <= enc.range /\ enc.range <= MaxRange
    BY <1>1, RangeType
  <2>2. QED
    BY <2>1, MaxRangeValue
<1>3. delta \in Nat /\ delta < enc.range
  BY ClosingDeltaType
<1>4. closed = IF Len(bytes) > 2 /\ bytes[Len(bytes)] = 0
               THEN SubSeq(bytes, 1, Len(bytes) - 1) ELSE bytes
  BY DEF ClosedBytes
<1>5. closed \in Seq(Byte)
  BY ClosedBytesType
<1> HIDE DEF delta, closed
<1>6. delta <= 65536 /\ delta <= enc.range
  BY <1>2, <1>3
<1>7. bytes \in Seq(Byte) /\ Len(bytes) = n
  BY <1>1, <1>3, <1>6, AddToLowType
<1>8. ~Overflows(low, delta)
  BY <1>1, <1>2, <1>3, <1>6, LowerPartFits
<1>9. Gap(closed, AddToLow(low, delta)) = Gap(closed, low) - delta
  BY <1>1, <1>3, <1>5, <1>6, <1>8, GapAdd
<1> HIDE DEF bytes, n, low
<1>10. /\ \A i \in 1..n : Digit(closed, i) = bytes[i]
       /\ n <= Len(closed) + 1
  <2>1. CASE n > 2 /\ bytes[n] = 0
    <3>1. closed = SubSeq(bytes, 1, n - 1)
      BY <1>4, <1>7, <2>1
    <3>2. Len(closed) = n - 1 /\ \A i \in 1..(n - 1) : closed[i] = bytes[i]
      BY <1>1, <1>7, <3>1
    <3>3. ASSUME NEW i \in 1..n
          PROVE  Digit(closed, i) = bytes[i]
      <4>1. CASE i = n
        <5>1. ~(i <= n - 1)
          BY <1>1, <4>1
        <5>2. QED
          BY <2>1, <3>2, <4>1, <5>1 DEF Digit
      <4>2. CASE i # n
        <5>1. i \in 1..(n - 1) /\ i <= n - 1
          BY <1>1, <4>2
        <5>2. QED
          BY <3>2, <5>1 DEF Digit
      <4>3. QED
        BY <4>1, <4>2
    <3>4. QED
      BY <1>1, <3>2, <3>3
  <2>2. CASE ~(n > 2 /\ bytes[n] = 0)
    <3>1. closed = bytes
      BY <1>4, <1>7, <2>2
    <3>2. QED
      BY <1>1, <1>7, <3>1 DEF Digit
  <2>3. QED
    BY <2>1, <2>2
<1>11. Gap(closed, bytes) = 0
  BY <1>5, <1>7, <1>10, GapOfPrefix
<1>12. Gap(closed, low) \in Int
  BY <1>1, <1>5, GapAppend DEF low
<1>13. Gap(closed, low) = delta
  BY <1>3, <1>9, <1>11, <1>12 DEF bytes
<1>14. QED
  BY <1>3, <1>10, <1>13 DEF Contains, low, n, closed

\* finalize: the lower bound itself, with a body behind it.
LEMMA ExactGap ==
  ASSUME enc \in EncoderStates, NEW more \in Seq(Byte)
  PROVE  /\ Gap(ExactBytes \o more, enc.low_bytes) = 0
         /\ Len(enc.low_bytes) <= Len(ExactBytes \o more)
<1> DEFINE low == enc.low_bytes
           all == low \o more
<1>1. low \in Seq(Byte) /\ Len(low) \in Nat /\ Len(more) \in Nat
  BY DEF EncoderStates
<1>2. all \in Seq(Byte) /\ Len(all) = Len(low) + Len(more)
  BY <1>1, Concatenation
<1>3. ASSUME NEW i \in 1..Len(low)
      PROVE  Digit(all, i) = low[i]
  <2>1. i \in Nat /\ i >= 1 /\ i <= Len(low) /\ i <= Len(low) + Len(more)
    BY <1>1
  <2>2. all[i] = low[i]
    BY <1>1, <2>1, ConcatenationAt
  <2>3. QED
    BY <1>2, <2>1, <2>2 DEF Digit
<1> HIDE DEF low, all
<1>4. Gap(all, low) = 0
  BY <1>1, <1>2, <1>3, GapOfPrefix
<1>5. Len(low) <= Len(all)
  BY <1>1, <1>2
<1>6. QED
  BY <1>4, <1>5 DEF low, all, ExactBytes

LEMMA ExactContains ==
  ASSUME enc \in EncoderStates, NEW more \in Seq(Byte)
  PROVE  Contains(enc, ExactBytes \o more)
<1>1. enc.range \in 256..MaxRange
  BY DEF EncoderStates
<1>2. enc.range \in Nat /\ 256 <= enc.range
  BY <1>1, RangeType
<1>3. QED
  BY <1>2, ExactGap DEF Contains

\* Behind a payload without the last zero there is the high byte of its size, which is
\* zero where a header can get.
LEMMA FooterGap ==
  ASSUME NEW bytes \in Seq(Byte), NEW tail \in Seq(Byte), NEW low \in Seq(Byte),
         Len(tail) >= 1, tail[1] = Len(bytes) \div 65536,
         Len(low) <= Len(bytes) + 1, Len(low) <= 65536
  PROVE  Gap(bytes \o tail, low) = Gap(bytes, low)
<1> DEFINE size == Len(bytes)
           all == bytes \o tail
<1>1. size \in Nat /\ Len(low) \in Nat /\ Len(tail) \in Nat
  OBVIOUS
<1>2. all \in Seq(Byte) /\ Len(all) = size + Len(tail)
  BY Concatenation
<1>3. ASSUME NEW i \in 1..Len(low)
      PROVE  Digit(all, i) = Digit(bytes, i)
  <2>1. i \in Nat /\ i >= 1 /\ i <= Len(low) /\ i <= size + 1
    BY <1>1
  <2>2. CASE i <= size
    <3>1. all[i] = bytes[i]
      BY <2>1, <2>2, ConcatenationAt
    <3>2. i <= Len(all)
      BY <1>1, <1>2, <2>2
    <3>3. QED
      BY <2>2, <3>1, <3>2 DEF Digit
  <2>3. CASE ~(i <= size)
    <3>1. i = size + 1 /\ i > size /\ i <= size + Len(tail) /\ i - size = 1 /\ size < 65536
      BY <1>1, <2>1, <2>3
    <3>2. all[i] = tail[i - size]
      BY <2>1, <3>1, ConcatenationAt
    <3>3. size \div 65536 = 0
      BY <1>1, <3>1
    <3>4. all[i] = 0
      BY <3>1, <3>2, <3>3
    <3>5. QED
      BY <2>3, <3>4 DEF Digit
  <2>4. QED
    BY <2>2, <2>3
<1> HIDE DEF all
<1>4. Gap(all, low) = Gap(bytes, low)
  BY <1>3, GapSame
<1>5. QED
  BY <1>4 DEF all

(***************************************************************************)
(* The coders of a slice, decision by decision.                            *)
(***************************************************************************)
Fits(coder) ==
  /\ coder \in EncoderStates /\ Len(coder.low_bytes) >= 2
  /\ ~Overflows(coder.low_bytes, coder.range)

StepSymbol(n) == script[trace[n].symbol]
StepDecision(n) == Decisions(StepSymbol(n))[trace[n].decision]

LEMMA StartCoder ==
  ASSUME CoderInv
  PROVE  /\ References \in ReferenceType
         /\ Coder(0) = EncoderReset(StatesFrom(References))
         /\ Fits(Coder(0)) /\ Len(Coder(0).low_bytes) = 2
<1>1. References \in ReferenceType
  BY NoReference DEF References, CoderInv, ContextsInv, ReferenceType
<1>2. Coder(0) = EncoderReset(StatesFrom(References))
  BY DEF Coder
<1>3. StatesFrom(References) \in [Contexts -> [Slots -> Live]]
  BY <1>1, StatesFromType
<1> DEFINE states == StatesFrom(References)
<1>4. Fits(EncoderReset(states)) /\ Len(EncoderReset(states).low_bytes) = 2
  <2>1. states \in [Contexts -> [Slots -> Live]]
    BY <1>3
  <2> HIDE DEF states
  <2> DEFINE coder == EncoderReset(states)
  <2>2. /\ coder \in EncoderStates /\ Len(coder.low_bytes) = 2
        /\ ~Overflows(coder.low_bytes, coder.range)
    BY <2>1, EncoderResetType
  <2> HIDE DEF coder
  <2>3. Fits(coder)
    BY <2>2 DEF Fits
  <2>4. QED
    BY <2>2, <2>3 DEF coder
<1>5. QED
  BY <1>1, <1>2, <1>4 DEF states

LEMMA TraceType ==
  ASSUME TraceInv, pc # "idle"
  PROVE  /\ Len(trace) \in Nat
         /\ \A n \in 1..Len(trace) :
              /\ trace[n].symbol \in Nat /\ trace[n].decision \in Nat
              /\ trace[n].enc \in EncoderStates
              /\ Coder(n) = trace[n].enc
<1> DEFINE Steps == [symbol : Nat, decision : Nat, enc : EncoderStates]
<1>1. trace \in Seq(Steps)
  BY DEF TraceInv
<1>2. ASSUME NEW n \in 1..Len(trace)
      PROVE  /\ trace[n].symbol \in Nat /\ trace[n].decision \in Nat
             /\ trace[n].enc \in EncoderStates
  <2>1. trace[n] \in Steps
    <3> HIDE DEF Steps
    <3>1. QED
      BY <1>1
  <2>2. QED
    BY <2>1
<1>3. ASSUME NEW n \in 1..Len(trace)
      PROVE  Coder(n) = trace[n].enc
  <2>1. n # 0
    OBVIOUS
  <2>2. QED
    BY <2>1 DEF Coder
<1>4. Len(trace) \in Nat
  BY <1>1
<1>5. QED
  BY <1>2, <1>3, <1>4

\* A step of the trace, and the coders on both sides of it.
LEMMA StepType ==
  ASSUME CoderInv, TraceInv, pc # "idle", NEW n \in 1..Len(trace)
  PROVE  /\ trace[n].symbol \in 1..Len(script)
         /\ trace[n].decision \in 1..Len(Decisions(StepSymbol(n)))
         /\ Len(Decisions(StepSymbol(n))) \in Nat /\ Len(Decisions(StepSymbol(n))) <= 127
         /\ StepSymbol(n).context \in Contexts
         /\ StepDecision(n) \in [slot : Slots, bit : BOOLEAN]
         /\ Coder(n) = Narrowed(Coder(n - 1), StepSymbol(n).context, StepDecision(n))
         /\ Fits(Coder(n)) /\ Len(Coder(n).low_bytes) <= n + 2
         /\ Place(trace[n].symbol, trace[n].decision) = Following(n - 1)
         /\ n <= 127 * (trace[n].symbol - 1) + trace[n].decision
<1> DEFINE s == trace[n].symbol
           d == trace[n].decision
           symbol == StepSymbol(n)
<1>1. StepInv(n)
  BY DEF TraceInv
<1>2. /\ s \in DOMAIN script /\ d \in DOMAIN Decisions(symbol)
      /\ Place(s, d) = Following(n - 1)
      /\ n <= 127 * (s - 1) + d
      /\ trace[n].enc = Narrowed(Coder(n - 1), symbol.context, Decisions(symbol)[d])
      /\ Len(trace[n].enc.low_bytes) \in 2..(n + 2)
      /\ ~Overflows(trace[n].enc.low_bytes, trace[n].enc.range)
  BY <1>1 DEF StepInv, StepSymbol
<1>3. script \in Seq(Symbols)
  BY DEF CoderInv, ScriptInv
<1>4. s \in 1..Len(script)
  BY <1>2, <1>3
<1>5. /\ symbol.context \in Contexts /\ symbol \in Symbols /\ Writable(symbol)
      /\ Decisions(symbol) \in Seq(DecisionType)
  BY <1>4, ScriptHolds DEF CoderInv, StepSymbol
<1>6. Len(Decisions(symbol)) \in Nat /\ Len(Decisions(symbol)) <= 127
  BY <1>5, SymbolReadBack DEF ReadsBack
<1>7. trace[n].enc \in EncoderStates /\ Coder(n) = trace[n].enc
  BY TraceType
<1> HIDE DEF s, d, symbol
<1>8. d \in 1..Len(Decisions(symbol)) /\ Decisions(symbol)[d] \in DecisionType
  BY <1>2, <1>5
<1>9. StepDecision(n) = Decisions(symbol)[d]
  BY DEF StepDecision, symbol, d
<1>10. StepDecision(n) \in [slot : Slots, bit : BOOLEAN]
  BY <1>8, <1>9 DEF DecisionType
<1>11. Len(trace[n].enc.low_bytes) >= 2 /\ Len(trace[n].enc.low_bytes) <= n + 2
  BY <1>2
<1>12. Fits(Coder(n)) /\ Len(Coder(n).low_bytes) <= n + 2
  BY <1>2, <1>7, <1>11 DEF Fits
<1>13. QED
  BY <1>2, <1>4, <1>5, <1>6, <1>7, <1>8, <1>9, <1>10, <1>12 DEF s, d, symbol

LEMMA CoderFits ==
  ASSUME CoderInv, TraceInv, pc # "idle", NEW n \in 0..Len(trace)
  PROVE  Fits(Coder(n)) /\ Len(Coder(n).low_bytes) <= n + 2
<1>1. Len(trace) \in Nat
  BY TraceType
<1>2. CASE n = 0
  <2>1. Fits(Coder(0)) /\ Len(Coder(0).low_bytes) = 2
    BY StartCoder
  <2>2. n + 2 = 2 /\ Coder(n) = Coder(0)
    BY <1>2
  <2> DEFINE coder == Coder(0)
             size == Len(coder.low_bytes)
  <2>3. Fits(coder) /\ size = 2 /\ Coder(n) = coder
    BY <2>1, <2>2
  <2> HIDE DEF coder
  <2>4. Len(Coder(n).low_bytes) = size
    BY <2>3
  <2> HIDE DEF size
  <2>7. size <= n + 2
    BY <2>2, <2>3
  <2>5. Len(Coder(n).low_bytes) <= n + 2
    BY <2>4, <2>7
  <2>6. QED
    BY <2>3, <2>5
<1>3. CASE n # 0
  BY <1>1, <1>3, StepType
<1>4. QED
  BY <1>2, <1>3

\* A payload in the last interval of a slice lies in every one before it.
LEMMA ContainsBack ==
  ASSUME CoderInv, TraceInv, pc # "idle", NEW bytes \in Seq(Byte), Contains(enc, bytes)
  PROVE  \A n \in 0..Len(trace) :
           Contains(Coder(n), bytes) /\ Len(Coder(n).low_bytes) <= Len(enc.low_bytes)
<1> DEFINE total == Len(trace)
           size == Len(enc.low_bytes)
           S == {k \in Nat : k <= total =>
                   Contains(Coder(total - k), bytes) /\ Len(Coder(total - k).low_bytes) <= size}
<1>1. total \in Nat
  BY TraceType
<1>2. enc = Coder(total)
  BY DEF TraceInv
<1>3. size \in Nat
  BY DEF CoderInv, TypeOK, EncoderStates
<1>4. 0 \in S
  <2>1. total - 0 = total
    BY <1>1
  <2>2. QED
    BY <1>2, <1>3, <2>1
<1>5. ASSUME NEW k \in Nat, k \in S
      PROVE  k + 1 \in S
  <2> SUFFICES ASSUME k + 1 <= total
               PROVE  /\ Contains(Coder(total - (k + 1)), bytes)
                      /\ Len(Coder(total - (k + 1)).low_bytes) <= size
    OBVIOUS
  <2> DEFINE n == total - k
  <2>1. n \in 1..total /\ total - (k + 1) = n - 1 /\ n - 1 \in 0..total /\ k <= total
    BY <1>1
  <2>2. Contains(Coder(n), bytes) /\ Len(Coder(n).low_bytes) <= size
    BY <1>5, <2>1
  <2> HIDE DEF n, S, size
  <2> DEFINE old == Coder(n - 1)
             context == StepSymbol(n).context
             decision == StepDecision(n)
  <2>3. Fits(old)
    BY <2>1, CoderFits
  <2>4. /\ context \in Contexts /\ decision \in [slot : Slots, bit : BOOLEAN]
        /\ Coder(n) = Narrowed(old, context, decision)
    BY <2>1, StepType
  <2> HIDE DEF old, context, decision
  <2>5. Contains(old, bytes)
    BY <2>2, <2>3, <2>4, NarrowedContains DEF Fits
  <2>6. Len(Coder(n).low_bytes) \in {Len(old.low_bytes), Len(old.low_bytes) + 1}
    <3>1. /\ ~TooSmall(Part(old, context, decision)) => Len(Coder(n).low_bytes) = Len(old.low_bytes)
          /\ TooSmall(Part(old, context, decision)) => Len(Coder(n).low_bytes) = Len(old.low_bytes) + 1
      BY <2>3, <2>4, NarrowedGap DEF Fits
    <3>2. QED
      BY <3>1
  <2>7. Len(old.low_bytes) \in Nat
    BY <2>3 DEF Fits, EncoderStates
  <2>8. Len(old.low_bytes) <= size
    BY <1>3, <2>2, <2>6, <2>7
  <2>9. QED
    BY <2>1, <2>5, <2>8 DEF old
<1>6. Nat \subseteq S
  <2> HIDE DEF S
  <2>1. QED
    BY <1>4, <1>5, SetInduction
<1>7. ASSUME NEW n \in 0..total
      PROVE  Contains(Coder(n), bytes) /\ Len(Coder(n).low_bytes) <= size
  <2>1. total - n \in Nat /\ total - n <= total /\ total - (total - n) = n
    BY <1>1
  <2>2. total - n \in S
    BY <1>6, <2>1
  <2>3. QED
    BY <2>1, <2>2
<1>8. QED
  BY <1>7

\* The coders of a slice stay what they are once it is coded.
LEMMA TraceKept ==
  ASSUME UNCHANGED <<cell, frames, script, trace, dec_contexts>>
  PROVE  /\ HeaderLength' = HeaderLength
         /\ References' = References
         /\ \A n : Coder(n)' = Coder(n)
         /\ \A n : Following(n)' = Following(n)
         /\ \A s, n : PlaceAfter(s, n)' = PlaceAfter(s, n)
         /\ \A n : IsHeader(n)' = IsHeader(n)
         /\ \A n : StepInv(n)' = StepInv(n)
<1>1. HeaderLength' = HeaderLength
  BY DEF HeaderLength, HeaderValues, First
<1>2. References' = References
  BY DEF References
<1>3. \A n : Coder(n)' = Coder(n)
  BY <1>2 DEF Coder, StatesFrom
<1>4. \A s, n : PlaceAfter(s, n)' = PlaceAfter(s, n)
  BY DEF PlaceAfter
<1>5. \A n : Following(n)' = Following(n)
  BY <1>4 DEF Following
<1>6. \A n : IsHeader(n)' = IsHeader(n)
  BY <1>1 DEF IsHeader
<1>7. \A n : StepInv(n)' = StepInv(n)
  BY <1>3, <1>5 DEF StepInv
<1>8. QED
  BY <1>1, <1>2, <1>3, <1>4, <1>5, <1>6, <1>7

LEMMA InitialTrace ==
  ASSUME Init
  PROVE  IInv
<1>1. CoderInv
  BY Initial
<1>2. HeaderInv /\ SyncInv
  BY DEF Init, HeaderInv, SyncInv
<1>3. TraceInv /\ ContainedInv /\ DecodeInv
  BY DEF Init, TraceInv, ContainedInv, DecodeInv
<1>4. SliceInv
  BY DEF Init, SliceInv
<1>5. QED
  BY <1>1, <1>2, <1>3, <1>4 DEF IInv

(***************************************************************************)
(* encode_slice.                                                           *)
(***************************************************************************)
LEMMA HeaderContexts ==
  ASSUME NEW keyframe \in BOOLEAN, cell \in Cells
  PROVE  \A i \in 1..HeaderLength : Header(keyframe)[i].context # "content"
<1> DEFINE flag == Flag(keyframe)
           rest == [i \in DOMAIN HeaderValues |-> Symbol("header", "unsigned", HeaderValues[i])]
           k == IF First THEN 1 ELSE 0
<1>1. DOMAIN HeaderValues = 1..9 /\ Len(HeaderValues) = 9
  BY DEF HeaderValues
<1>2. \A i \in 1..9 : rest[i].context = "header"
  BY <1>1 DEF Symbol
<1>3. \A i \in 1..k : flag[i].context = "keyframe"
  BY DEF Flag, Symbol
<1>4. HeaderLength = 9 + k /\ k \in Nat
  BY <1>1 DEF HeaderLength
<1>5. Header(keyframe) = flag \o rest
  BY DEF Header
<1>6. Len(flag) = k /\ Len(rest) = 9
  BY <1>1 DEF Flag
<1> DEFINE S == {Symbol("keyframe", "bool", IF keyframe THEN 1 ELSE 0)}
                  \cup {Symbol("header", "unsigned", HeaderValues[i]) : i \in 1..9}
<1>10. flag \in Seq(S) /\ rest \in Seq(S)
  <2>1. rest \in Seq(S)
    BY <1>1
  <2>2. flag \in Seq(S)
    <3> DEFINE s == Symbol("keyframe", "bool", IF keyframe THEN 1 ELSE 0)
    <3>1. s \in S
      OBVIOUS
    <3>2. flag = IF First THEN <<s>> ELSE <<>>
      BY DEF Flag
    <3> HIDE DEF s, S, flag
    <3>3. QED
      BY <3>1, <3>2
  <2>3. QED
    BY <2>1, <2>2
<1>7. ASSUME NEW i \in 1..HeaderLength
      PROVE  (flag \o rest)[i] = IF i <= k THEN flag[i] ELSE rest[i - k]
  <2> HIDE DEF k, flag, rest, S
  <2>1. i \in Nat /\ i >= 1 /\ i <= Len(flag) + Len(rest)
    BY <1>4, <1>6
  <2>2. CASE i <= k
    BY <1>6, <1>10, <2>1, <2>2, ConcatenationAt
  <2>3. CASE ~(i <= k)
    <3>1. i > Len(flag)
      BY <1>4, <1>6, <2>1, <2>3
    <3>2. (flag \o rest)[i] = rest[i - Len(flag)]
      BY <1>10, <2>1, <3>1, ConcatenationAt
    <3>3. QED
      BY <1>6, <2>3, <3>2
  <2>4. QED
    BY <2>2, <2>3
<1> HIDE DEF flag, rest, k
<1>8. ASSUME NEW i \in 1..HeaderLength
      PROVE  Header(keyframe)[i].context # "content"
  <2>1. CASE i <= k
    <3>1. i \in 1..k
      BY <1>4, <2>1
    <3>2. QED
      BY <1>3, <1>5, <1>7, <2>1, <3>1
  <2>2. CASE ~(i <= k)
    <3>1. i - k \in 1..9
      BY <1>4, <2>2
    <3>2. QED
      BY <1>2, <1>5, <1>7, <2>2, <3>1
  <2>3. QED
    BY <2>1, <2>2
<1>9. QED
  BY <1>8

LEMMA EncodeSliceTrace ==
  ASSUME IInv, CoderInv', NEW keyframe \in BOOLEAN, NEW samples \in SampleSeqs,
         EncodeSlice(keyframe, samples)
  PROVE  IInv'
<1> DEFINE content == IF golomb THEN <<>> ELSE Content(samples)
           header == Header(keyframe)
           references == IF keyframe THEN None ELSE enc_contexts
<1>1. /\ pc = "idle" /\ pc' = "encode" /\ next' = 1 /\ coded' = 0 /\ trace' = <<>>
      /\ script' = header \o content
      /\ enc' = EncoderReset(StatesFrom(references))
      /\ UNCHANGED <<golomb, cell, footer, dec_contexts, enc_contexts>>
  BY DEF EncodeSlice, streamVars
<1>2. frames' \in Nat /\ (frames' = 1 <=> keyframe)
  <2>1. frames \in Nat
    BY DEF IInv, HeaderInv
  <2>2. CASE keyframe
    BY <2>2 DEF EncodeSlice
  <2>3. CASE ~keyframe
    <3>1. frames \in 1..(MaxFrames - 1) /\ frames' = frames + 1
      BY <2>3 DEF EncodeSlice
    <3>2. QED
      BY <2>1, <2>3, <3>1, SliceAssumption
  <2>4. QED
    BY <2>2, <2>3
<1>3. cell \in Cells
  BY DEF IInv, CoderInv, ScriptInv
<1>4. HeaderLength' = HeaderLength
  BY <1>1 DEF HeaderLength, HeaderValues, First
<1>5. /\ header \in Seq(WritableSymbols) /\ Len(header) = HeaderLength
      /\ \A i \in 1..HeaderLength : header[i].context # "content"
      /\ HeaderLength \in Nat
  BY <1>3, HeaderType, HeaderContexts
<1>6. /\ content \in Seq(WritableSymbols)
      /\ \A i \in 1..Len(content) : content[i].context = "content"
      /\ golomb => Len(content) = 0
  <2>1. CASE golomb
    BY <2>1
  <2>2. CASE ~golomb
    <3>1. content \in Seq(WritableSymbols) /\ content = Content(samples)
      BY <2>2, ContentType
    <3>2. DOMAIN content = DOMAIN samples /\ DOMAIN content = 1..Len(content)
      BY <3>1 DEF Content
    <3>3. \A i \in DOMAIN samples : content[i].context = "content"
      BY <3>1 DEF Content, Symbol
    <3>4. QED
      BY <2>2, <3>1, <3>2, <3>3
  <2>3. QED
    BY <2>1, <2>2
<1> HIDE DEF header, content
<1>7. HeaderInv'
  <2>1. /\ header \o content \in Seq(WritableSymbols)
        /\ Len(header \o content) = Len(header) + Len(content)
    BY <1>5, <1>6, Concatenation
  <2> DEFINE all == header \o content
  <2>2. ASSUME NEW i \in 1..Len(all)
        PROVE  (all[i].context = "content") = (i > HeaderLength)
    <3>0. Len(header) \in Nat /\ Len(content) \in Nat
      BY <1>5, <1>6
    <3>1. i \in Nat /\ i >= 1 /\ i <= Len(header) + Len(content)
      BY <2>1, <3>0
    <3>2. CASE i <= HeaderLength
      <4>1. all[i] = header[i]
        BY <1>5, <1>6, <3>1, <3>2, ConcatenationAt
      <4>2. i \in 1..HeaderLength
        BY <1>5, <3>1, <3>2
      <4>3. all[i].context # "content"
        BY <1>5, <4>1, <4>2
      <4>4. ~(i > HeaderLength)
        BY <1>5, <3>2
      <4>5. QED
        BY <4>3, <4>4
    <3>3. CASE i > HeaderLength
      <4>1. all[i] = content[i - Len(header)]
        BY <1>5, <1>6, <3>1, <3>3, ConcatenationAt
      <4>2. i - Len(header) \in 1..Len(content)
        BY <1>5, <3>0, <3>1, <3>3
      <4>3. all[i].context = "content"
        BY <1>6, <4>1, <4>2
      <4>4. QED
        BY <3>3, <4>3
    <3>4. QED
      BY <1>5, <3>1, <3>2, <3>3
  <2> HIDE DEF all
  <2>3. script' = all /\ DOMAIN all = 1..Len(all)
    BY <1>1, <2>1 DEF all
  <2>4. golomb => Len(all) = HeaderLength
    BY <1>5, <1>6, <2>1 DEF all
  <2>5. golomb \in BOOLEAN
    BY DEF IInv, HeaderInv
  <2>6. QED
    BY <1>1, <1>2, <1>4, <2>2, <2>3, <2>4, <2>5 DEF HeaderInv
<1>8. SyncInv'
  BY <1>1 DEF IInv, SyncInv
<1>9. TraceInv'
  <2>1. Len(trace') = 0 /\ trace' \in Seq([symbol : Nat, decision : Nat, enc : EncoderStates])
    BY <1>1
  <2>2. References' = references
    <3>1. dec_contexts = enc_contexts
      BY <1>1 DEF IInv, SyncInv
    <3>2. References' = IF frames' = 1 THEN None ELSE dec_contexts'
      BY DEF References
    <3>3. QED
      BY <1>1, <1>2, <3>1, <3>2
  <2>3. enc' = Coder(0)'
    <3>1. Coder(0)' = EncoderReset(StatesFrom(References'))
      BY DEF Coder, StatesFrom
    <3>2. QED
      BY <1>1, <2>2, <3>1
  <2>4. Following(0)' = Place(1, 1)
    BY DEF Following
  <2>5. Place(next', coded' + 1) = Place(1, 1)
    BY <1>1
  <2>6. Coder(Len(trace))' = Coder(0)' /\ Following(Len(trace))' = Following(0)'
    BY <2>1 DEF Coder, Following, StatesFrom
  <2>7. \A n \in 1..Len(trace') : StepInv(n)'
    BY <2>1
  <2>8. QED
    BY <1>1, <2>1, <2>3, <2>4, <2>5, <2>6, <2>7 DEF TraceInv
<1>10. ContainedInv' /\ DecodeInv'
  BY <1>1 DEF ContainedInv, DecodeInv
<1>11. SliceInv'
  BY <1>1 DEF IInv, SliceInv
<1>12. QED
  BY <1>7, <1>8, <1>9, <1>10, <1>11 DEF IInv

(***************************************************************************)
(* write_rac.                                                              *)
(***************************************************************************)
\* How many decisions come before a place.
LEMMA StepCount ==
  ASSUME CoderInv, TraceInv, pc # "idle",
         NEW symbol \in Nat, NEW decision \in Nat,
         Following(Len(trace)) = Place(symbol, decision)
  PROVE  Len(trace) + 1 <= 127 * (symbol - 1) + decision
<1> DEFINE n == Len(trace)
<1>1. n \in Nat
  BY TraceType
<1>2. \A s, t, d, c : Place(s, d) = Place(t, c) => s = t /\ d = c
  <2>1. \A s, d : Place(s, d).symbol = s /\ Place(s, d).decision = d
    BY DEF Place
  <2>2. QED
    BY <2>1
<1>3. CASE n = 0
  <2>1. Place(symbol, decision) = Place(1, 1)
    BY <1>3 DEF Following
  <2>2. symbol = 1 /\ decision = 1
    BY <1>2, <2>1
  <2> HIDE DEF n
  <2>3. n + 1 <= 127 * (symbol - 1) + decision
    BY <1>3, <2>2
  <2>4. QED
    BY <2>3 DEF n
<1>4. CASE n # 0
  <2> DEFINE s == trace[n].symbol
             d == trace[n].decision
             size == Len(Decisions(StepSymbol(n)))
  <2>1. n \in 1..Len(trace)
    BY <1>1, <1>4
  <2>2. /\ s \in 1..Len(script) /\ d \in 1..size /\ size \in Nat /\ size <= 127
        /\ n <= 127 * (s - 1) + d
    BY <2>1, StepType
  <2>3. Following(n) = IF d < size THEN Place(s, d + 1) ELSE Place(s + 1, 1)
    BY <1>4 DEF Following, PlaceAfter, StepSymbol
  <2>4. s \in Nat
    BY <2>1, TraceType
  <2>5. Following(n) = Place(symbol, decision)
    OBVIOUS
  <2> HIDE DEF n, s, d, size
  <2>6. CASE d < size
    <3>1. symbol = s /\ decision = d + 1
      BY <1>2, <2>3, <2>5, <2>6
    <3>2. QED
      BY <1>1, <2>2, <2>4, <3>1 DEF n
  <2>7. CASE ~(d < size)
    <3>1. symbol = s + 1 /\ decision = 1
      BY <1>2, <2>3, <2>5, <2>7
    <3>2. QED
      BY <1>1, <2>2, <2>4, <3>1 DEF n
  <2>8. QED
    BY <2>6, <2>7
<1>5. QED
  BY <1>3, <1>4

LEMMA WriteDecisionTrace ==
  ASSUME IInv, CoderInv', WriteDecision
  PROVE  IInv'
<1> DEFINE symbol == script[next]
           decisions == Decisions(script[next])
           place == coded + 1
           step == [symbol |-> next, decision |-> place, enc |-> enc']
<1>1. /\ pc = "encode" /\ pc' = "encode" /\ next <= Len(script)
      /\ enc' = Narrowed(enc, symbol.context, decisions[place])
      /\ trace' = Append(trace, step)
      /\ IF place < Len(decisions)
         THEN coded' = place /\ next' = next
         ELSE coded' = 0 /\ next' = next + 1
      /\ UNCHANGED <<golomb, cell, frames, script, footer, slice, content_offset,
                     enc_contexts, dec_contexts, payload, dec, parse>>
  BY DEF WriteDecision, WriteRac, streamVars, sliceVars
<1>2. CoderInv /\ HeaderInv /\ SyncInv /\ TraceInv /\ SliceInv
  BY DEF IInv
<1>23. PICK n \in Nat : n = Len(trace)
  BY <1>1, <1>2, TraceType
<1>3. /\ n = Len(trace) /\ trace \in Seq([symbol : Nat, decision : Nat, enc : EncoderStates])
      /\ enc = Coder(n) /\ Following(n) = Place(next, place)
      /\ \A i \in 1..n : StepInv(i)
  BY <1>1, <1>2, <1>23 DEF TraceInv
<1>4. /\ next \in 1..Len(script) /\ coded \in Nat /\ coded < Len(decisions) /\ next \in Nat
      /\ Len(script) \in Nat
  <2>1. next \in Nat \ {0} /\ coded \in Nat /\ coded < Len(decisions)
    BY <1>1, <1>2 DEF CoderInv, ScriptInv
  <2>2. Len(script) \in Nat
    BY <1>1, <1>2, ScriptHolds DEF CoderInv
  <2>3. QED
    BY <1>1, <2>1, <2>2
<1>5. /\ symbol \in Symbols /\ Writable(symbol) /\ symbol.context \in Contexts
      /\ decisions \in Seq(DecisionType)
  BY <1>1, <1>2, <1>4, ScriptHolds DEF CoderInv
<1>6. place \in Nat /\ place \in 1..Len(decisions) /\ Len(decisions) \in Nat
  BY <1>4, <1>5
<1>7. n + 1 <= 127 * (next - 1) + place
  BY <1>1, <1>2, <1>3, <1>4, <1>6, StepCount
<1>8. decisions[place] \in [slot : Slots, bit : BOOLEAN]
  <2>1. decisions[place] \in DecisionType
    <3> HIDE DEF decisions, place
    <3>1. QED
      BY <1>5, <1>6
  <2>2. QED
    BY <2>1 DEF DecisionType
<1>9. /\ enc' \in EncoderStates /\ ~Overflows(enc'.low_bytes, enc'.range)
      /\ Len(enc'.low_bytes) \in 2..(n + 1 + 2)
  <2>1. Fits(enc) /\ Len(enc.low_bytes) <= n + 2
    <3>1. n \in 0..Len(trace)
      BY <1>3
    <3>2. Fits(Coder(n)) /\ Len(Coder(n).low_bytes) <= n + 2
      BY <1>1, <1>2, <3>1, CoderFits
    <3>3. QED
      BY <1>3, <3>2
  <2> DEFINE new == Narrowed(enc, symbol.context, decisions[place])
  <2>2. /\ new \in EncoderStates /\ ~Overflows(new.low_bytes, new.range)
        /\ Len(new.low_bytes) >= 2 /\ Len(new.low_bytes) <= Len(enc.low_bytes) + 1
    <3> HIDE DEF symbol, decisions, place
    <3>1. QED
      BY <1>5, <1>8, <2>1, NarrowedType DEF Fits
  <2> HIDE DEF new
  <2>3. Len(enc.low_bytes) \in Nat /\ Len(new.low_bytes) \in Nat
    BY <2>1, <2>2 DEF Fits, EncoderStates
  <2>4. enc' = new
    BY <1>1 DEF new
  <2>5. Len(new.low_bytes) \in 2..(n + 1 + 2)
    BY <1>3, <2>1, <2>2, <2>3
  <2>6. QED
    BY <2>2, <2>4, <2>5
<1> DEFINE Steps == [symbol : Nat, decision : Nat, enc : EncoderStates]
<1>10. step \in Steps
  BY <1>4, <1>6, <1>9
<1>11. trace \in Seq(Steps)
  BY <1>3
<1>12. step.symbol = next /\ step.decision = place /\ step.enc = enc'
  OBVIOUS
<1> HIDE DEF Steps, step
<1>13. /\ trace' \in Seq(Steps) /\ Len(trace') = n + 1 /\ trace'[n + 1] = step
       /\ \A i \in 1..n : trace'[i] = trace[i]
  BY <1>1, <1>3, <1>10, <1>11
<1>14. ASSUME NEW i \in 0..n
       PROVE  Coder(i)' = Coder(i) /\ Following(i)' = Following(i)
  <2>1. UNCHANGED <<frames, script, dec_contexts>>
    BY <1>1
  <2>2. CASE i = 0
    BY <2>1, <2>2 DEF Coder, Following, StatesFrom, References
  <2>3. CASE i # 0
    <3>1. i \in 1..n
      BY <1>3, <2>3
    <3>2. trace'[i] = trace[i]
      BY <1>13, <3>1
    <3>3. QED
      BY <2>1, <2>3, <3>2 DEF Coder, Following, PlaceAfter
  <2>4. QED
    BY <2>2, <2>3
<1>15. ASSUME NEW i \in 1..n
       PROVE  StepInv(i)'
  <2>1. StepInv(i)
    BY <1>3
  <2>2. i - 1 \in 0..n /\ trace'[i] = trace[i] /\ script' = script
    BY <1>1, <1>3, <1>13
  <2>3. Coder(i - 1)' = Coder(i - 1) /\ Following(i - 1)' = Following(i - 1)
    BY <1>14, <2>2
  <2>4. QED
    BY <2>1, <2>2, <2>3 DEF StepInv
<1>16. Coder(n + 1)' = enc'
  <2>1. n + 1 # 0
    BY <1>3
  <2>2. QED
    BY <1>12, <1>13, <2>1 DEF Coder
<1>17. StepInv(n + 1)'
  <2> DEFINE k == n + 1
  <2>1. k - 1 = n /\ n \in 0..n
    BY <1>3
  <2>2. Coder(n)' = enc /\ Following(n)' = Place(next, place)
    BY <1>3, <1>14, <2>1
  <2>3. trace'[k].symbol = next /\ trace'[k].decision = place /\ trace'[k].enc = enc'
    BY <1>12, <1>13
  <2>4. Coder(k - 1)' = enc /\ Following(k - 1)' = Place(next, place)
    BY <2>1, <2>2
  <2>5. next \in DOMAIN script /\ place \in DOMAIN decisions
    BY <1>2, <1>4, <1>5, <1>6 DEF CoderInv, ScriptInv
  <2>6. k <= 127 * (next - 1) + place /\ Len(enc'.low_bytes) \in 2..(k + 2)
    BY <1>7, <1>9
  <2> HIDE DEF k
  <2>7. StepInv(k)'
    BY <1>1, <1>9, <2>3, <2>4, <2>5, <2>6 DEF StepInv
  <2>8. QED
    BY <2>7 DEF k
<1>18. Following(n + 1)' = Place(next', coded' + 1)
  <2> DEFINE k == n + 1
  <2>1. k # 0
    BY <1>3
  <2>2. trace'[k].symbol = next /\ trace'[k].decision = place
    BY <1>12, <1>13
  <2> HIDE DEF k
  <2>3. Following(k)' = IF place < Len(decisions) THEN Place(next, place + 1) ELSE Place(next + 1, 1)
    BY <1>1, <2>1, <2>2 DEF Following, PlaceAfter
  <2>4. 0 + 1 = 1
    OBVIOUS
  <2>5. Following(k)' = Place(next', coded' + 1)
    BY <1>1, <2>3, <2>4
  <2>6. QED
    BY <2>5 DEF k
<1>19. TraceInv'
  <2>1. ASSUME NEW i \in 1..(n + 1)
        PROVE  StepInv(i)'
    <3>1. i \in 1..n \/ i = n + 1
      BY <1>3
    <3>2. QED
      BY <1>15, <1>17, <3>1
  <2> DEFINE k == n + 1
  <2>2. Len(trace') = k
    BY <1>13
  <2>3. Coder(Len(trace))' = enc' /\ Following(Len(trace))' = Place(next', coded' + 1)
    BY <1>13, <1>16, <1>18 DEF Coder, Following, PlaceAfter, References, StatesFrom
  <2>4. trace' \in Seq([symbol : Nat, decision : Nat, enc : EncoderStates])
    BY <1>13 DEF Steps
  <2>5. \A i \in 1..Len(trace') : StepInv(i)'
    BY <2>1, <2>2
  <2>6. QED
    BY <1>1, <2>3, <2>4, <2>5 DEF TraceInv
<1>20. HeaderInv'
  <2>1. HeaderLength' = HeaderLength
    BY <1>1 DEF HeaderLength, HeaderValues, First
  <2>2. QED
    BY <1>1, <1>2, <2>1 DEF HeaderInv
<1>21. SyncInv' /\ ContainedInv' /\ DecodeInv' /\ SliceInv'
  BY <1>1, <1>2 DEF SyncInv, ContainedInv, DecodeInv, SliceInv
<1>22. QED
  BY <1>19, <1>20, <1>21 DEF IInv

(***************************************************************************)
(* The end of a slice, and the start of a reader.                          *)
(***************************************************************************)
LEMMA Places ==
  ASSUME NEW s, NEW t, NEW d, NEW c, Place(s, d) = Place(t, c)
  PROVE  s = t /\ d = c
<1>1. Place(s, d).symbol = s /\ Place(s, d).decision = d
  BY DEF Place
<1>2. Place(t, c).symbol = t /\ Place(t, c).decision = c
  BY DEF Place
<1>3. QED
  BY <1>1, <1>2

LEMMA EndOfScript ==
  ASSUME CoderInv, TraceInv, pc = "encode", next > Len(script)
  PROVE  Following(Len(trace)) = Place(Len(script) + 1, 1)
<1>1. PICK n \in Nat : n = Len(trace)
  BY TraceType
<1>2. Following(n) = Place(next, coded + 1)
  BY <1>1 DEF TraceInv
<1>3. /\ Len(script) \in Nat /\ next \in Nat /\ next > Len(script)
      /\ Len(script) >= 1
  BY ScriptHolds DEF CoderInv, ScriptInv
<1>4. CASE n = 0
  <2>1. Place(next, coded + 1) = Place(1, 1)
    BY <1>2, <1>4 DEF Following
  <2>2. next = 1
    BY <2>1, Places
  <2>3. QED
    BY <1>3, <2>2
<1>5. CASE n # 0
  <2> DEFINE s == trace[n].symbol
             d == trace[n].decision
             size == Len(Decisions(StepSymbol(n)))
  <2>1. n \in 1..Len(trace)
    BY <1>1, <1>5
  <2>2. s \in 1..Len(script)
    BY <2>1, StepType
  <2>3. Following(n) = IF d < size THEN Place(s, d + 1) ELSE Place(s + 1, 1)
    BY <1>5 DEF Following, PlaceAfter, StepSymbol
  <2> HIDE DEF s, d, size
  <2>4. CASE d < size
    <3>1. Place(next, coded + 1) = Place(s, d + 1)
      BY <1>2, <2>3, <2>4
    <3>2. next = s
      BY <3>1, Places
    <3>3. QED
      BY <1>3, <2>2, <3>2
  <2>5. CASE ~(d < size)
    <3>1. Place(next, coded + 1) = Place(s + 1, 1)
      BY <1>2, <2>3, <2>5
    <3>2. next = s + 1
      BY <3>1, Places
    <3>3. s + 1 = Len(script) + 1
      BY <1>3, <2>2, <3>2
    <3>4. Following(n) = Place(Len(script) + 1, 1)
      BY <1>2, <3>1, <3>3
    <3>5. QED
      BY <1>1, <3>4
  <2>6. QED
    BY <2>4, <2>5
<1>6. QED
  BY <1>4, <1>5

\* A header is short: nine or ten symbols.
LEMMA HeaderIsShort ==
  ASSUME CoderInv, TraceInv, pc # "idle", NEW n \in 0..Len(trace), IsHeader(n)
  PROVE  Len(Coder(n).low_bytes) <= 65536
<1>1. Len(trace) \in Nat /\ n \in Nat
  BY TraceType
<1>2. Len(Coder(n).low_bytes) \in Nat /\ Len(Coder(n).low_bytes) <= n + 2
  <2>1. Fits(Coder(n)) /\ Len(Coder(n).low_bytes) <= n + 2
    BY CoderFits
  <2>2. QED
    BY <2>1 DEF Fits, EncoderStates
<1>3. CASE n = 0
  BY <1>2, <1>3
<1>4. CASE n # 0
  <2> DEFINE s == trace[n].symbol
             d == trace[n].decision
             size == Len(Decisions(StepSymbol(n)))
  <2>1. n \in 1..Len(trace)
    BY <1>1, <1>4
  <2>2. /\ s \in 1..Len(script) /\ d \in 1..size /\ size \in Nat /\ size <= 127
        /\ n <= 127 * (s - 1) + d
    BY <2>1, StepType
  <2>3. s <= HeaderLength
    BY <1>4 DEF IsHeader
  <2>4. HeaderLength \in Nat /\ HeaderLength <= 10
    <3>1. Len(HeaderValues) = 9
      BY DEF HeaderValues
    <3>2. QED
      BY <3>1 DEF HeaderLength
  <2>5. s \in Nat
    BY <2>1, TraceType
  <2> HIDE DEF s, d, size
  <2>6. n <= 1270
    BY <1>1, <2>2, <2>3, <2>4, <2>5
  <2>7. QED
    BY <1>1, <1>2, <2>6
<1>5. QED
  BY <1>3, <1>4

\* What a reader starts with.
LEMMA StartFollows ==
  ASSUME CoderInv, pc # "idle", NEW references \in ReferenceType,
         NEW bytes \in Seq(Byte), Len(bytes) >= 2, Contains(Coder(0), bytes)
  PROVE  /\ Follows(DecoderReset(bytes, StatesFrom(references)), Coder(0), bytes)
         /\ StartOfSymbol(script[1].kind) = ParseAfter(script[1], 0)
         /\ Following(0) = PlaceAfter(1, 0)
         /\ 0 \in 0..Len(Decisions(script[1]))
         /\ \A context \in Contexts : context # "content" \/ references = References =>
              DecoderReset(bytes, StatesFrom(references)).states[context]
                = Coder(0).states[context]
<1> DEFINE states == StatesFrom(References)
           others == StatesFrom(references)
<1>1. Coder(0) = EncoderReset(states)
  BY StartCoder
<1>2. Follows(DecoderReset(bytes, others), Coder(0), bytes)
  <2> HIDE DEF states, others
  <2>1. Contains(EncoderReset(states), bytes)
    BY <1>1
  <2>2. Follows(DecoderReset(bytes, others), EncoderReset(states), bytes)
    BY <2>1, ResetFollows
  <2>3. QED
    BY <1>1, <2>2
<1>3. StartOfSymbol(script[1].kind) = ParseAfter(script[1], 0)
  BY DEF ParseAfter
<1>4. 1 \in 1..Len(script)
  BY ScriptHolds DEF CoderInv
<1>5. Len(Decisions(script[1])) \in Nat /\ Len(Decisions(script[1])) >= 1
  <2>1. Decisions(script[1]) \in Seq(DecisionType) /\ Len(Decisions(script[1])) >= 1
    BY <1>4, ScriptHolds DEF CoderInv
  <2>2. QED
    BY <2>1
<1>6. Following(0) = PlaceAfter(1, 0)
  <2>1. 0 < Len(Decisions(script[1])) /\ 0 + 1 = 1
    BY <1>5
  <2>2. QED
    BY <2>1 DEF Following, PlaceAfter
<1>7. /\ Coder(0).states = states
      /\ DecoderReset(bytes, others).states = others
  <2> HIDE DEF states, others
  <2>1. QED
    BY <1>1 DEF EncoderReset, DecoderReset
<1>8. \A context \in Contexts : context # "content" \/ references = References =>
        others[context] = states[context]
  BY DEF StatesFrom
<1>9. 0 \in 0..Len(Decisions(script[1]))
  BY <1>5
<1>10. QED
  BY <1>2, <1>3, <1>6, <1>7, <1>8, <1>9

(***************************************************************************)
(* finalize, and the first reader.                                         *)
(***************************************************************************)
LEMMA FinishSliceTrace ==
  ASSUME IInv, CoderInv', NEW body \in Bodies, NEW check \in Checks, FinishSlice(body, check)
  PROVE  IInv'
<1> DEFINE slices == IF golomb THEN ExactBytes \o body ELSE ClosedBytes
           tails == Footer(Len(slices), check)
<1>1. /\ pc = "encode" /\ next > Len(script) /\ Len(slices) < 16777216
      /\ enc_contexts' = IF golomb THEN enc_contexts ELSE enc.states["content"]
      /\ slice' = slices /\ footer' = tails /\ payload' = slices \o tails
      /\ dec' = DecoderReset(slices \o tails, StatesFrom(None))
      /\ parse' = StartOfSymbol(script[1].kind)
      /\ next' = 1 /\ racs' = 0 /\ pc' = "probe"
      /\ UNCHANGED <<golomb, cell, frames, script, coded, trace, content_offset,
                     dec_contexts, enc>>
  BY DEF FinishSlice, StartProbe, Footer, streamVars
<1>2. CoderInv /\ HeaderInv /\ SyncInv /\ TraceInv
  BY DEF IInv
<1>3. Fits(enc) /\ enc \in EncoderStates /\ Len(enc.low_bytes) >= 2 /\ Len(enc.low_bytes) \in Nat
  BY <1>2 DEF CoderInv, TypeOK, CarryInv, Fits, EncoderStates
<1>4. body \in Seq(Byte)
  BY SliceAssumption
<1>5. /\ slices \in Seq(Byte) /\ Contains(enc, slices)
      /\ Len(enc.low_bytes) <= Len(slices) + 1
  <2>1. slices \in Seq(Byte) /\ Len(slices) \in Nat
    <3>1. CASE golomb
      <4>1. enc.low_bytes \in Seq(Byte)
        BY <1>3 DEF EncoderStates
      <4>2. enc.low_bytes \o body \in Seq(Byte)
        BY <1>4, <4>1, Concatenation
      <4>3. slices = enc.low_bytes \o body
        BY <3>1 DEF ExactBytes
      <4> HIDE DEF slices
      <4>4. QED
        BY <4>2, <4>3
    <3>2. CASE ~golomb
      BY <1>3, <3>2, ClosedBytesType
    <3>3. QED
      BY <3>1, <3>2
  <2>2. CASE golomb
    <3>1. slices = ExactBytes \o body
      BY <2>2
    <3>2. Contains(enc, slices) /\ Len(enc.low_bytes) <= Len(slices)
      BY <1>3, <1>4, <3>1, ExactContains, ExactGap
    <3> HIDE DEF slices
    <3>3. QED
      BY <1>3, <2>1, <3>2
  <2>3. CASE ~golomb
    <3>1. slices = ClosedBytes
      BY <2>3
    <3>2. Contains(enc, slices) /\ Len(enc.low_bytes) <= Len(slices) + 1
      BY <1>3, <3>1, ClosedContains DEF Fits
    <3>3. QED
      BY <2>1, <3>2
  <2>4. QED
    BY <2>2, <2>3
<1>6. tails \in Seq(Byte) /\ Len(tails) >= 1 /\ tails[1] = Len(slices) \div 65536
  <2> HIDE DEF slices
  <2>1. QED
    BY <1>1, <1>5, FooterType
<1> HIDE DEF tails, slices
<1>8. \A n \in 0..Len(trace) :
        Contains(Coder(n), slices) /\ Len(Coder(n).low_bytes) <= Len(enc.low_bytes)
  BY <1>1, <1>2, <1>5, ContainsBack
<1> DEFINE all == slices \o tails
<1>9. all \in Seq(Byte) /\ Len(all) >= 2
  <2>1. all \in Seq(Byte) /\ payload' = all
    BY <1>1, <1>5, <1>6, Concatenation
  <2>2. Len(all) = Len(slices) + Len(tails)
    BY <1>5, <1>6, Concatenation
  <2>3. Len(slices) \in Nat /\ Len(tails) \in Nat
    BY <1>5, <1>6
  <2>4. Len(slices) >= 1
    BY <1>3, <1>5, <2>3
  <2> HIDE DEF all
  <2>5. QED
    BY <1>6, <2>1, <2>2, <2>3, <2>4
<1>10. ASSUME NEW n \in 0..Len(trace), IsHeader(n)
       PROVE  Contains(Coder(n), all)
  <2> DEFINE coder == Coder(n)
  <2>1. Fits(coder) /\ Len(coder.low_bytes) <= 65536
    BY <1>1, <1>2, <1>10, CoderFits, HeaderIsShort
  <2>2. Contains(coder, slices) /\ Len(coder.low_bytes) <= Len(enc.low_bytes)
    BY <1>8
  <2> HIDE DEF coder
  <2>3. coder.low_bytes \in Seq(Byte) /\ Len(coder.low_bytes) \in Nat /\ Len(slices) \in Nat
    BY <1>5, <2>1 DEF Fits, EncoderStates
  <2>4. Len(coder.low_bytes) <= Len(slices) + 1
    BY <1>3, <1>5, <2>2, <2>3
  <2>5. Gap(all, coder.low_bytes) = Gap(slices, coder.low_bytes)
    BY <1>5, <1>6, <2>1, <2>3, <2>4, FooterGap
  <2>6. QED
    BY <2>2, <2>5 DEF Contains, coder
<1>11. Len(trace) \in Nat /\ 0 \in 0..Len(trace)
  BY <1>1, <1>2, TraceType
<1>12. IsHeader(0)
  BY DEF IsHeader
<1>13. /\ Follows(DecoderReset(all, StatesFrom(None)), Coder(0), all)
       /\ StartOfSymbol(script[1].kind) = ParseAfter(script[1], 0)
       /\ Following(0) = PlaceAfter(1, 0)
       /\ 0 \in 0..Len(Decisions(script[1]))
       /\ \A context \in Contexts : context # "content" =>
            DecoderReset(all, StatesFrom(None)).states[context] = Coder(0).states[context]
  <2> HIDE DEF all
  <2>1. Contains(Coder(0), all)
    BY <1>10, <1>11, <1>12
  <2>2. QED
    BY <1>1, <1>2, <1>9, <2>1, NoReference, StartFollows
<1>14. /\ HeaderLength' = HeaderLength
       /\ \A n : Coder(n)' = Coder(n)
       /\ \A n : Following(n)' = Following(n)
       /\ \A s, n : PlaceAfter(s, n)' = PlaceAfter(s, n)
       /\ \A n : IsHeader(n)' = IsHeader(n)
       /\ \A n : StepInv(n)' = StepInv(n)
  BY <1>1, TraceKept
<1>15. HeaderInv'
  BY <1>1, <1>2, <1>14 DEF HeaderInv
<1>16. SyncInv'
  BY <1>1, <1>2 DEF SyncInv
<1>17. PICK total \in Nat : total = Len(trace)
  BY <1>11
<1>18. TraceInv'
  <2>1. Following(total) = Place(Len(script) + 1, 1)
    BY <1>1, <1>2, <1>17, EndOfScript
  <2>2. Following(Len(trace))' = Following(total)' /\ Coder(Len(trace))' = Coder(total)'
    BY <1>1, <1>17 DEF Following, PlaceAfter, Coder, StatesFrom, References
  <2>3. enc = Coder(total)
    BY <1>1, <1>2, <1>17 DEF TraceInv
  <2>4. /\ trace \in Seq([symbol : Nat, decision : Nat, enc : EncoderStates])
        /\ \A n \in 1..Len(trace) : StepInv(n)
    BY <1>1, <1>2 DEF TraceInv
  <2>5. QED
    BY <1>1, <1>14, <2>1, <2>2, <2>3, <2>4 DEF TraceInv
<1>19. ContainedInv'
  <2>1. \A n \in 0..Len(trace) : Contains(Coder(n), slices)
    BY <1>8
  <2>2. \A n \in 0..Len(trace) : IsHeader(n) => Contains(Coder(n), all)
    BY <1>10
  <2>3. pc' = "probe" /\ trace' = trace /\ slice' = slices /\ payload' = all
    BY <1>1
  <2> HIDE DEF all
  <2>4. QED
    BY <1>14, <2>1, <2>2, <2>3 DEF ContainedInv
<1>20. DecodeInv'
  <2>1. /\ payload' = all /\ dec' = DecoderReset(all, StatesFrom(None))
        /\ parse' = StartOfSymbol(script[1].kind) /\ next' = 1 /\ racs' = 0 /\ pc' = "probe"
        /\ trace' = trace /\ script' = script
    BY <1>1
  <2> HIDE DEF all
  <2>2. Coder(racs)' = Coder(0) /\ Following(racs)' = Following(0) /\ IsHeader(racs)'
    <3>1. Coder(racs)' = Coder(0)' /\ Following(racs)' = Following(0)' /\ IsHeader(racs)' = IsHeader(0)'
      BY <2>1 DEF Coder, Following, PlaceAfter, IsHeader, StatesFrom, References
    <3>2. QED
      BY <1>12, <1>14, <3>1
  <2>3. racs' \in 0..Len(trace')
    BY <1>11, <2>1
  <2>4. /\ parse' = ParseAfter(script'[next'], 0)
        /\ Following(racs)' = PlaceAfter(next, 0)'
        /\ 0 \in 0..Len(Decisions(script'[next']))
    <3>1. PlaceAfter(next, 0)' = PlaceAfter(1, 0)'
      BY <2>1 DEF PlaceAfter
    <3>2. QED
      BY <1>13, <1>14, <2>1, <2>2, <3>1
  <2>5. Follows(dec', Coder(racs)', payload')
    BY <1>13, <2>1, <2>2
  <2>6. \A context \in ReadContexts' : dec'.states[context] = Coder(racs)'.states[context]
    <3>1. ReadContexts' = Contexts \ {"content"}
      BY <2>1 DEF ReadContexts
    <3>2. QED
      BY <1>13, <2>1, <2>2, <3>1
  <2>7. QED
    BY <2>2, <2>3, <2>4, <2>5, <2>6 DEF DecodeInv
<1>21. SliceInv'
  <2>1. footer' \in Seq(Byte) /\ payload' = slice' \o footer' /\ pc' = "probe"
    BY <1>1, <1>6
  <2>2. golomb' => slice' = ExactBytes' \o body
    BY <1>1 DEF slices, ExactBytes
  <2>3. QED
    BY <2>1, <2>2 DEF SliceInv
<1>22. QED
  BY <1>15, <1>16, <1>18, <1>19, <1>20, <1>21 DEF IInv

(***************************************************************************)
(* Where a reader is.                                                      *)
(***************************************************************************)
At(read) ==
  /\ read \in 0..Len(Decisions(script[next]))
  /\ parse = ParseAfter(script[next], read)
  /\ Following(racs) = PlaceAfter(next, read)

LEMMA NextInScript ==
  ASSUME CoderInv, pc \in {"probe", "decode"}
  PROVE  /\ next \in 1..Len(script) /\ next \in Nat /\ Len(script) \in Nat
         /\ script[next] \in Symbols /\ script[next].context \in Contexts
         /\ ReadsBack(script[next])
         /\ Decisions(script[next]) \in Seq(DecisionType)
<1>1. Len(script) \in Nat /\ HeaderLength \in Nat /\ HeaderLength <= Len(script)
  BY ScriptHolds DEF CoderInv
<1>2. next \in Nat \ {0} /\ (next <= HeaderLength \/ next <= Len(script))
  BY DEF CoderInv, ScriptInv
<1>3. next \in 1..Len(script)
  BY <1>1, <1>2
<1>4. /\ script[next] \in Symbols /\ Writable(script[next])
      /\ script[next].context \in Contexts
      /\ Decisions(script[next]) \in Seq(DecisionType)
  BY <1>3, ScriptHolds DEF CoderInv
<1>5. QED
  BY <1>1, <1>2, <1>3, <1>4, SymbolReadBack

LEMMA ReaderPlace ==
  ASSUME IInv, pc \in {"probe", "decode"}
  PROVE  /\ Complete => At(Len(Decisions(script[next])))
         /\ ~Complete => \E read \in Nat : At(read) /\ read < Len(Decisions(script[next]))
<1> DEFINE symbol == script[next]
           size == Len(Decisions(symbol))
<1>1. PICK read \in 0..size : At(read)
  BY DEF IInv, DecodeInv, At
<1>2. ReadsBack(symbol)
  BY NextInScript DEF IInv
<1>3. /\ size \in Nat /\ ParseAfter(symbol, size).stage = "done"
      /\ \A i \in Nat : i < size => ParseAfter(symbol, i).stage \notin {"done", "error"}
  BY <1>2 DEF ReadsBack, ReadsOn
<1>4. parse = ParseAfter(symbol, read)
  BY <1>1 DEF At
<1> HIDE DEF size
<1>5. read \in Nat /\ (read = size \/ read < size)
  BY <1>1, <1>3
<1>6. CASE read = size
  <2>1. Complete
    BY <1>3, <1>4, <1>6 DEF Complete
  <2>2. QED
    BY <1>1, <1>6, <2>1 DEF size
<1>7. CASE read < size
  <2>1. ~Complete
    BY <1>3, <1>4, <1>5, <1>7 DEF Complete
  <2>2. QED
    BY <1>1, <1>5, <1>7, <2>1 DEF size
<1>8. QED
  BY <1>5, <1>6, <1>7

LEMMA CompleteReads ==
  ASSUME IInv, pc \in {"probe", "decode"}, Complete
  PROVE  /\ parse.stage = "done" /\ parse.value = script[next].value
         /\ Following(racs) = Place(next + 1, 1)
<1> DEFINE symbol == script[next]
           size == Len(Decisions(symbol))
<1>1. At(size)
  BY ReaderPlace
<1>2. ReadsBack(symbol)
  BY NextInScript DEF IInv
<1>3. /\ size \in Nat /\ ParseAfter(symbol, size).stage = "done"
      /\ ParseAfter(symbol, size).value = symbol.value
  BY <1>2 DEF ReadsBack
<1>4. parse = ParseAfter(symbol, size) /\ Following(racs) = PlaceAfter(next, size)
  BY <1>1 DEF At
<1>5. ~(size < size)
  BY <1>3
<1>6. PlaceAfter(next, size) = Place(next + 1, 1)
  BY <1>5 DEF PlaceAfter
<1>7. QED
  BY <1>3, <1>4, <1>6

\* Behind the last symbol of the script there is no decision left.
LEMMA AllRead ==
  ASSUME IInv, pc \in {"probe", "decode"}, Complete, next = Len(script)
  PROVE  racs = Len(trace) /\ Coder(racs) = enc
<1>1. CoderInv /\ TraceInv /\ DecodeInv /\ pc # "idle"
  BY DEF IInv
<1>2. racs \in 0..Len(trace) /\ Len(trace) \in Nat
  BY <1>1, TraceType DEF DecodeInv
<1>3. PICK n \in Nat : n = racs
  BY <1>2
<1>4. Following(n) = Place(next + 1, 1)
  BY <1>3, CompleteReads
<1>5. n = Len(trace)
  <2>1. SUFFICES ASSUME n # Len(trace)
                 PROVE  FALSE
    OBVIOUS
  <2> DEFINE k == n + 1
  <2>2. k \in 1..Len(trace) /\ k - 1 = n
    BY <1>2, <1>3, <2>1
  <2> HIDE DEF k
  <2>3. trace[k].symbol \in 1..Len(script) /\ Place(trace[k].symbol, trace[k].decision) = Following(k - 1)
    BY <1>1, <2>2, StepType
  <2>4. Place(trace[k].symbol, trace[k].decision) = Place(next + 1, 1)
    BY <1>4, <2>2, <2>3
  <2>5. trace[k].symbol = next + 1
    BY <2>4, Places
  <2>6. Len(script) \in Nat
    BY <1>1, NextInScript
  <2>7. QED
    BY <2>3, <2>5, <2>6
<1>6. enc = Coder(Len(trace))
  BY <1>1 DEF TraceInv
<1>7. QED
  BY <1>3, <1>5, <1>6

LEMMA AdaptedSame ==
  ASSUME NEW s \in [Contexts -> [Slots -> Live]], NEW t \in [Contexts -> [Slots -> Live]],
         NEW c \in Contexts, NEW d \in Contexts, s[c] = t[c], s[d] = t[d],
         NEW slot \in Slots, NEW bit \in BOOLEAN
  PROVE  Adapted(s, c, slot, bit)[d] = Adapted(t, c, slot, bit)[d]
<1>1. CASE c = d
  BY <1>1 DEF Adapted
<1>2. CASE c # d
  BY <1>2 DEF Adapted
<1>3. QED
  BY <1>1, <1>2

(***************************************************************************)
(* read_rac.                                                               *)
(***************************************************************************)
LEMMA ReadDecisionTrace ==
  ASSUME IInv, CoderInv', ReadDecision
  PROVE  IInv'
<1>1. /\ pc \in {"probe", "decode"} /\ pc # "idle" /\ ~Complete
      /\ ReadRac(script[next].context) /\ racs' = racs + 1
      /\ UNCHANGED <<golomb, cell, pc, frames, script, footer, slice, next, coded, trace,
                     content_offset, enc_contexts, dec_contexts, enc, payload>>
  BY DEF ReadDecision, streamVars, sliceVars
<1>2. CoderInv /\ HeaderInv /\ SyncInv /\ TraceInv /\ ContainedInv /\ DecodeInv /\ SliceInv
  BY DEF IInv
<1>3. PICK read \in Nat : At(read) /\ read < Len(Decisions(script[next]))
  BY <1>1, ReaderPlace
<1>4. /\ racs \in 0..Len(trace) /\ Len(trace) \in Nat
      /\ Follows(dec, Coder(racs), payload)
      /\ \A context \in ReadContexts : dec.states[context] = Coder(racs).states[context]
  BY <1>1, <1>2, TraceType DEF DecodeInv
<1>5. /\ next \in 1..Len(script) /\ next \in Nat /\ Len(script) \in Nat
      /\ script[next].context \in Contexts /\ ReadsBack(script[next])
      /\ Decisions(script[next]) \in Seq(DecisionType)
  BY <1>1, <1>2, NextInScript
<1>6. PICK n \in Nat : n = racs
  BY <1>4
<1> DEFINE k == n + 1
           symbol == script[next]
           place == read + 1
           decision == Decisions(symbol)[place]
<1>7. k \in Nat /\ k - 1 = n /\ k # 0 /\ n \in 0..Len(trace) /\ racs' = k
  BY <1>1, <1>4, <1>6
<1> HIDE DEF k
<1>8. Following(n) = Place(next, place)
  <2>1. Following(n) = PlaceAfter(next, read)
    BY <1>3, <1>6 DEF At
  <2>2. QED
    BY <1>3, <2>1 DEF PlaceAfter
<1>9. k \in 1..Len(trace)
  <2>1. SUFFICES ASSUME n = Len(trace)
                 PROVE  FALSE
    BY <1>4, <1>6, <1>7 DEF k
  <2>2. Following(n) = Place(Len(script) + 1, 1)
    BY <1>1, <1>2, <2>1 DEF TraceInv
  <2>3. Place(next, place) = Place(Len(script) + 1, 1)
    BY <1>8, <2>2
  <2>4. next = Len(script) + 1
    BY <2>3, Places
  <2>5. QED
    BY <1>5, <2>4
<1>10. trace[k].symbol = next /\ trace[k].decision = place
  <2>1. Place(trace[k].symbol, trace[k].decision) = Following(k - 1)
    BY <1>1, <1>2, <1>9, StepType
  <2>2. Place(trace[k].symbol, trace[k].decision) = Place(next, place)
    BY <1>7, <1>8, <2>1
  <2>3. QED
    BY <2>2, Places
<1>11. StepSymbol(k) = symbol /\ StepDecision(k) = decision
  BY <1>10 DEF StepSymbol, StepDecision
<1>12. /\ decision \in [slot : Slots, bit : BOOLEAN]
       /\ Coder(k) = Narrowed(Coder(n), symbol.context, decision)
       /\ Fits(Coder(n))
  <2>1. /\ StepDecision(k) \in [slot : Slots, bit : BOOLEAN]
        /\ Coder(k) = Narrowed(Coder(k - 1), StepSymbol(k).context, StepDecision(k))
    BY <1>1, <1>2, <1>9, StepType
  <2>2. Fits(Coder(n))
    BY <1>1, <1>2, <1>7, CoderFits
  <2>3. QED
    BY <1>7, <1>11, <2>1, <2>2
<1>13. /\ SlotOf(parse) = decision.slot
       /\ Parsed(parse, decision.bit) = ParseAfter(symbol, place)
  <2>1. parse = ParseAfter(symbol, read)
    BY <1>3 DEF At
  <2>2. ReadsOn(symbol, read, Decisions(symbol)[read + 1])
    BY <1>3, <1>5 DEF ReadsBack
  <2>3. QED
    BY <2>1, <2>2 DEF ReadsOn
<1>14. symbol.context \in ReadContexts
  <2>1. CASE pc = "probe"
    <3>1. next <= HeaderLength
      BY <1>2, <2>1 DEF CoderInv, ScriptInv
    <3>2. HeaderLength \in Nat /\ DOMAIN script = 1..Len(script)
      BY <1>1, <1>2, ScriptHolds DEF CoderInv, ScriptInv
    <3>3. ~(next > HeaderLength) /\ next \in DOMAIN script
      BY <1>5, <3>1, <3>2
    <3>4. symbol.context # "content"
      BY <1>2, <3>3 DEF HeaderInv
    <3>5. QED
      BY <1>5, <2>1, <3>4 DEF ReadContexts
  <2>2. CASE pc # "probe"
    BY <1>5, <2>2 DEF ReadContexts
  <2>3. QED
    BY <2>1, <2>2
<1>15. pc = "probe" => IsHeader(k)
  <2>1. pc = "probe" => next <= HeaderLength
    BY <1>2 DEF CoderInv, ScriptInv
  <2>2. QED
    BY <1>10, <2>1 DEF IsHeader
<1>16. Contains(Coder(k), payload)
  <2>1. k \in 0..Len(trace) /\ (pc = "decode" \/ IsHeader(k))
    BY <1>1, <1>4, <1>9, <1>15
  <2>2. QED
    BY <1>1, <1>2, <2>1 DEF ContainedInv
<1> DEFINE old == Coder(n)
           context == symbol.context
<1>17. /\ old \in EncoderStates /\ Len(old.low_bytes) >= 2 /\ ~Overflows(old.low_bytes, old.range)
       /\ Follows(dec, old, payload) /\ dec.states[context] = old.states[context]
       /\ payload \in Seq(Byte) /\ context \in Contexts
       /\ dec.states \in [Contexts -> [Slots -> Live]]
       /\ old.states \in [Contexts -> [Slots -> Live]]
  <2>1. old \in EncoderStates /\ Len(old.low_bytes) >= 2 /\ ~Overflows(old.low_bytes, old.range)
    BY <1>12 DEF Fits
  <2>2. old.states \in [Contexts -> [Slots -> Live]]
    BY <2>1 DEF EncoderStates
  <2>3. dec.states \in [Contexts -> [Slots -> Live]] /\ payload \in Seq(Byte)
    BY <1>2 DEF CoderInv, TypeOK, ReaderInv, DecoderStates
  <2>4. QED
    BY <1>4, <1>5, <1>6, <1>14, <2>1, <2>2, <2>3
<1>18. \A other \in ReadContexts : dec.states[other] = old.states[other] /\ other \in Contexts
  BY <1>4, <1>6 DEF ReadContexts
<1> HIDE DEF old, context, decision, place, symbol
<1>19. Contains(Narrowed(old, context, decision), payload)
  BY <1>12, <1>16 DEF old, context
<1>20. ReadRac(context)
  BY <1>1 DEF context, symbol
<1>21. /\ Follows(dec', Narrowed(old, context, decision), payload)
       /\ dec'.states = Adapted(dec.states, context, decision.slot, decision.bit)
       /\ Narrowed(old, context, decision).states =
            Adapted(old.states, context, decision.slot, decision.bit)
       /\ parse' = Parsed(parse, decision.bit)
  BY <1>12, <1>13, <1>17, <1>19, <1>20, ReadRacFollows
<1>22. Coder(k) = Narrowed(old, context, decision)
  BY <1>12 DEF old, context
<1>23. /\ HeaderLength' = HeaderLength
       /\ \A i : Coder(i)' = Coder(i)
       /\ \A i : Following(i)' = Following(i)
       /\ \A s, i : PlaceAfter(s, i)' = PlaceAfter(s, i)
       /\ \A i : IsHeader(i)' = IsHeader(i)
       /\ \A i : StepInv(i)' = StepInv(i)
  BY <1>1, TraceKept
<1>24. HeaderInv' /\ SyncInv'
  BY <1>1, <1>2, <1>23 DEF HeaderInv, SyncInv
<1>25. TraceInv'
  <2>1. PICK total \in Nat : total = Len(trace)
    BY <1>4
  <2>2. Following(Len(trace))' = Following(total)' /\ Coder(Len(trace))' = Coder(total)'
    BY <1>1, <2>1 DEF Following, PlaceAfter, Coder, StatesFrom, References
  <2>3. enc = Coder(total) /\ Following(total) = Place(Len(script) + 1, 1)
    BY <1>1, <1>2, <2>1 DEF TraceInv
  <2>4. /\ trace \in Seq([symbol : Nat, decision : Nat, enc : EncoderStates])
        /\ \A i \in 1..Len(trace) : StepInv(i)
    BY <1>1, <1>2 DEF TraceInv
  <2>5. QED
    BY <1>1, <1>23, <2>2, <2>3, <2>4 DEF TraceInv
<1>26. ContainedInv'
  BY <1>1, <1>2, <1>23 DEF ContainedInv
<1>27. DecodeInv'
  <2>1. racs' \in 0..Len(trace') /\ IsHeader(racs)' = IsHeader(k)
    <3>1. k \in 0..Len(trace)
      BY <1>4, <1>9
    <3>2. IsHeader(racs)' = IsHeader(k)'
      BY <1>7 DEF IsHeader
    <3>3. QED
      BY <1>1, <1>7, <1>23, <3>1, <3>2
  <2>2. Coder(racs)' = Coder(k) /\ Following(racs)' = Following(k)
    <3>1. Coder(racs)' = Coder(k)' /\ Following(racs)' = Following(k)'
      BY <1>7 DEF Coder, Following, PlaceAfter, StatesFrom, References
    <3>2. QED
      BY <1>23, <3>1
  <2>3. parse' = ParseAfter(script'[next'], place)
    <3>1. script'[next'] = symbol
      BY <1>1 DEF symbol
    <3>2. QED
      BY <1>13, <1>21, <3>1
  <2>4. Following(racs)' = PlaceAfter(next, place)'
    <3>1. Following(k) = PlaceAfter(next, place)
      BY <1>7, <1>10 DEF Following
    <3>2. PlaceAfter(next, place)' = PlaceAfter(next, place)
      BY <1>1 DEF PlaceAfter, place
    <3>3. QED
      BY <2>2, <3>1, <3>2
  <2>5. place \in 0..Len(Decisions(script'[next']))
    <3>1. Len(Decisions(script[next])) \in Nat
      BY <1>5
    <3>2. place \in 0..Len(Decisions(script[next]))
      BY <1>3, <3>1 DEF place
    <3>3. QED
      BY <1>1, <3>2
  <2>6. Follows(dec', Coder(racs)', payload')
    BY <1>1, <1>21, <1>22, <2>2
  <2>7. \A other \in ReadContexts' : dec'.states[other] = Coder(racs)'.states[other]
    <3>1. ReadContexts' = ReadContexts
      BY <1>1 DEF ReadContexts
    <3>2. decision.slot \in Slots /\ decision.bit \in BOOLEAN
      BY <1>12
    <3>3. ASSUME NEW other \in ReadContexts
          PROVE  Adapted(dec.states, context, decision.slot, decision.bit)[other]
                   = Adapted(old.states, context, decision.slot, decision.bit)[other]
      <4> DEFINE s == dec.states
                 t == old.states
                 slot == decision.slot
                 bit == decision.bit
      <4>1. /\ s \in [Contexts -> [Slots -> Live]] /\ t \in [Contexts -> [Slots -> Live]]
            /\ context \in Contexts /\ other \in Contexts
            /\ s[context] = t[context] /\ s[other] = t[other]
            /\ slot \in Slots /\ bit \in BOOLEAN
        BY <1>17, <1>18, <3>2
      <4> HIDE DEF s, t, slot, bit
      <4>2. Adapted(s, context, slot, bit)[other] = Adapted(t, context, slot, bit)[other]
        BY <4>1, AdaptedSame, ZenonT(60)
      <4>3. QED
        BY <4>2 DEF s, t, slot, bit
    <3>4. QED
      BY <1>21, <1>22, <2>2, <3>1, <3>3
  <2>8. pc' = "probe" => IsHeader(racs)'
    BY <1>1, <1>15, <2>1
  <2>9. place = read + 1
    BY DEF place
  <2>10. \E i \in 0..Len(Decisions(script'[next'])) :
           parse' = ParseAfter(script'[next'], i) /\ Following(racs)' = PlaceAfter(next, i)'
    <3>1. PICK i \in Nat : i = read + 1
      OBVIOUS
    <3>2. i = place
      BY <2>9, <3>1
    <3>3. Following(racs)' = PlaceAfter(next, i)'
      <4>1. Following(k) = PlaceAfter(next, i)
        BY <1>7, <1>10, <3>2 DEF Following
      <4>2. PlaceAfter(next, i)' = PlaceAfter(next, i)
        BY <1>1 DEF PlaceAfter
      <4>3. QED
        BY <2>2, <4>1, <4>2
    <3>4. QED
      BY <2>3, <2>5, <3>2, <3>3
  <2>11. QED
    BY <1>1, <2>1, <2>6, <2>7, <2>8, <2>10 DEF DecodeInv
<1>28. SliceInv'
  BY <1>1, <1>2 DEF SliceInv, ExactBytes
<1>29. QED
  BY <1>2, <1>24, <1>25, <1>26, <1>27, <1>28 DEF IInv

\* What the trace says does not depend on the readers.
LEMMA TraceInvKept ==
  ASSUME TraceInv, pc # "idle", pc # "encode", pc' # "encode",
         UNCHANGED <<cell, frames, script, trace, dec_contexts, enc>>
  PROVE  TraceInv'
<1>1. /\ \A n : Coder(n)' = Coder(n)
      /\ \A n : Following(n)' = Following(n)
      /\ \A n : StepInv(n)' = StepInv(n)
  BY TraceKept
<1>2. PICK total \in Nat : total = Len(trace)
  BY TraceType
<1>3. Following(Len(trace))' = Following(total)' /\ Coder(Len(trace))' = Coder(total)'
  BY <1>2 DEF Following, PlaceAfter, Coder, StatesFrom, References
<1>4. enc = Coder(total) /\ Following(total) = Place(Len(script) + 1, 1)
  BY <1>2 DEF TraceInv
<1>5. /\ trace \in Seq([symbol : Nat, decision : Nat, enc : EncoderStates])
      /\ \A n \in 1..Len(trace) : StepInv(n)
  BY DEF TraceInv
<1>6. QED
  BY <1>1, <1>3, <1>4, <1>5 DEF TraceInv

(***************************************************************************)
(* From one symbol to the next.                                            *)
(***************************************************************************)
LEMMA NextSymbolTrace ==
  ASSUME IInv, CoderInv', NextSymbol
  PROVE  IInv'
<1>1. /\ pc \in {"probe", "decode"} /\ pc # "idle" /\ pc # "encode"
      /\ Complete /\ next < ToRead /\ next' = next + 1
      /\ parse' = StartOfSymbol(script[next + 1].kind)
      /\ UNCHANGED <<golomb, cell, pc, frames, script, footer, slice, coded, trace, racs,
                     content_offset, enc_contexts, dec_contexts, enc, payload, dec>>
  BY DEF NextSymbol, Complete, streamVars, sliceVars
<1>2. CoderInv /\ HeaderInv /\ SyncInv /\ TraceInv /\ ContainedInv /\ DecodeInv /\ SliceInv
  BY DEF IInv
<1>3. Following(racs) = Place(next + 1, 1)
  BY <1>1, CompleteReads
<1>4. PICK following \in Nat : following = next + 1
  BY <1>1, <1>2, NextInScript
<1>5. following \in 1..Len(script)
  <2>1. /\ Len(script) \in Nat /\ HeaderLength \in Nat /\ HeaderLength <= Len(script)
        /\ next \in Nat \ {0}
    BY <1>1, <1>2, ScriptHolds DEF CoderInv, ScriptInv
  <2>2. ToRead <= Len(script) /\ ToRead \in Nat
    BY <2>1 DEF ToRead
  <2>3. QED
    BY <1>1, <1>4, <2>1, <2>2
<1>6. Len(Decisions(script[following])) \in Nat /\ Len(Decisions(script[following])) >= 1
  <2>1. /\ Decisions(script[following]) \in Seq(DecisionType)
        /\ Len(Decisions(script[following])) >= 1
    BY <1>1, <1>2, <1>5, ScriptHolds DEF CoderInv
  <2>2. QED
    BY <2>1
<1>7. /\ \A n : Coder(n)' = Coder(n)
      /\ \A n : Following(n)' = Following(n)
      /\ \A s, n : PlaceAfter(s, n)' = PlaceAfter(s, n)
      /\ \A n : IsHeader(n)' = IsHeader(n)
      /\ HeaderLength' = HeaderLength
  BY <1>1, TraceKept
<1>8. HeaderInv' /\ SyncInv'
  BY <1>1, <1>2, <1>7 DEF HeaderInv, SyncInv
<1>9. TraceInv'
  BY <1>1, <1>2, TraceInvKept
<1>10. ContainedInv'
  BY <1>1, <1>2, <1>7 DEF ContainedInv
<1>11. DecodeInv'
  <2>1. /\ racs \in 0..Len(trace) /\ (pc = "probe" => IsHeader(racs))
        /\ Follows(dec, Coder(racs), payload)
        /\ \A context \in ReadContexts : dec.states[context] = Coder(racs).states[context]
    BY <1>1, <1>2 DEF DecodeInv
  <2>2. PICK n \in Nat : n = racs
    BY <1>1, <1>2, TraceType DEF DecodeInv
  <2>3. /\ Coder(racs)' = Coder(racs) /\ Following(racs)' = Following(racs)
        /\ IsHeader(racs)' = IsHeader(racs)
    <3>1. /\ Coder(racs)' = Coder(n)' /\ Following(racs)' = Following(n)'
          /\ IsHeader(racs)' = IsHeader(n)'
      BY <1>1, <2>2 DEF Coder, Following, PlaceAfter, IsHeader, StatesFrom, References
    <3>2. QED
      BY <1>7, <2>2, <3>1
  <2>4. Following(racs)' = PlaceAfter(next, 0)'
    <3>1. PlaceAfter(following, 0) = Place(following, 1)
      <4>1. 0 < Len(Decisions(script[following])) /\ 0 + 1 = 1
        BY <1>6
      <4>2. QED
        BY <4>1 DEF PlaceAfter
    <3>2. PlaceAfter(next, 0)' = PlaceAfter(following, 0)'
      BY <1>1, <1>4 DEF PlaceAfter
    <3>3. QED
      BY <1>3, <1>4, <1>7, <2>3, <3>1, <3>2
  <2>5. parse' = ParseAfter(script'[next'], 0)
    BY <1>1 DEF ParseAfter
  <2>6. 0 \in 0..Len(Decisions(script'[next']))
    <3>1. 0 \in 0..Len(Decisions(script[following]))
      BY <1>6
    <3>2. QED
      BY <1>1, <1>4, <3>1
  <2>7. ReadContexts' = ReadContexts
    BY <1>1 DEF ReadContexts
  <2>8. QED
    BY <1>1, <2>1, <2>3, <2>4, <2>5, <2>6, <2>7 DEF DecodeInv
<1>12. SliceInv'
  BY <1>1, <1>2 DEF SliceInv, ExactBytes
<1>13. QED
  BY <1>8, <1>9, <1>10, <1>11, <1>12 DEF IInv

(***************************************************************************)
(* The end of the header.  The gap is zero behind the exact bytes of a     *)
(* Golomb-Rice header, so nothing is taken for read ahead.                 *)
(***************************************************************************)
LEMMA BodyPosition ==
  ASSUME IInv, pc = "probe", golomb, Complete, next = HeaderLength
  PROVE  ContentPosition = Len(ExactBytes)
<1>1. CoderInv /\ HeaderInv /\ SliceInv /\ DecodeInv
  BY DEF IInv
<1>2. Coder(racs) = enc /\ Follows(dec, Coder(racs), payload)
  <2>1. next = Len(script)
    BY <1>1 DEF HeaderInv
  <2>2. QED
    BY <1>1, <2>1, AllRead DEF DecodeInv
<1>3. PICK body \in Bodies : slice = ExactBytes \o body
  BY <1>1 DEF SliceInv
<1>4. enc \in EncoderStates /\ payload = slice \o footer /\ footer \in Seq(Byte)
  BY <1>1 DEF CoderInv, TypeOK, SliceInv
<1>5. body \in Seq(Byte) /\ ExactBytes \in Seq(Byte) /\ body \o footer \in Seq(Byte)
  <2>1. body \in Seq(Byte)
    BY SliceAssumption
  <2>2. ExactBytes \in Seq(Byte)
    BY <1>4 DEF ExactBytes, EncoderStates
  <2>3. QED
    BY <1>4, <2>1, <2>2, Concatenation
<1> DEFINE low == enc.low_bytes
           more == body \o footer
<1>6. payload = ExactBytes \o more
  <2>1. (ExactBytes \o body) \o footer = ExactBytes \o (body \o footer)
    BY <1>4, <1>5, ConcatAssociative
  <2>2. QED
    BY <1>3, <1>4, <2>1
<1> HIDE DEF more
<1>7. more \in Seq(Byte)
  BY <1>5 DEF more
<1>8. Gap(payload, low) = 0 /\ Len(low) <= Len(payload)
  BY <1>4, <1>6, <1>7, ExactGap
<1>9. /\ dec.low = Gap(payload, low)
      /\ dec.byte_position = AtMost(Len(low), Len(payload))
  BY <1>2 DEF Follows
<1>10. Len(low) \in Nat /\ Len(payload) \in Nat
  BY <1>1, <1>4 DEF CoderInv, ReaderInv, EncoderStates
<1>11. dec.byte_position = Len(low)
  BY <1>8, <1>9, <1>10 DEF AtMost
<1>12. dec.low % 256 = 0
  <2>1. dec.low = 0
    BY <1>8, <1>9
  <2>2. 0 % 256 = 0
    OBVIOUS
  <2>3. QED
    BY <2>1, <2>2
<1>13. QED
  BY <1>11, <1>12 DEF ContentPosition, ExactBytes

LEMMA HeaderReadTrace ==
  ASSUME IInv, CoderInv', HeaderRead
  PROVE  IInv'
<1>1. /\ pc = "probe" /\ pc # "idle" /\ pc # "encode" /\ Complete /\ next = HeaderLength
      /\ content_offset' = ContentPosition
      /\ UNCHANGED <<golomb, cell, frames, script, footer, slice, coded, trace,
                     enc_contexts, dec_contexts, enc>>
  BY DEF HeaderRead, Complete, streamVars, sliceVars
<1>2. CoderInv /\ HeaderInv /\ SyncInv /\ TraceInv /\ ContainedInv /\ DecodeInv /\ SliceInv
  BY DEF IInv
<1>3. /\ \A n : Coder(n)' = Coder(n)
      /\ \A n : Following(n)' = Following(n)
      /\ \A s, n : PlaceAfter(s, n)' = PlaceAfter(s, n)
      /\ \A n : IsHeader(n)' = IsHeader(n)
      /\ HeaderLength' = HeaderLength
  BY <1>1, TraceKept
<1>4. pc' \in {"refused", "body", "decode"} /\ pc' # "encode" /\ pc' # "idle"
  BY DEF HeaderRead
<1>5. HeaderInv'
  BY <1>1, <1>2, <1>3 DEF HeaderInv
<1>6. TraceInv'
  BY <1>1, <1>2, <1>4, TraceInvKept
<1>7. SyncInv'
  BY <1>1, <1>2, <1>4 DEF SyncInv
<1>8. CASE pc' = "refused"
  <2>1. ContainedInv' /\ DecodeInv'
    BY <1>8 DEF ContainedInv, DecodeInv
  <2>2. SliceInv'
    BY <1>1, <1>2, <1>8 DEF SliceInv
  <2>3. QED
    BY <1>5, <1>6, <1>7, <2>1, <2>2 DEF IInv
<1>9. CASE pc' = "body" /\ golomb
  <2>1. ContainedInv' /\ DecodeInv'
    BY <1>9 DEF ContainedInv, DecodeInv
  <2>2. content_offset' = Len(ExactBytes)
    BY <1>1, <1>9, BodyPosition
  <2>3. ExactBytes' = ExactBytes
    BY <1>1 DEF ExactBytes
  <2>4. SliceInv'
    BY <1>1, <1>2, <1>9, <2>2, <2>3 DEF SliceInv
  <2>5. QED
    BY <1>5, <1>6, <1>7, <2>1, <2>4 DEF IInv
<1>10. CASE /\ pc' = "decode" /\ ~golomb /\ payload' = slice
            /\ dec' = DecoderReset(slice, StatesFrom(References))
            /\ parse' = StartOfSymbol(script[1].kind)
            /\ next' = 1 /\ racs' = 0
  <2>1. Len(trace) \in Nat /\ 0 \in 0..Len(trace)
    BY <1>1, <1>2, TraceType
  <2>2. \A n \in 0..Len(trace) : Contains(Coder(n), slice)
    BY <1>1, <1>2 DEF ContainedInv
  <2>3. slice \in Seq(Byte) /\ Len(slice) >= 2 /\ References \in ReferenceType
    BY <1>1, <1>2, StartCoder DEF CoderInv, ReaderInv
  <2>4. /\ Follows(DecoderReset(slice, StatesFrom(References)), Coder(0), slice)
        /\ StartOfSymbol(script[1].kind) = ParseAfter(script[1], 0)
        /\ Following(0) = PlaceAfter(1, 0)
        /\ 0 \in 0..Len(Decisions(script[1]))
        /\ \A context \in Contexts :
             DecoderReset(slice, StatesFrom(References)).states[context]
               = Coder(0).states[context]
    BY <1>1, <1>2, <2>1, <2>2, <2>3, StartFollows
  <2>5. ContainedInv'
    BY <1>1, <1>3, <1>10, <2>2 DEF ContainedInv
  <2>6. DecodeInv'
    <3>1. Coder(racs)' = Coder(0) /\ Following(racs)' = Following(0)
      <4>1. Coder(racs)' = Coder(0)' /\ Following(racs)' = Following(0)'
        BY <1>10 DEF Coder, Following, PlaceAfter, StatesFrom, References
      <4>2. QED
        BY <1>3, <4>1
    <3>2. /\ parse' = ParseAfter(script'[next'], 0)
          /\ Following(racs)' = PlaceAfter(next, 0)'
          /\ 0 \in 0..Len(Decisions(script'[next']))
      <4>1. PlaceAfter(next, 0)' = PlaceAfter(1, 0)'
        BY <1>10 DEF PlaceAfter
      <4>2. QED
        BY <1>1, <1>3, <1>10, <2>4, <3>1, <4>1
    <3>3. racs' \in 0..Len(trace')
      BY <1>1, <1>10, <2>1
    <3>4. Follows(dec', Coder(racs)', payload')
      BY <1>10, <2>4, <3>1
    <3>5. \A context \in ReadContexts' : dec'.states[context] = Coder(racs)'.states[context]
      <4>1. ReadContexts' = Contexts
        BY <1>10 DEF ReadContexts
      <4>2. QED
        BY <1>10, <2>4, <3>1, <4>1
    <3>6. QED
      BY <1>10, <3>2, <3>3, <3>4, <3>5 DEF DecodeInv
  <2>7. SliceInv'
    BY <1>1, <1>2, <1>10 DEF SliceInv
  <2>8. QED
    BY <1>5, <1>6, <1>7, <2>5, <2>6, <2>7 DEF IInv
<1>11. \/ pc' = "refused"
       \/ pc' = "body" /\ golomb
       \/ /\ pc' = "decode" /\ ~golomb /\ payload' = slice
          /\ dec' = DecoderReset(slice, StatesFrom(References))
          /\ parse' = StartOfSymbol(script[1].kind)
          /\ next' = 1 /\ racs' = 0
  BY DEF HeaderRead
<1>12. QED
  BY <1>8, <1>9, <1>10, <1>11

(***************************************************************************)
(* The end of the slice: both ends have the contexts of its last decision. *)
(***************************************************************************)
LEMMA SliceReadTrace ==
  ASSUME IInv, CoderInv', SliceRead
  PROVE  IInv'
<1>1. /\ pc' = "idle"
      /\ UNCHANGED <<golomb, cell, frames, script, footer, slice, enc_contexts>>
      /\ \/ /\ pc = "decode" /\ Complete /\ next = Len(script)
            /\ dec_contexts' = dec.states["content"]
         \/ pc = "body" /\ dec_contexts' = dec_contexts
  BY DEF SliceRead, Complete, streamVars, sliceVars
<1>2. CoderInv /\ HeaderInv /\ SyncInv /\ TraceInv /\ DecodeInv /\ SliceInv
  BY DEF IInv
<1>3. CASE /\ pc = "decode" /\ Complete /\ next = Len(script)
           /\ dec_contexts' = dec.states["content"]
  <2>1. Coder(racs) = enc
    BY <1>3, AllRead
  <2>2. dec.states["content"] = Coder(racs).states["content"]
    <3>1. "content" \in ReadContexts
      BY <1>3, SliceAssumption DEF ReadContexts
    <3>2. QED
      BY <1>2, <1>3, <3>1 DEF DecodeInv
  <2>3. enc_contexts = enc.states["content"]
    BY <1>2, <1>3 DEF SliceInv, SyncInv
  <2>4. QED
    BY <1>1, <1>2, <1>3, <2>1, <2>2, <2>3
       DEF IInv, HeaderInv, SyncInv, TraceInv, ContainedInv, DecodeInv, SliceInv, HeaderLength,
           HeaderValues, First
<1>4. CASE pc = "body" /\ dec_contexts' = dec_contexts
  <2>1. dec_contexts' = enc_contexts'
    BY <1>1, <1>2, <1>4 DEF SyncInv, SliceInv
  <2>2. QED
    BY <1>1, <1>2, <2>1
       DEF IInv, HeaderInv, SyncInv, TraceInv, ContainedInv, DecodeInv, SliceInv, HeaderLength,
           HeaderValues, First
<1>5. QED
  BY <1>1, <1>3, <1>4

\* Every step keeps the invariant.
LEMMA TraceInvariance == IInv /\ [Next]_vars => IInv'
<1> SUFFICES ASSUME IInv, [Next]_vars
             PROVE  IInv'
  OBVIOUS
<1>0. CoderInv /\ CoderInv'
  BY Invariance DEF IInv
<1>1. CASE \E keyframe \in BOOLEAN, samples \in SampleSeqs : EncodeSlice(keyframe, samples)
  BY <1>0, <1>1, EncodeSliceTrace
<1>2. CASE WriteDecision
  BY <1>0, <1>2, WriteDecisionTrace
<1>3. CASE \E body \in Bodies, check \in Checks : FinishSlice(body, check)
  BY <1>0, <1>3, FinishSliceTrace
<1>4. CASE ReadDecision
  BY <1>0, <1>4, ReadDecisionTrace
<1>5. CASE NextSymbol
  BY <1>0, <1>5, NextSymbolTrace
<1>6. CASE HeaderRead
  BY <1>0, <1>6, HeaderReadTrace
<1>7. CASE SliceRead
  BY <1>0, <1>7, SliceReadTrace
<1>8. CASE UNCHANGED vars
  <2>1. UNCHANGED <<golomb, cell, pc, frames, script, footer, slice, next, coded, trace, racs,
                    content_offset, enc_contexts, dec_contexts, enc, payload, dec, parse>>
    BY <1>8 DEF vars, streamVars, sliceVars
  <2>2. /\ HeaderLength' = HeaderLength
        /\ \A n : Coder(n)' = Coder(n)
        /\ \A n : Following(n)' = Following(n)
        /\ \A s, n : PlaceAfter(s, n)' = PlaceAfter(s, n)
        /\ \A n : IsHeader(n)' = IsHeader(n)
        /\ \A n : StepInv(n)' = StepInv(n)
    BY <2>1, TraceKept
  <2>3. HeaderInv' /\ SyncInv'
    BY <2>1, <2>2 DEF IInv, HeaderInv, SyncInv
  <2>4. TraceInv'
    <3>1. Coder(Len(trace))' = Coder(Len(trace)) /\ Following(Len(trace))' = Following(Len(trace))
      BY <2>1 DEF Coder, Following, PlaceAfter, StatesFrom, References
    <3>2. QED
      BY <2>1, <2>2, <3>1 DEF IInv, TraceInv
  <2>5. ContainedInv'
    BY <2>1, <2>2 DEF IInv, ContainedInv
  <2>6. DecodeInv'
    <3>1. /\ Coder(racs)' = Coder(racs) /\ Following(racs)' = Following(racs)
          /\ IsHeader(racs)' = IsHeader(racs) /\ ReadContexts' = ReadContexts
          /\ \A i : PlaceAfter(next, i)' = PlaceAfter(next, i)
      BY <2>1, <2>2 DEF Coder, Following, PlaceAfter, IsHeader, ReadContexts, StatesFrom,
                        References
    <3>2. QED
      BY <2>1, <3>1 DEF IInv, DecodeInv
  <2>7. SliceInv'
    BY <2>1 DEF IInv, SliceInv, ExactBytes
  <2>8. QED
    BY <1>0, <2>3, <2>4, <2>5, <2>6, <2>7 DEF IInv
<1>9. QED
  BY <1>1, <1>2, <1>3, <1>4, <1>5, <1>6, <1>7, <1>8 DEF Next

(***************************************************************************)
(* Each symbol of a header or of a slice is read as it was written: with   *)
(* zeros behind a closed slice (finalize_closed, refill past the end) and  *)
(* with the footer or a Golomb-Rice body behind a header.                  *)
(***************************************************************************)
THEOREM SymbolsReadBack == Spec => []RoundTrip
<1>1. IInv => RoundTrip
  BY CompleteReads DEF RoundTrip
<1>2. QED
  BY <1>1, InitialTrace, TraceInvariance, PTL DEF Spec

(***************************************************************************)
(* After each decision the range decoder has the interval and the adaptive *)
(* states of the encoder after the same decision, and what is left of the  *)
(* payload lies in that interval (read_rac and write_rac).                 *)
(***************************************************************************)
THEOREM CodersInLockstep == Spec => []Lockstep
<1>1. ASSUME IInv
      PROVE  Lockstep
  <2> SUFFICES ASSUME pc \in {"probe", "decode"}, racs > 0
               PROVE  /\ dec.range = trace[racs].enc.range /\ dec.low < dec.range
                      /\ \A context \in ReadContexts :
                           dec.states[context] = trace[racs].enc.states[context]
    BY DEF Lockstep
  <2>1. CoderInv /\ TraceInv /\ ContainedInv /\ DecodeInv /\ pc # "idle"
    BY <1>1 DEF IInv
  <2>2. /\ racs \in 0..Len(trace) /\ (pc = "probe" => IsHeader(racs))
        /\ Follows(dec, Coder(racs), payload)
        /\ \A context \in ReadContexts : dec.states[context] = Coder(racs).states[context]
    BY <2>1 DEF DecodeInv
  <2>3. Coder(racs) = trace[racs].enc
    <3>1. racs # 0
      OBVIOUS
    <3>2. QED
      BY <3>1 DEF Coder
  <2>4. Contains(Coder(racs), payload)
    BY <2>1, <2>2 DEF ContainedInv
  <2>5. dec.range = Coder(racs).range /\ dec.low < Coder(racs).range
    BY <2>2, <2>4 DEF Follows, Contains
  <2>6. QED
    BY <2>2, <2>3, <2>5
<1>2. QED
  BY <1>1, InitialTrace, TraceInvariance, PTL DEF Spec

(***************************************************************************)
(* Between two frames both ends keep the same contexts for the slice       *)
(* (capture_range_contexts of SliceEncoder and of SliceDecoder).           *)
(***************************************************************************)
THEOREM ContextsAgree == Spec => []SameContexts
<1>1. IInv => SameContexts
  BY DEF IInv, SyncInv, SameContexts
<1>2. QED
  BY <1>1, InitialTrace, TraceInvariance, PTL DEF Spec

(***************************************************************************)
(* The header reader stops exactly where the encoder put the Golomb-Rice   *)
(* body, whatever the body and the footer are (finalize, read ahead and    *)
(* golomb_rice_content_byte_position).                                     *)
(***************************************************************************)
THEOREM BodyLocated == Spec => []BodyFound
<1>1. ASSUME IInv, pc = "body"
      PROVE  SubSeq(slice, 1, content_offset) = ExactBytes
  <2>1. PICK body \in Bodies : slice = ExactBytes \o body
    BY <1>1 DEF IInv, SliceInv
  <2>2. content_offset = Len(ExactBytes)
    BY <1>1 DEF IInv, SliceInv
  <2>3. ExactBytes \in Seq(Byte) /\ body \in Seq(Byte)
    BY <1>1, SliceAssumption DEF IInv, CoderInv, TypeOK, ExactBytes, EncoderStates
  <2>4. SubSeq(ExactBytes \o body, 1, Len(ExactBytes)) = ExactBytes
    <3> HIDE DEF ExactBytes
    <3>1. QED
      BY <2>3
  <2>5. QED
    BY <2>1, <2>2, <2>4
<1>2. QED
  BY <1>1, InitialTrace, TraceInvariance, PTL DEF Spec, BodyFound
=============================================================================
