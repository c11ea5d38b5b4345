-------------------------- MODULE SliceSamplesProofs --------------------------
(***************************************************************************)
(* Proofs about SliceSamples and GolombRiceAdaptation, for every stream,   *)
(* image, table, depth and length of a GOP.  First the adaptive contexts:  *)
(* their bounds are inductive and the decoder adapts as the encoder does.  *)
(* Then a slice: behind the coded slice there is a trace of the encoder,   *)
(* node after node, and the decoder, which reads the same bits in other    *)
(* steps, is always at a node of it or inside the run that leads to the    *)
(* next one.  Last, for any bits, the ledger of the samples of runs.       *)
(***************************************************************************)
EXTENDS SliceSamples, GolombRiceAdaptation, SequenceTheorems, FiniteSetTheorems,
        FunctionTheorems, WellFoundedInduction, TLAPS

-----------------------------------------------------------------------------
(***************************************************************************)
(* Adaptive contexts.                                                      *)
(***************************************************************************)
\* A nonempty set of numbers has a least one (derive_k counts up to it).
LEMMA LeastElement ==
  ASSUME NEW S \in SUBSET Nat, S # {}
  PROVE  \E least \in S : \A n \in S : least <= n
<1>1. PICK least \in S : \A n \in S : ~ (<<n, least>> \in OpToRel(<, Nat))
  BY NatLessThanWellFounded, WFMin
<1>2. ASSUME NEW n \in S, n < least
      PROVE  FALSE
  <2>1. <<n, least>> \in Nat \X Nat /\ <<n, least>>[1] < <<n, least>>[2]
    BY <1>2
  <2> QED BY <1>1, <2>1, Zenon DEF OpToRel
<1> QED BY <1>2

\* Division with remainder (the wrap of sign_extend, golomb_rice_context.cpp:49).
LEMMA Remainder ==
  ASSUME NEW r \in Nat, r > 0, NEW a \in Int
  PROVE  /\ a % r \in 0..(r - 1)
         /\ a \div r \in Int
         /\ a = r * (a \div r) + (a % r)
  OBVIOUS

LEMMA OneRemainder ==
  ASSUME NEW r \in Nat, r > 0, NEW d \in Int,
         NEW m \in 0..(r - 1), NEW n \in 0..(r - 1), r * d = m - n
  PROVE  m = n
<1>1. CASE d >= 1
  <2>1. r * d >= r BY <1>1
  <2> QED BY <2>1
<1>2. CASE d <= -1
  <2>1. r * d <= -r BY <1>2
  <2> QED BY <2>1
<1>3. CASE d = 0
  <2>1. r * d = 0 BY <1>3
  <2> QED BY <2>1
<1> QED BY <1>1, <1>2, <1>3

\* Adding a multiple of the range leaves the remainder as it is.
LEMMA SameRemainder ==
  ASSUME NEW r \in Nat, r > 0, NEW a \in Int, NEW q \in Int
  PROVE  (a + r * q) % r = a % r
<1> DEFINE m == a % r
           n == (a + r * q) % r
           s == a \div r
           t == (a + r * q) \div r
<1>1. a + r * q \in Int
  OBVIOUS
<1>2. m \in 0..(r - 1) /\ s \in Int /\ a = r * s + m
  BY Remainder
<1>3. n \in 0..(r - 1) /\ t \in Int /\ a + r * q = r * t + n
  BY <1>1, Remainder
<1> HIDE DEF m, n, s, t
<1>4. r * (t - s - q) = r * t - r * s - r * q
  BY <1>2, <1>3
<1>5. r * (t - s - q) = m - n
  BY <1>2, <1>3, <1>4
<1>6. m = n
  BY <1>2, <1>3, <1>5, OneRemainder, t - s - q \in Int
<1> QED BY <1>6 DEF m, n

\* A number of the range is its own remainder.
LEMMA SmallRemainder ==
  ASSUME NEW r \in Nat, r > 0, NEW a \in 0..(r - 1)
  PROVE  a % r = a
  OBVIOUS

LEMMA PowerPositive ==
  ASSUME NEW k \in Parameters
  PROVE  2^k \in Nat /\ 2^k > 0
<1> DEFINE P(j) == 2^j \in Nat /\ 2^j > 0
<1>1. P(0) /\ P(1) /\ P(2) /\ P(3) /\ P(4) /\ P(5) /\ P(6) /\ P(7)
  OBVIOUS
<1>2. P(8) /\ P(9) /\ P(10) /\ P(11) /\ P(12) /\ P(13) /\ P(14) /\ P(15)
  OBVIOUS
<1>3. P(16) /\ P(17) /\ P(18) /\ P(19) /\ P(20) /\ P(21) /\ P(22) /\ P(23)
  OBVIOUS
<1>4. P(24) /\ P(25) /\ P(26) /\ P(27) /\ P(28) /\ P(29) /\ P(30) /\ P(31)
  OBVIOUS
<1> HIDE DEF P
<1>5. \/ k \in 0..7 \/ k \in 8..15 \/ k \in 16..23 \/ k \in 24..31
  BY DEF Parameters
<1>6. P(k)
  <2>1. CASE k \in 0..7
    BY <1>1, <2>1
  <2>2. CASE k \in 8..15
    BY <1>2, <2>2
  <2>3. CASE k \in 16..23
    BY <1>3, <2>3
  <2>4. CASE k \in 24..31
    BY <1>4, <2>4
  <2> QED BY <1>5, <2>1, <2>2, <2>3, <2>4
<1> QED BY <1>6 DEF P
-----------------------------------------------------------------------------
\* The adaptive context.

\* The width of a sign range, and of the field that holds it.
Depth(half, bits) ==
  /\ bits \in 1..17 /\ half \in Nat /\ half > 0 /\ half <= 65536
  /\ 2^bits = 2 * half

LEMMA HalfType ==
  ASSUME NEW half, NEW bits, Depth(half, bits)
  PROVE  half \in Nat /\ half > 0 /\ half <= 65536 /\ 2 * half \in Nat /\ 2 * half > 0
  BY DEF Depth

\* The parts of a context in bounds, without its record.
LEMMA BoundsParts ==
  ASSUME NEW half, NEW bits, Depth(half, bits), NEW c, InBounds(c, half)
  PROVE  /\ c.drift \in Int /\ c.error_sum \in Nat /\ c.bias \in Int /\ c.count \in Int
         /\ -128 <= c.bias /\ c.bias <= 127 /\ 1 <= c.count /\ c.count <= 128
         /\ -c.count < c.drift /\ c.drift <= 0
         /\ c.error_sum <= half * c.count + 4
  BY DEF InBounds, ContextState, MaxCount

LEMMA NewContextBounds ==
  ASSUME NEW half, NEW bits, Depth(half, bits)
  PROVE  InBounds(NewContext, half)
  BY HalfType DEF NewContext, InBounds, ContextState, MaxCount

\* A context in bounds has a parameter of at most 31 bits (derive_k,
\* golomb_rice_context.cpp:29).
LEMMA ParameterExists ==
  ASSUME NEW half, NEW bits, Depth(half, bits), NEW c, InBounds(c, half)
  PROVE  ~Refused(c) /\ DeriveK(c) \in Parameters
<1> DEFINE candidates == {k \in Parameters : Suffices(c, k)}
<1>1. Suffices(c, 31)
  <2>1. half * c.count <= 65536 * 128
    <3>1. half * c.count <= half * 128 BY BoundsParts, HalfType
    <3> QED BY <3>1, BoundsParts, HalfType
  <2>2. c.error_sum <= 2147483648 * c.count
    BY <2>1, BoundsParts, HalfType
  <2>3. 2^31 = 2147483648
    OBVIOUS
  <2> QED BY <2>2, <2>3, BoundsParts DEF Suffices
<1>2. 31 \in candidates /\ candidates \in SUBSET Nat
  BY <1>1 DEF Parameters
<1>3. PICK least \in candidates : \A k \in candidates : least <= k
  BY <1>2, LeastElement
<1>4. \A smaller \in 0..(least - 1) : ~Suffices(c, smaller)
  BY <1>3 DEF Parameters
<1>5. DeriveK(c) \in Parameters
  BY <1>3, <1>4 DEF DeriveK
<1>6. ~Refused(c)
  BY <1>1, BoundsParts DEF Refused, MaxCount, Parameters
<1> QED BY <1>5, <1>6

\* The steps of update_state on the parts of a context.
LEMMA HalvedParts ==
  ASSUME NEW d \in Int, NEW e \in Int, NEW b, NEW n \in Nat,
         NEW c, c = [drift |-> d, error_sum |-> e, bias |-> b, count |-> n]
  PROVE  /\ n = 128 => Halved(c) = [drift |-> d \div 2, error_sum |-> e \div 2,
                                    bias |-> b, count |-> 64]
         /\ n # 128 => Halved(c) = c
<1>1. c.drift = d /\ c.error_sum = e /\ c.count = n
  OBVIOUS
<1>2. CASE n = 128
  <2>1. Halved(c) = [c EXCEPT !.count = n \div 2, !.drift = d \div 2,
                              !.error_sum = e \div 2]
    BY <1>1, <1>2 DEF Halved, MaxCount
  <2>2. Halved(c) = [drift |-> d \div 2, error_sum |-> e \div 2, bias |-> b,
                     count |-> n \div 2]
    BY <2>1
  <2>3. n \div 2 = 64
    BY <1>2
  <2> QED BY <1>2, <2>2, <2>3
<1>3. CASE n # 128
  BY <1>1, <1>3 DEF Halved, MaxCount
<1> QED BY <1>2, <1>3

LEMMA RebalancedParts ==
  ASSUME NEW d \in Int, NEW e, NEW b \in Int, NEW n \in Nat,
         NEW c, c = [drift |-> d, error_sum |-> e, bias |-> b, count |-> n]
  PROVE  /\ d <= -n => Rebalanced(c) = [drift |-> AtLeast(d + n, 1 - n), error_sum |-> e,
                                        bias |-> AtLeast(b - 1, -128), count |-> n]
         /\ d > 0 => Rebalanced(c) = [drift |-> AtMost(d - n, 0), error_sum |-> e,
                                      bias |-> AtMost(b + 1, 127), count |-> n]
         /\ -n < d /\ d <= 0 => Rebalanced(c) = c
<1>1. c.drift = d /\ c.bias = b /\ c.count = n
  OBVIOUS
<1>2. CASE d <= -n
  <2>1. Rebalanced(c) = [c EXCEPT !.bias = AtLeast(b - 1, -128),
                                  !.drift = AtLeast(d + n, 1 - n)]
    BY <1>1, <1>2 DEF Rebalanced
  <2>2. ~(d > 0) /\ ~(-n < d)
    BY <1>2
  <2> QED BY <2>1, <2>2
<1>3. CASE d > 0
  <2>1. ~(d <= -n) /\ ~(d <= 0)
    BY <1>3
  <2>2. Rebalanced(c) = [c EXCEPT !.bias = AtMost(b + 1, 127), !.drift = AtMost(d - n, 0)]
    BY <1>1, <1>3, <2>1 DEF Rebalanced
  <2> QED BY <2>1, <2>2
<1>4. CASE -n < d /\ d <= 0
  <2>1. ~(d <= -n) /\ ~(d > 0)
    BY <1>4
  <2> QED BY <1>1, <1>4, <2>1 DEF Rebalanced
<1> QED BY <1>2, <1>3, <1>4

\* update_state keeps the bounds (golomb_rice_context.cpp:58).
LEMMA UpdateBounds ==
  ASSUME NEW half, NEW bits, Depth(half, bits), NEW c, InBounds(c, half), NEW v \in -half..half
  PROVE  InBounds(UpdateState(c, v), half)
<1> DEFINE summed == [c EXCEPT !.error_sum = @ + Absolute(v), !.drift = @ + v]
           counted == [Halved(summed) EXCEPT !.count = @ + 1]
<1>0. /\ c.drift \in Int /\ c.error_sum \in Nat /\ c.bias \in Int /\ c.count \in Nat
      /\ -128 <= c.bias /\ c.bias <= 127 /\ 1 <= c.count /\ c.count <= 128
      /\ -c.count < c.drift /\ c.drift <= 0
      /\ c.error_sum <= half * c.count + 4
  BY BoundsParts
<1>1. PICK f \in Int, g \in Nat :
        /\ summed = [drift |-> f, error_sum |-> g, bias |-> c.bias, count |-> c.count]
        /\ g <= half * c.count + 4 + half
  <2> DEFINE f == c.drift + v
             g == c.error_sum + Absolute(v)
  <2>1. summed = [drift |-> f, error_sum |-> g, bias |-> c.bias, count |-> c.count]
    <3>1. c \in [drift : Int, error_sum : Nat, bias : -128..127, count : 1..MaxCount]
      BY DEF InBounds, ContextState
    <3>2. PICK d \in Int, e \in Nat, b \in -128..127, n \in 1..MaxCount :
            c = [drift |-> d, error_sum |-> e, bias |-> b, count |-> n]
      BY <3>1
    <3>3. c.drift = d /\ c.error_sum = e /\ c.bias = b /\ c.count = n
      BY <3>2
    <3>4. summed = [c EXCEPT !.error_sum = g, !.drift = f]
      OBVIOUS
    <3> HIDE DEF summed, f, g
    <3> QED BY <3>2, <3>3, <3>4
  <2>2. Absolute(v) \in Nat /\ Absolute(v) <= half
    BY HalfType DEF Absolute
  <2>3. f \in Int /\ g \in Nat /\ g <= half * c.count + 4 + half
    BY <1>0, <2>2, HalfType
  <2> HIDE DEF f, g, summed
  <2> QED BY <2>1, <2>3
<1> HIDE DEF summed
<1>2. \E d \in Int, e \in Nat, n \in 2..128 :
         /\ counted = [drift |-> d, error_sum |-> e, bias |-> c.bias, count |-> n]
         /\ e <= half * n + 4
  <2>1. CASE c.count = 128
    <3>1. Halved(summed) = [drift |-> f \div 2, error_sum |-> g \div 2, bias |-> c.bias,
                            count |-> 64]
      BY <1>0, <1>1, <2>1, HalvedParts
    <3>2. counted = [drift |-> f \div 2, error_sum |-> g \div 2, bias |-> c.bias,
                     count |-> 65]
      BY <3>1
    <3>3. g <= half * 129 + 4
      BY <1>0, <1>1, <2>1, HalfType
    <3>4. g \div 2 <= half * 65 + 4 /\ g \div 2 \in Nat /\ f \div 2 \in Int
      BY <1>1, <3>3, HalfType
    <3>5. 65 \in 2..128
      OBVIOUS
    <3> HIDE DEF counted
    <3> WITNESS f \div 2 \in Int, g \div 2 \in Nat, 65 \in 2..128
    <3> QED BY <3>2, <3>4
  <2>2. CASE c.count # 128
    <3>1. Halved(summed) = summed
      BY <1>0, <1>1, <2>2 DEF Halved, MaxCount
    <3>2. counted = [drift |-> f, error_sum |-> g, bias |-> c.bias, count |-> c.count + 1]
      BY <1>1, <3>1
    <3>3. half * (c.count + 1) = half * c.count + half
      BY <1>0, HalfType
    <3>5. c.count + 1 \in 2..128
      BY <1>0, <2>2
    <3>4. g <= half * (c.count + 1) + 4
      BY <1>0, <1>1, <2>2, <3>3, HalfType
    <3> HIDE DEF counted
    <3> QED BY <1>1, <3>2, <3>4, <3>5
  <2> QED BY <2>1, <2>2
<1> HIDE DEF counted
<1>3. PICK d \in Int, e \in Nat, n \in 2..128 :
         /\ counted = [drift |-> d, error_sum |-> e, bias |-> c.bias, count |-> n]
         /\ e <= half * n + 4
  BY <1>2
<1>4. \E r \in Int, b \in -128..127 :
         /\ Rebalanced(counted) = [drift |-> r, error_sum |-> e, bias |-> b, count |-> n]
         /\ -n < r /\ r <= 0
  <2>1. c.bias \in Int /\ -128 <= c.bias /\ c.bias <= 127 /\ n \in Nat /\ n >= 2
    BY <1>0
  <2>5. /\ d <= -n => Rebalanced(counted) =
                       [drift |-> AtLeast(d + n, 1 - n), error_sum |-> e,
                        bias |-> AtLeast(c.bias - 1, -128), count |-> n]
        /\ d > 0 => Rebalanced(counted) =
                       [drift |-> AtMost(d - n, 0), error_sum |-> e,
                        bias |-> AtMost(c.bias + 1, 127), count |-> n]
        /\ -n < d /\ d <= 0 => Rebalanced(counted) = counted
    BY <1>3, <2>1, RebalancedParts
  <2>2. CASE d <= -n
    <3> DEFINE r == AtLeast(d + n, 1 - n)
               s == AtLeast(c.bias - 1, -128)
    <3>1. Rebalanced(counted) = [drift |-> r, error_sum |-> e, bias |-> s, count |-> n]
      BY <2>2, <2>5
    <3>2. r \in Int /\ s \in -128..127 /\ -n < r /\ r <= 0
      BY <2>1, <2>2 DEF AtLeast
    <3> HIDE DEF r, s
    <3> QED BY <3>1, <3>2
  <2>3. CASE d > 0
    <3> DEFINE r == AtMost(d - n, 0)
               s == AtMost(c.bias + 1, 127)
    <3>1. Rebalanced(counted) = [drift |-> r, error_sum |-> e, bias |-> s, count |-> n]
      BY <2>3, <2>5
    <3>2. r \in Int /\ s \in -128..127 /\ -n < r /\ r <= 0
      BY <2>1, <2>3 DEF AtMost
    <3> HIDE DEF r, s
    <3> QED BY <3>1, <3>2
  <2>4. CASE -n < d /\ d <= 0
    <3>1. Rebalanced(counted) = counted
      BY <2>4, <2>5
    <3>2. d \in Int /\ c.bias \in -128..127
      BY <2>1
    <3> QED BY <1>3, <2>4, <3>1, <3>2
  <2> QED BY <2>2, <2>3, <2>4
<1>5. InBounds(Rebalanced(counted), half)
  BY <1>3, <1>4 DEF InBounds, ContextState, MaxCount
<1> QED BY <1>5 DEF UpdateState, counted, summed
-----------------------------------------------------------------------------
\* Codewords and symbols.

LEMMA SignExtendRange ==
  ASSUME NEW half, NEW bits, Depth(half, bits), NEW v \in Int
  PROVE  SignExtend(v, half) \in -half..(half - 1)
<1>1. (v + half) % (2 * half) \in 0..(2 * half - 1)
  BY HalfType, Remainder
<1> QED BY <1>1, HalfType DEF SignExtend

\* sign_extend of a number of the range is the number, and in general congruent to it.
LEMMA SignExtendCongruent ==
  ASSUME NEW half, NEW bits, Depth(half, bits), NEW v \in Int
  PROVE  /\ \E q \in Int : SignExtend(v, half) = v + 2 * half * q
         /\ v \in -half..(half - 1) => SignExtend(v, half) = v
<1>1. /\ (v + half) \div (2 * half) \in Int
      /\ (v + half) % (2 * half) \in 0..(2 * half - 1)
      /\ v + half = 2 * half * ((v + half) \div (2 * half)) + ((v + half) % (2 * half))
  BY HalfType, Remainder, SMTT(30)
<1>2. \E q \in Int : SignExtend(v, half) = v + 2 * half * q
  <2> DEFINE s == (v + half) \div (2 * half)
             m == (v + half) % (2 * half)
  <2>1. s \in Int /\ m \in Int /\ v + half = 2 * half * s + m /\ SignExtend(v, half) = m - half
    BY <1>1 DEF SignExtend
  <2> HIDE DEF s, m
  <2>2. 2 * half * (-s) = -(2 * half * s)
    BY <2>1, HalfType
  <2>3. SignExtend(v, half) = v + 2 * half * (-s)
    BY <2>1, <2>2, HalfType
  <2> QED BY <2>1, <2>3
<1>3. v \in -half..(half - 1) => SignExtend(v, half) = v
  BY HalfType, SmallRemainder DEF SignExtend
<1> QED BY <1>2, <1>3

\* sign_extend does not see a multiple of the range.
LEMMA SignExtendPeriod ==
  ASSUME NEW half, NEW bits, Depth(half, bits), NEW v \in Int, NEW q \in Int
  PROVE  SignExtend(v + 2 * half * q, half) = SignExtend(v, half)
<1>1. (v + half + 2 * half * q) % (2 * half) = (v + half) % (2 * half)
  <2> DEFINE r == 2 * half
  <2>1. r \in Nat /\ r > 0 /\ v + half \in Int
    BY HalfType
  <2> HIDE DEF r
  <2>2. (v + half + r * q) % r = (v + half) % r
    BY <2>1, SameRemainder
  <2> QED BY <2>2 DEF r
<1>2. v + 2 * half * q + half = v + half + 2 * half * q
  <2>1. 2 * half * q \in Int
    BY HalfType
  <2> QED BY <2>1, HalfType
<1> QED BY <1>1, <1>2 DEF SignExtend

LEMMA FoldUnfold ==
  ASSUME NEW half, NEW bits, Depth(half, bits), NEW v \in -half..(half - 1)
  PROVE  Fold(v) \in 0..(2 * half - 1) /\ Unfold(Fold(v)) = v
<1>1. CASE v < 0
  BY <1>1, HalfType DEF Fold, Unfold
<1>2. CASE v >= 0
  BY <1>2, HalfType DEF Fold, Unfold
<1> QED BY <1>1, <1>2, HalfType

\* A codeword fits its field and is read back (write_unsigned and read_unsigned).
LEMMA CodewordRead ==
  ASSUME NEW half, NEW bits, Depth(half, bits), NEW f \in 0..(2 * half - 1), NEW k \in Parameters
  PROVE  /\ Fits(UnsignedCode(f, k, bits))
         /\ UnsignedValue(UnsignedCode(f, k, bits), k) = f
<1> DEFINE P == 2^k
<1>1. P \in Nat /\ P > 0 /\ f \in Nat
  BY PowerPositive, HalfType
<1>2. /\ f % P \in 0..(P - 1) /\ f \div P \in Int /\ f = P * (f \div P) + (f % P)
  BY <1>1, Remainder
<1> DEFINE q == f \div P
           m == f % P
<1>3. CASE f < EscapePrefix * P
  <2>1. UnsignedCode(f, k, bits) = [zeros |-> q, width |-> k, field |-> m]
    BY <1>3 DEF UnsignedCode
  <2>2. q < EscapePrefix
    <3> HIDE DEF P, q, m
    <3>1. ASSUME q >= 12 PROVE FALSE
      <4>1. q \in Int /\ m >= 0 /\ f = P * q + m
        BY <1>2 DEF q, m
      <4>2. P * q >= P * 12
        BY <1>1, <3>1, <4>1
      <4>3. m \in Int
        BY <1>1, <1>2 DEF m
      <4> QED BY <1>1, <1>3, <4>1, <4>2, <4>3 DEF EscapePrefix
    <3>2. q \in Int
      BY <1>2 DEF q
    <3> QED BY <3>1, <3>2 DEF EscapePrefix
  <2>3. Fits(UnsignedCode(f, k, bits))
    <3>1. 0 <= m /\ m < P
      BY <1>1, <1>2
    <3> QED BY <2>1, <3>1 DEF Fits
  <2>4. UnsignedValue(UnsignedCode(f, k, bits), k) = q * P + m
    BY <2>1, <2>2 DEF UnsignedValue
  <2> QED
    <3>1. q * P + m = f
      <4> HIDE DEF P
      <4> QED BY <1>1, <1>2
    <3> QED BY <2>3, <2>4, <3>1
<1>4. CASE ~(f < EscapePrefix * P)
  <2>1. UnsignedCode(f, k, bits) =
          [zeros |-> EscapePrefix, width |-> bits, field |-> f - (EscapePrefix - 1)]
    BY <1>4 DEF UnsignedCode
  <2>2. 12 <= f
    <3> HIDE DEF P
    <3> QED BY <1>1, <1>4 DEF EscapePrefix
  <2>3. 2^bits = 2 * half
    BY DEF Depth
  <2>4. Fits(UnsignedCode(f, k, bits))
    <3>1. 0 <= f - 11 /\ f - 11 < 2 * half
      BY <2>2, HalfType
    <3> QED BY <2>1, <2>3, <3>1 DEF Fits, EscapePrefix
  <2>5. UnsignedValue(UnsignedCode(f, k, bits), k) = f
    BY <1>1, <2>1 DEF UnsignedValue, EscapePrefix
  <2> QED BY <2>4, <2>5
<1> QED BY <1>3, <1>4

\* What the writer codes, for any context in bounds.
LEMMA WrittenSymbol ==
  ASSUME NEW half, NEW bits, Depth(half, bits), NEW c, InBounds(c, half), NEW v \in -half..half
  PROVE  LET w == WriteSymbol(c, v, half, bits)
             a == Adaptive(c, v, half)
         IN /\ a \in -half..(half - 1)
            /\ Inverted(c, a) \in -half..(half - 1)
            /\ Inverted(c, Inverted(c, a)) = a
            /\ Fits(w.code)
            /\ w.context = UpdateState(c, a)
            /\ Unfold(UnsignedValue(w.code, DeriveK(c))) = Inverted(c, a)
<1> DEFINE w == WriteSymbol(c, v, half, bits)
           a == Adaptive(c, v, half)
           i == Inverted(c, a)
<1>1. v - c.bias \in Int
  BY BoundsParts, HalfType
<1>2. a \in -half..(half - 1)
  BY <1>1, SignExtendRange DEF Adaptive
<1> HIDE DEF a
<1>3. i \in -half..(half - 1) /\ Inverted(c, i) = a
  BY <1>2, HalfType DEF Inverted
<1>4. w.code = UnsignedCode(Fold(i), DeriveK(c), bits) /\ w.context = UpdateState(c, a)
  BY DEF WriteSymbol, a
<1> HIDE DEF i, w
<1>5. Fold(i) \in 0..(2 * half - 1) /\ Unfold(Fold(i)) = i
  BY <1>3, FoldUnfold
<1>6. DeriveK(c) \in Parameters
  BY ParameterExists
<1>7. Fits(w.code) /\ UnsignedValue(w.code, DeriveK(c)) = Fold(i)
  BY <1>4, <1>5, <1>6, CodewordRead
<1> QED BY <1>2, <1>3, <1>4, <1>5, <1>7 DEF a, i, w

\* The reader with the same context: the same next context, and the difference up to a
\* multiple of the range.
LEMMA SymbolRead ==
  ASSUME NEW half, NEW bits, Depth(half, bits), NEW c, InBounds(c, half), NEW v \in -half..half
  PROVE  LET w == WriteSymbol(c, v, half, bits)
             r == ReadSymbol(c, w.code, half)
         IN /\ r.context = w.context
            /\ InBounds(w.context, half)
            /\ r.value = SignExtend(v, half)
<1> DEFINE w == WriteSymbol(c, v, half, bits)
           r == ReadSymbol(c, w.code, half)
           a == Adaptive(c, v, half)
<1>1. /\ a \in -half..(half - 1)
      /\ Inverted(c, Unfold(UnsignedValue(w.code, DeriveK(c)))) = a
      /\ w.context = UpdateState(c, a)
  BY WrittenSymbol
<1>2. r.context = UpdateState(c, a) /\ r.value = SignExtend(a + c.bias, half)
  BY <1>1 DEF ReadSymbol
<1>3. InBounds(UpdateState(c, a), half)
  BY <1>1, HalfType, UpdateBounds
<1>4. SignExtend(a + c.bias, half) = SignExtend(v, half)
  <2>1. v \in Int /\ c.bias \in Int /\ v - c.bias \in Int
    BY BoundsParts, HalfType
  <2>2. PICK q \in Int : a = v - c.bias + 2 * half * q
    BY <2>1, SignExtendCongruent DEF Adaptive
  <2>3. a + c.bias = v + 2 * half * q
    <3>1. 2 * half * q \in Int
      BY HalfType
    <3> HIDE DEF a
    <3> QED BY <2>1, <2>2, <3>1
  <2> QED BY <2>1, <2>3, SignExtendPeriod
<1> QED BY <1>1, <1>2, <1>3, <1>4

\* The difference as the reader returns it, with the mapping behind a run.
LEMMA DifferenceRead ==
  ASSUME NEW half, NEW bits, Depth(half, bits), 
         NEW d, d.interrupts \in BOOLEAN, d.value \in -half..half, d.interrupts => d.value # 0
  PROVE  /\ Mapped(d) \in -half..half
         /\ Unmapped(d, SignExtend(Mapped(d), half)) \in Int
         /\ (Unmapped(d, SignExtend(Mapped(d), half)) - d.value) % (2 * half) = 0
<1>1. d.value \in -half..half /\ (d.interrupts => d.value # 0) /\ d.interrupts \in BOOLEAN
  OBVIOUS
<1>2. 0 % (2 * half) = 0
  BY HalfType
<1>3. CASE d.interrupts
  <2>1. Mapped(d) \in -half..(half - 1)
    BY <1>1, <1>3, HalfType DEF Mapped, ToInterruption
  <2>2. SignExtend(Mapped(d), half) = Mapped(d)
    BY <2>1, SignExtendCongruent, HalfType
  <2>3. Unmapped(d, Mapped(d)) = d.value
    BY <1>1, <1>3, HalfType DEF Mapped, Unmapped, ToInterruption, FromInterruption
  <2> QED BY <1>1, <1>2, <2>1, <2>2, <2>3, HalfType
<1>4. CASE ~d.interrupts
  <2>1. Mapped(d) = d.value
    BY <1>4 DEF Mapped
  <2>7. Unmapped(d, SignExtend(d.value, half)) = SignExtend(d.value, half)
    BY <1>4 DEF Unmapped
  <2>2. PICK q \in Int : SignExtend(d.value, half) = d.value + 2 * half * q
    <3>1. d.value \in Int
      BY <1>1, HalfType
    <3>2. \A v \in Int : \E q \in Int : SignExtend(v, half) = v + 2 * half * q
      BY SignExtendCongruent
    <3> QED BY <3>1, <3>2
  <2>3. 2 * half * q \in Int
    BY HalfType
  <2>4. SignExtend(d.value, half) - d.value = 0 + 2 * half * q
    BY <1>1, <2>2, <2>3
  <2>5. (0 + 2 * half * q) % (2 * half) = 0
    <3> DEFINE r == 2 * half
    <3>1. r \in Nat /\ r > 0
      BY HalfType
    <3> HIDE DEF r
    <3>2. (0 + r * q) % r = 0 % r /\ 0 % r = 0
      BY <3>1, SameRemainder
    <3> QED BY <3>2 DEF r
  <2>6. SignExtend(d.value, half) \in Int
    BY <1>1, <2>2, <2>3
  <2> QED BY <1>1, <2>1, <2>4, <2>5, <2>6, <2>7
<1> QED BY <1>1, <1>3, <1>4
-----------------------------------------------------------------------------
\* The inductive invariant: between a write and its read, the codeword and the encoder's
\* context are what write_golomb_rice_symbol makes of the decoder's context.
Written ==
  turn = "read" =>
    LET w == WriteSymbol(decoder, Mapped(Difference(symbols - 1)), Half, Bits)
    IN symbols > 0 /\ codeword = w.code /\ encoder = w.context

AdaptationInv == ContextsInBounds /\ SymbolsRead /\ Written

LEMMA AdaptationDepth == Depth(Half, Bits)
  BY AdaptationAssumption DEF Depth

LEMMA DifferenceType ==
  ASSUME content \in Contents, NEW n \in Nat
  PROVE  /\ Difference(n).interrupts \in BOOLEAN /\ Difference(n).value \in -Half..Half
         /\ Difference(n).interrupts => Difference(n).value # 0
<1>1. content \in Seq(Differences) /\ content # <<>>
  BY AdaptationAssumption
<1>2. Len(content) \in Nat /\ Len(content) > 0
  BY <1>1
<1>3. n % Len(content) \in 0..(Len(content) - 1)
  BY <1>2, Remainder
<1>4. (n % Len(content)) + 1 \in 1..Len(content)
  BY <1>2, <1>3
<1> QED BY <1>1, <1>4 DEF Difference, Differences

LEMMA AdaptationInitial == InitAdaptation => AdaptationInv
<1> SUFFICES ASSUME InitAdaptation PROVE AdaptationInv
  OBVIOUS
<1>1. ContextsInBounds
  BY AdaptationDepth, NewContextBounds DEF InitAdaptation, ContextsInBounds
<1>2. SymbolsRead /\ Written
  BY DEF InitAdaptation, SymbolsRead, Written
<1> QED BY <1>1, <1>2 DEF AdaptationInv

LEMMA AdaptationInductive == AdaptationInv /\ [NextAdaptation]_adaptationVars => AdaptationInv'
<1> SUFFICES ASSUME AdaptationInv, [NextAdaptation]_adaptationVars PROVE AdaptationInv'
  OBVIOUS
<1> USE DEF AdaptationInv
<1>1. CASE Write
  <2> DEFINE d == Difference(symbols)
             w == WriteSymbol(encoder, Mapped(d), Half, Bits)
  <2>1. d.interrupts \in BOOLEAN /\ d.value \in -Half..Half
        /\ (d.interrupts => d.value # 0) /\ symbols \in Nat /\ decoder = encoder /\ InBounds(decoder, Half)
    BY <1>1, DifferenceType DEF Write, ContextsInBounds, SymbolsRead
  <2>2. InBounds(w.context, Half)
    BY <2>1, AdaptationDepth, DifferenceRead, SymbolRead
  <2>3. /\ content' = content /\ symbols' = symbols + 1 /\ turn' = "read" /\ encoder' = w.context
        /\ codeword' = w.code /\ decoder' = decoder /\ received' = received
    BY <1>1 DEF Write
  <2>4. ContextsInBounds'
    BY <2>1, <2>2, <2>3 DEF ContextsInBounds
  <2>5. Written'
    <3>1. symbols' - 1 = symbols /\ symbols' > 0
      BY <2>1, <2>3
    <3>2. (Difference(symbols - 1))' = d
      BY <2>3, <3>1 DEF Difference
    <3> QED BY <2>1, <2>3, <3>1, <3>2 DEF Written, Mapped
  <2> QED BY <2>3, <2>4, <2>5 DEF SymbolsRead
<1>2. CASE Read
  <2> DEFINE d == Difference(symbols - 1)
             w == WriteSymbol(decoder, Mapped(d), Half, Bits)
             r == ReadSymbol(decoder, codeword, Half)
  <2>1. symbols > 0 /\ symbols - 1 \in Nat /\ codeword = w.code /\ encoder = w.context
    BY <1>2 DEF Read, Written, ContextsInBounds
  <2>2. d.interrupts \in BOOLEAN /\ d.value \in -Half..Half
        /\ (d.interrupts => d.value # 0) /\ InBounds(decoder, Half)
    BY <2>1, DifferenceType DEF ContextsInBounds
  <2>3. r.context = encoder /\ r.value = SignExtend(Mapped(d), Half)
    BY <2>1, <2>2, AdaptationDepth, DifferenceRead, SymbolRead
  <2>4. /\ content' = content /\ symbols' = symbols /\ turn' = "write" /\ encoder' = encoder
        /\ decoder' = r.context /\ received' = Unmapped(d, r.value)
    BY <1>2 DEF Read
  <2>5. received' \in Int /\ (received' - d.value) % (2 * Half) = 0
    BY <2>2, <2>3, <2>4, AdaptationDepth, DifferenceRead
  <2>6. ContextsInBounds'
    BY <2>3, <2>4, <2>5 DEF ContextsInBounds
  <2>7. SymbolsRead'
    <3>1. (Difference(symbols - 1))' = d
      BY <2>4 DEF Difference
    <3> QED BY <2>3, <2>4, <2>5, <3>1 DEF SymbolsRead
  <2> QED BY <2>4, <2>6, <2>7 DEF Written
<1>3. CASE UNCHANGED adaptationVars
  BY <1>3 DEF adaptationVars, ContextsInBounds, SymbolsRead, Written, Difference, Mapped
<1> QED BY <1>1, <1>2, <1>3 DEF NextAdaptation

LEMMA AdaptationInvariant == SpecAdaptation => []AdaptationInv
  BY AdaptationInitial, AdaptationInductive, PTL DEF SpecAdaptation

\* Of every context of every slice: its drift, bias, count and error sum stay in the
\* bounds that update_state means to keep, whatever differences are symbols.
THEOREM ContextBounds == SpecAdaptation => []ContextsInBounds
<1>1. AdaptationInv => ContextsInBounds
  BY DEF AdaptationInv
<1> QED BY AdaptationInvariant, <1>1, PTL

\* Both ends keep equal contexts, and the decoder reads the difference up to a multiple of
\* the sample range, for every sample depth from 1 to 16 bits and RGB.
THEOREM SymbolsAreRead == SpecAdaptation => []SymbolsRead
<1>1. AdaptationInv => SymbolsRead
  BY DEF AdaptationInv
<1> QED BY AdaptationInvariant, <1>1, PTL

\* derive_k always ends below 32 and the escape field holds every folded difference: the
\* error returns of golomb_rice_context.cpp and golomb_rice_writer.cpp are not reached.
THEOREM NothingRefused == SpecAdaptation => []NeverRefused
<1>1. AdaptationInv => NeverRefused
  <2> SUFFICES ASSUME AdaptationInv PROVE NeverRefused
    OBVIOUS
  <2>1. InBounds(encoder, Half) /\ InBounds(decoder, Half) /\ content \in Contents /\ symbols \in Nat
    BY DEF AdaptationInv, ContextsInBounds
  <2>2. ~Refused(encoder) /\ ~Refused(decoder)
    BY <2>1, AdaptationDepth, ParameterExists
  <2>3. Mapped(Difference(symbols)) \in -Half..Half
    BY <2>1, AdaptationDepth, DifferenceType, DifferenceRead
  <2>4. Fits(WriteSymbol(encoder, Mapped(Difference(symbols)), Half, Bits).code)
    BY <2>1, <2>3, AdaptationDepth, WrittenSymbol
  <2> QED BY <2>2, <2>4 DEF NeverRefused
<1> QED BY AdaptationInvariant, <1>1, PTL

-----------------------------------------------------------------------------
(***************************************************************************)
(* Numbers as bits, and bits as numbers.                                   *)
(***************************************************************************)
\* Induction, over the members of a set.
LEMMA SetInduction ==
  ASSUME NEW S, 0 \in S, \A n \in Nat : n \in S => n + 1 \in S
  PROVE  Nat \subseteq S
<1> SUFFICES ASSUME Nat \ S # {}
             PROVE  FALSE
  OBVIOUS
<1>1. PICK least \in Nat \ S : \A n \in Nat \ S : least <= n
  BY LeastElement
<1>2. least # 0
  OBVIOUS
<1>3. least - 1 \in Nat /\ least - 1 \in S
  BY <1>1, <1>2
<1>4. QED
  BY <1>1, <1>3

Iterates(f, T, base, step, n) ==
  /\ f \in [0..n -> T]
  /\ f[0] = base
  /\ \A i \in 1..n : f[i] = step[<<i, f[i - 1]>>]

LEMMA IterationExists ==
  ASSUME NEW T, NEW base \in T, NEW step \in [Nat \X T -> T], NEW n \in Nat
  PROVE  \E f : Iterates(f, T, base, step, n)
<1> DEFINE S == {m \in Nat : \E f : Iterates(f, T, base, step, m)}
<1>1. 0 \in S
  <2> DEFINE f == [i \in 0..0 |-> base]
  <2>1. Iterates(f, T, base, step, 0)
    BY DEF Iterates
  <2>2. QED
    BY <2>1
<1>2. ASSUME NEW m \in Nat, m \in S
      PROVE  m + 1 \in S
  <2>1. PICK g : Iterates(g, T, base, step, m)
    BY <1>2
  <2> DEFINE top == step[<<m + 1, g[m]>>]
             h == [i \in 0..(m + 1) |-> IF i = m + 1 THEN top ELSE g[i]]
  <2>2. /\ g \in [0..m -> T] /\ g[0] = base
        /\ \A i \in 1..m : g[i] = step[<<i, g[i - 1]>>]
    BY <2>1 DEF Iterates
  <2>3. top \in T
    <3>1. g[m] \in T /\ m + 1 \in Nat
      BY <2>2
    <3>2. QED
      BY <3>1
  <2>4. \A i \in 0..m : h[i] = g[i]
    OBVIOUS
  <2>5. h[m + 1] = top
    OBVIOUS
  <2>6. h \in [0..(m + 1) -> T] /\ h[0] = base
    <3> HIDE DEF top
    <3>1. QED
      BY <2>2, <2>3
  <2> HIDE DEF h
  <2>7. ASSUME NEW i \in 1..(m + 1)
        PROVE  h[i] = step[<<i, h[i - 1]>>]
    <3>1. CASE i = m + 1
      <4>1. i - 1 = m /\ m \in 0..m
        BY <3>1
      <4>2. QED
        BY <2>4, <2>5, <3>1, <4>1
    <3>2. CASE i # m + 1
      <4>1. i \in 1..m /\ i \in 0..m /\ i - 1 \in 0..m
        BY <3>2
      <4>2. QED
        BY <2>2, <2>4, <4>1
    <3>3. QED
      BY <3>1, <3>2
  <2>8. Iterates(h, T, base, step, m + 1)
    BY <2>6, <2>7 DEF Iterates
  <2>9. QED
    BY <2>8
<1> HIDE DEF S
<1>3. n \in S
  BY <1>1, <1>2, SetInduction
<1>4. QED
  BY <1>3 DEF S

(***************************************************************************)
(* Bits.                                                                   *)
(***************************************************************************)
LEMMA PowerDouble ==
  ASSUME NEW k \in 0..30
  PROVE  2^(k + 1) = 2 * 2^k
<1> DEFINE P(j) == 2^(j + 1) = 2 * 2^j
<1>1. P(0) /\ P(1) /\ P(2) /\ P(3) /\ P(4) /\ P(5) /\ P(6) /\ P(7)
  OBVIOUS
<1>2. P(8) /\ P(9) /\ P(10) /\ P(11) /\ P(12) /\ P(13) /\ P(14) /\ P(15)
  OBVIOUS
<1>3. P(16) /\ P(17) /\ P(18) /\ P(19) /\ P(20) /\ P(21) /\ P(22) /\ P(23)
  OBVIOUS
<1>4. P(24) /\ P(25) /\ P(26) /\ P(27) /\ P(28) /\ P(29) /\ P(30)
  OBVIOUS
<1> HIDE DEF P
<1>5. \/ k \in 0..7 \/ k \in 8..15 \/ k \in 16..23 \/ k \in 24..30
  OBVIOUS
<1>6. P(k)
  <2>1. CASE k \in 0..7
    BY <1>1, <2>1
  <2>2. CASE k \in 8..15
    BY <1>2, <2>2
  <2>3. CASE k \in 16..23
    BY <1>3, <2>3
  <2>4. CASE k \in 24..30
    BY <1>4, <2>4
  <2>5. QED
    BY <1>5, <2>1, <2>2, <2>3, <2>4
<1>7. QED
  BY <1>6 DEF P

\* The bits above a place are those above the next one and its bit.
LEMMA NextBit ==
  ASSUME NEW P \in Nat, P > 0, NEW v \in Nat
  PROVE  /\ v \div P \in Nat
         /\ v \div P = 2 * (v \div (2 * P)) + ((v \div P) % 2)
<1> DEFINE q == v \div P
           r == v % P
           a == q \div 2
           b == q % 2
           c == v \div (2 * P)
           d == v % (2 * P)
<1>1. q \in Int /\ r \in 0..(P - 1) /\ v = P * q + r
  BY Remainder
<1>2. a \in Int /\ b \in 0..1 /\ q = 2 * a + b
  BY <1>1
<1>3. c \in Int /\ d \in 0..(2 * P - 1) /\ v = 2 * P * c + d
  <2>1. 2 * P \in Nat /\ 2 * P > 0
    OBVIOUS
  <2>2. QED
    BY <2>1, Remainder
<1> HIDE DEF q, r, a, b, c, d
<1>4. q >= 0
  <2> SUFFICES ASSUME q <= -1
               PROVE  FALSE
    BY <1>1
  <2>1. P * q <= P * (-1)
    BY <1>1
  <2>2. P * q \in Int
    BY <1>1
  <2>3. QED
    BY <1>1, <2>1, <2>2
<1>5. P * b + r \in 0..(2 * P - 1)
  <2>1. b = 0 => P * b = 0
    OBVIOUS
  <2>2. b = 1 => P * b = P
    OBVIOUS
  <2>3. QED
    BY <1>1, <1>2, <2>1, <2>2
<1>6. v = 2 * P * a + (P * b + r)
  <2>1. P * q = 2 * P * a + P * b
    BY <1>2
  <2>2. P * q \in Int /\ 2 * P * a \in Int /\ P * b \in Int
    BY <1>1, <1>2
  <2>3. QED
    BY <1>1, <2>1, <2>2
<1>7. a = c
  <2> DEFINE R == 2 * P
             e == P * b + r
  <2>1. R \in Nat /\ R > 0
    OBVIOUS
  <2>2. e \in 0..(R - 1) /\ v = R * a + e /\ v = R * c + d /\ d \in 0..(R - 1)
    BY <1>3, <1>5, <1>6
  <2> HIDE DEF R, e
  <2>3. R * (a - c) = R * a - R * c
    BY <1>2, <1>3, <2>1
  <2>4. R * (a - c) = d - e
    <3>1. R * a \in Int /\ R * c \in Int
      BY <1>2, <1>3, <2>1
    <3>2. QED
      BY <2>1, <2>2, <2>3, <3>1
  <2>5. a >= c + 1 => R * (a - c) >= R
    BY <1>2, <1>3, <2>1
  <2>6. a <= c - 1 => R * (a - c) <= -R
    BY <1>2, <1>3, <2>1
  <2>7. QED
    BY <1>2, <1>3, <2>1, <2>2, <2>4, <2>5, <2>6
<1>8. QED
  <2>1. q \in Nat /\ q = 2 * c + b
    BY <1>1, <1>2, <1>4, <1>7
  <2>2. q \in Nat /\ q = 2 * c + (q % 2)
    BY <2>1 DEF b
  <2>3. QED
    BY <2>2, Zenon DEF q, c

LEMMA BitsOfType ==
  ASSUME NEW v \in Int, NEW w \in Nat
  PROVE  BitsOf(v, w) \in Seq({0, 1}) /\ Len(BitsOf(v, w)) = w
<1>1. ASSUME NEW i \in 1..w
      PROVE  (v \div 2^(w - i)) % 2 \in {0, 1}
  OBVIOUS
<1>2. QED
  BY <1>1 DEF BitsOf

\* read_bits, bit by bit.
ReadsBits(h, bits, place, width) ==
  \A k \in 0..width : h[k] = IF k = 0 THEN 0 ELSE 2 * h[k - 1] + bits[place + k]

LEMMA BitsAtUnfold ==
  ASSUME NEW bits, NEW place \in Nat, NEW width \in Nat,
         \A k \in 1..width : bits[place + k] \in {0, 1}
  PROVE  \E h : ReadsBits(h, bits, place, width) /\ BitsAt(bits, place, width) = h[width]
<1> DEFINE F(value) == [k \in 0..width |-> IF k = 0 THEN 0
                                           ELSE 2 * value[k - 1] + bits[place + k]]
           h == CHOOSE value : value = F(value)
           D == 1..width
           step == [w \in Nat \X Nat |->
                      2 * w[2] + (IF w[1] \in D THEN bits[place + w[1]] ELSE 0)]
<1>2. BitsAt(bits, place, width) = h[width]
  BY DEF BitsAt
<1>3. step \in [Nat \X Nat -> Nat]
  <2> HIDE DEF D
  <2>1. \A k \in D : bits[place + k] \in Nat
    BY DEF D
  <2>2. \A w \in Nat \X Nat : 2 * w[2] + (IF w[1] \in D THEN bits[place + w[1]] ELSE 0) \in Nat
    BY <2>1
  <2>3. QED
    BY <2>2
<1>4. PICK g : Iterates(g, Nat, 0, step, width)
  <2> HIDE DEF step
  <2>1. QED
    BY <1>3, IterationExists
<1>5. \A k \in D : g[k] = 2 * g[k - 1] + bits[place + k]
  <2> SUFFICES ASSUME NEW k \in D
               PROVE  g[k] = 2 * g[k - 1] + bits[place + k]
    OBVIOUS
  <2>1. g[k - 1] \in Nat /\ g[k] = step[<<k, g[k - 1]>>] /\ k \in Nat
    <3> HIDE DEF step
    <3>1. k - 1 \in 0..width /\ k \in 1..width /\ k \in Nat
      OBVIOUS
    <3>2. QED
      BY <1>4, <3>1 DEF Iterates
  <2>2. QED
    BY <2>1
<1>6. g \in [0..width -> Nat] /\ g[0] = 0
  BY <1>4 DEF Iterates
<1>7. g = F(g)
  <2>1. ASSUME NEW k \in 0..width
        PROVE  g[k] = IF k = 0 THEN 0 ELSE 2 * g[k - 1] + bits[place + k]
    <3>1. k # 0 => k \in D
      OBVIOUS
    <3>2. QED
      BY <1>5, <1>6, <3>1
  <2>2. QED
    BY <1>6, <2>1
<1>8. h = F(h)
  BY <1>7
<1> HIDE DEF h
<1>9. ReadsBits(h, bits, place, width)
  BY <1>8 DEF ReadsBits
<1>10. QED
  BY <1>2, <1>9

LEMMA BitsAtType ==
  ASSUME NEW bits, NEW place \in Nat, NEW width \in Nat,
         \A k \in 1..width : bits[place + k] \in {0, 1}
  PROVE  BitsAt(bits, place, width) \in Nat
<1>1. PICK h : ReadsBits(h, bits, place, width) /\ BitsAt(bits, place, width) = h[width]
  BY BitsAtUnfold
<1> DEFINE S == {n \in Nat : n <= width => h[n] \in Nat}
<1>2. 0 \in S
  BY <1>1 DEF ReadsBits
<1>3. ASSUME NEW n \in Nat, n \in S
      PROVE  n + 1 \in S
  <2> SUFFICES ASSUME n + 1 <= width
               PROVE  h[n + 1] \in Nat
    OBVIOUS
  <2>1. h[n] \in Nat /\ n + 1 \in 0..width /\ n + 1 # 0 /\ (n + 1) - 1 = n /\ n + 1 \in 1..width
    BY <1>3
  <2>2. h[n + 1] = 2 * h[n] + bits[place + (n + 1)]
    BY <1>1, <2>1 DEF ReadsBits
  <2>3. QED
    BY <2>1, <2>2
<1> HIDE DEF S
<1>4. width \in S
  BY <1>2, <1>3, SetInduction
<1>5. QED
  BY <1>1, <1>4 DEF S

\* What write_bits wrote, read_bits reads.
LEMMA BitsRead ==
  ASSUME NEW bits, NEW place \in Nat, NEW width \in Parameters, NEW v \in Nat, v < 2^width,
         \A k \in 1..width : bits[place + k] = BitsOf(v, width)[k]
  PROVE  BitsAt(bits, place, width) = v
<1>0. width \in Nat
  BY DEF Parameters
<1>1. \A k \in 1..width : bits[place + k] = (v \div 2^(width - k)) % 2
  BY <1>0 DEF BitsOf
<1>2. \A k \in 1..width : bits[place + k] \in {0, 1}
  <2>1. BitsOf(v, width) \in Seq({0, 1}) /\ Len(BitsOf(v, width)) = width
    BY <1>0, BitsOfType
  <2>2. QED
    BY <2>1
<1>3. PICK h : ReadsBits(h, bits, place, width) /\ BitsAt(bits, place, width) = h[width]
  BY <1>0, <1>2, BitsAtUnfold
<1> DEFINE S == {n \in Nat : n <= width => h[n] = v \div 2^(width - n)}
<1>4. 0 \in S
  <2>1. width - 0 = width /\ h[0] = 0
    BY <1>0, <1>3 DEF ReadsBits
  <2>2. v \div 2^width = 0
    <3> DEFINE P == 2^width
    <3>1. P \in Nat /\ P > 0 /\ v < P
      BY PowerPositive
    <3> HIDE DEF P
    <3>2. v \div P = 0
      BY <3>1
    <3>3. QED
      BY <3>2 DEF P
  <2>3. QED
    BY <2>1, <2>2
<1>5. ASSUME NEW n \in Nat, n \in S
      PROVE  n + 1 \in S
  <2> SUFFICES ASSUME n + 1 <= width
               PROVE  h[n + 1] = v \div 2^(width - (n + 1))
    OBVIOUS
  <2> DEFINE e == width - (n + 1)
             P == 2^e
  <2>1. h[n] = v \div 2^(width - n)
    BY <1>0, <1>5
  <2>2. e \in 0..30 /\ e \in Parameters /\ width - n = e + 1 /\ n + 1 \in 1..width /\ n + 1 \in 0..width
        /\ n + 1 # 0 /\ (n + 1) - 1 = n
    BY <1>0 DEF Parameters
  <2> HIDE DEF S
  <2>3. h[n + 1] = 2 * h[n] + bits[place + (n + 1)]
    BY <1>3, <2>2 DEF ReadsBits
  <2>4. bits[place + (n + 1)] = (v \div P) % 2
    BY <1>1, <2>2
  <2> HIDE DEF e
  <2>5. 2^(width - n) = 2 * P /\ P \in Nat /\ P > 0
    BY <2>2, PowerDouble, PowerPositive
  <2> HIDE DEF P
  <2>6. v \div P = 2 * (v \div (2 * P)) + ((v \div P) % 2)
    BY <2>5, NextBit
  <2>7. h[n + 1] = v \div P
    BY <2>1, <2>3, <2>4, <2>5, <2>6
  <2>8. QED
    BY <2>7 DEF P, e
<1> HIDE DEF S
<1>6. width \in S
  BY <1>0, <1>4, <1>5, SetInduction
<1>7. h[width] = v \div 2^(width - width)
  BY <1>0, <1>6 DEF S
<1>8. width - width = 0 /\ 2^0 = 1 /\ v \div 1 = v
  BY <1>0
<1>9. QED
  BY <1>3, <1>7, <1>8

-----------------------------------------------------------------------------
(***************************************************************************)
(* A codeword among the bits is the codeword that was written.             *)
(***************************************************************************)
(***************************************************************************)
(* Codewords.                                                              *)
(***************************************************************************)
\* A number in the range of a set of numbers that has a least one.
LEMMA MinMeans ==
  ASSUME NEW A \in SUBSET Nat, A # {}
  PROVE  Min(A) \in A /\ \A n \in A : Min(A) <= n
<1>1. \E least \in A : \A n \in A : least <= n
  BY LeastElement
<1>2. QED
  BY <1>1 DEF Min

LEMMA ZerosFound ==
  ASSUME NEW bits, Len(bits) \in Nat, NEW place \in Nat, NEW z \in 0..12,
         \A j \in 1..z : bits[place + j] = 0,
         z < 12 => bits[place + z + 1] = 1 /\ place + z < Len(bits)
  PROVE  Zeros(bits, place) = z
<1> DEFINE ones == {n \in 0..(EscapePrefix - 1) :
                      place + n < Len(bits) /\ bits[place + n + 1] = 1}
<1>0. EscapePrefix = 12 /\ EscapePrefix - 1 = 11
  BY DEF EscapePrefix
<1>1. \A n \in ones : n >= z
  <2> SUFFICES ASSUME NEW n \in ones, n < z
               PROVE  FALSE
    BY <1>0
  <2>1. n + 1 \in 1..z /\ place + n + 1 = place + (n + 1)
    BY <1>0
  <2>2. bits[place + n + 1] = 0
    BY <2>1
  <2>3. QED
    BY <2>2
<1>2. CASE z < 12
  <2>1. z \in ones
    BY <1>0, <1>2
  <2>2. ones \in SUBSET Nat
    BY <1>0
  <2> HIDE DEF ones
  <2>3. Min(ones) \in ones /\ Min(ones) <= z
    BY <2>1, <2>2, MinMeans
  <2>4. Min(ones) = z
    <3>1. Min(ones) \in Nat /\ Min(ones) >= z
      BY <1>1, <2>2, <2>3
    <3>2. QED
      BY <2>3, <3>1
  <2>5. ones # {}
    BY <2>1
  <2>6. Zeros(bits, place) = IF ones = {} THEN EscapePrefix ELSE Min(ones)
    BY DEF Zeros, ones
  <2>7. QED
    BY <2>4, <2>5, <2>6
<1>3. CASE z = 12
  <2>1. ones = {}
    <3> SUFFICES ASSUME NEW n \in ones
                 PROVE  FALSE
      OBVIOUS
    <3>1. n \in 0..11
      BY <1>0
    <3>2. QED
      BY <1>1, <1>3, <3>1
  <2>2. Zeros(bits, place) = IF ones = {} THEN EscapePrefix ELSE Min(ones)
    BY DEF Zeros
  <2>3. QED
    BY <1>0, <1>3, <2>1, <2>2
<1>4. QED
  BY <1>2, <1>3

\* Bits that stand in a stream behind a place.
Holds(bits, place, piece) ==
  /\ place + Len(piece) <= Len(bits)
  /\ \A j \in 1..Len(piece) : bits[place + j] = piece[j]

IsCode(code) ==
  /\ code = [zeros |-> code.zeros, width |-> code.width, field |-> code.field]
  /\ code.zeros \in 0..12 /\ code.width \in Parameters
  /\ code.field \in Nat /\ code.field < 2^code.width

LEMMA Joined ==
  ASSUME NEW T, NEW a \in Seq(T), NEW b \in Seq(T)
  PROVE  /\ a \o b \in Seq(T) /\ Len(a) \in Nat /\ Len(b) \in Nat
         /\ Len(a \o b) = Len(a) + Len(b)
         /\ \A j \in 1..Len(a) : (a \o b)[j] = a[j]
         /\ \A j \in 1..Len(b) : (a \o b)[Len(a) + j] = b[j]
  OBVIOUS

LEMMA ParametersAreNumbers == \A k \in Parameters : k \in Nat
  BY DEF Parameters

LEMMA JoinedBits ==
  \A a, b \in Seq({0, 1}) :
    /\ a \o b \in Seq({0, 1})
    /\ Len(a \o b) = Len(a) + Len(b)
    /\ \A j \in 1..Len(a) : (a \o b)[j] = a[j]
    /\ \A j \in 1..Len(b) : (a \o b)[Len(a) + j] = b[j]
  BY Joined

LEMMA ZeroBits ==
  ASSUME NEW z \in 0..12
  PROVE  \A j \in 1..z : BitsOf(0, z)[j] = 0
<1> SUFFICES ASSUME NEW j \in 1..z
             PROVE  BitsOf(0, z)[j] = 0
  OBVIOUS
<1>1. BitsOf(0, z)[j] = (0 \div 2^(z - j)) % 2
  BY DEF BitsOf
<1>2. z - j \in Parameters
  BY DEF Parameters
<1> DEFINE P == 2^(z - j)
<1>3. P \in Nat /\ P > 0
  BY <1>2, PowerPositive
<1> HIDE DEF P
<1>4. 0 \div P = 0
  BY <1>3
<1>5. (0 \div P) % 2 = 0
  BY <1>4
<1>6. QED
  BY <1>1, <1>5, Zenon DEF P

\* How many bits stand before the field of a codeword.
Prefix(code) == IF code.zeros < 12 THEN code.zeros + 1 ELSE code.zeros

LEMMA CodeBitsParts ==
  ASSUME NEW code, IsCode(code)
  PROVE  /\ CodeBits(code) \in Seq({0, 1})
         /\ Len(CodeBits(code)) = Prefix(code) + code.width
         /\ \A j \in 1..code.zeros : CodeBits(code)[j] = 0
         /\ code.zeros < 12 => CodeBits(code)[code.zeros + 1] = 1
         /\ \A j \in 1..code.width :
              CodeBits(code)[Prefix(code) + j] = BitsOf(code.field, code.width)[j]
<1> DEFINE z == code.zeros
           w == code.width
           f == code.field
           first == BitsOf(0, z)
           second == IF z < EscapePrefix THEN <<1>> ELSE <<>>
           third == BitsOf(f, w)
           c == CodeBits(code)
<1>0. z \in 0..12 /\ z \in Nat /\ w \in Nat /\ f \in Int /\ EscapePrefix = 12
  BY DEF IsCode, Parameters, EscapePrefix
<1>4. c = first \o second \o third
  BY DEF CodeBits
<1>11. Prefix(code) = IF z < 12 THEN z + 1 ELSE z
  BY DEF Prefix
<1>2. /\ second \in Seq({0, 1})
      /\ z < 12 => Len(second) = 1 /\ second[1] = 1
      /\ ~(z < 12) => Len(second) = 0
  <2>1. CASE z < 12
    <3>1. second = <<1>>
      BY <1>0, <2>1
    <3> HIDE DEF second
    <3>2. QED
      BY <2>1, <3>1
  <2>2. CASE ~(z < 12)
    <3>1. second = <<>>
      BY <1>0, <2>2
    <3> HIDE DEF second
    <3>2. QED
      BY <2>2, <3>1
  <2>3. QED
    BY <2>1, <2>2
<1> HIDE DEF z, w, f, second, c
<1>1. first \in Seq({0, 1}) /\ Len(first) = z
  BY <1>0, BitsOfType
<1>3. third \in Seq({0, 1}) /\ Len(third) = w
  BY <1>0, BitsOfType
<1>5. \A j \in 1..z : first[j] = 0
  BY <1>0, ZeroBits
<1> DEFINE p == Prefix(code)
<1>12. z < 12 => p = z + 1
  BY <1>11
<1>13. ~(z < 12) => p = z
  BY <1>11
<1> HIDE DEF first, third, p
<1>6. /\ first \o second \in Seq({0, 1}) /\ Len(first \o second) = z + Len(second)
      /\ \A j \in 1..z : (first \o second)[j] = first[j]
      /\ \A j \in 1..Len(second) : (first \o second)[z + j] = second[j]
  <2>1. /\ first \o second \in Seq({0, 1})
        /\ Len(first \o second) = Len(first) + Len(second)
        /\ \A j \in 1..Len(first) : (first \o second)[j] = first[j]
        /\ \A j \in 1..Len(second) : (first \o second)[Len(first) + j] = second[j]
    BY <1>1, <1>2, JoinedBits
  <2>2. QED
    BY <1>1, <2>1
<1>7. Len(first \o second) = p
  BY <1>0, <1>2, <1>6, <1>12, <1>13
<1> DEFINE d == first \o second
<1>8. d \in Seq({0, 1}) /\ Len(d) = p /\ c = d \o third
  BY <1>4, <1>6, <1>7
<1>9. /\ \A j \in 1..z : d[j] = 0
      /\ z < 12 => d[z + 1] = 1
  <2>1. \A j \in 1..z : d[j] = 0
    BY <1>5, <1>6
  <2>2. z < 12 => d[z + 1] = 1
    <3> SUFFICES ASSUME z < 12
                 PROVE  d[z + 1] = 1
      OBVIOUS
    <3>1. 1 \in 1..Len(second) /\ second[1] = 1
      BY <1>2, SMTT(30)
    <3>2. QED
      BY <1>6, <3>1
  <2>3. QED
    BY <2>1, <2>2
<1> HIDE DEF d
<1>10. /\ c \in Seq({0, 1}) /\ Len(c) = p + w
       /\ \A j \in 1..p : c[j] = d[j]
       /\ \A j \in 1..w : c[p + j] = third[j]
  <2>1. /\ d \o third \in Seq({0, 1})
        /\ Len(d \o third) = Len(d) + Len(third)
        /\ \A j \in 1..Len(d) : (d \o third)[j] = d[j]
        /\ \A j \in 1..Len(third) : (d \o third)[Len(d) + j] = third[j]
    BY <1>3, <1>8, JoinedBits
  <2>2. QED
    BY <1>3, <1>8, <2>1
<1>14. \A j \in 1..z : c[j] = 0
  <2> SUFFICES ASSUME NEW j \in 1..z
               PROVE  c[j] = 0
    OBVIOUS
  <2>1. j \in 1..p
    BY <1>0, <1>12, <1>13
  <2>2. QED
    BY <1>9, <1>10, <2>1
<1>15. z < 12 => c[z + 1] = 1
  <2> SUFFICES ASSUME z < 12
               PROVE  c[z + 1] = 1
    OBVIOUS
  <2>1. z + 1 \in 1..p
    BY <1>0, <1>12
  <2>2. QED
    BY <1>9, <1>10, <2>1
<1>16. QED
  BY <1>10, <1>14, <1>15 DEF c, z, w, p, third, f

HasWidth(code, k, b) == code.width = IF code.zeros < 12 THEN k ELSE b

\* read_unsigned finds the codeword that write_unsigned wrote.
LEMMA CodeRead ==
  ASSUME NEW bits, Len(bits) \in Nat, NEW place \in Nat,
         NEW code, IsCode(code), Holds(bits, place, CodeBits(code)),
         NEW k, NEW b, HasWidth(code, k, b)
  PROVE  /\ CodeThere(bits, place, k, b)
         /\ NextCode(bits, place, k, b) =
              [zeros |-> code.zeros, width |-> code.width, field |-> code.field,
               position |-> place + Len(CodeBits(code))]
<1> DEFINE z == code.zeros
           n == Prefix(code)
           w == code.width
           f == code.field
           c == CodeBits(code)
<1>0. /\ z \in 0..12 /\ w \in Parameters /\ w \in Nat /\ f \in Nat /\ f < 2^w
      /\ EscapePrefix = 12
  <2>0. code.width \in Parameters
    BY DEF IsCode
  <2>1. code.width \in Nat
    BY <2>0, ParametersAreNumbers
  <2>2. QED
    BY <2>1 DEF IsCode, EscapePrefix
<1>10. z < 12 => n = z + 1
  BY DEF Prefix
<1>11. ~(z < 12) => n = z
  BY DEF Prefix
<1>1. /\ c \in Seq({0, 1}) /\ Len(c) = n + w
      /\ \A j \in 1..z : c[j] = 0
      /\ z < 12 => c[z + 1] = 1
      /\ \A j \in 1..w : c[n + j] = BitsOf(f, w)[j]
  BY CodeBitsParts
<1>2. /\ place + Len(c) <= Len(bits)
      /\ \A j \in 1..Len(c) : bits[place + j] = c[j]
  BY DEF Holds
<1>12. w = IF z < 12 THEN k ELSE b
  BY DEF HasWidth
<1> HIDE DEF c, n, z, w, f
<1>13. n \in Nat
  BY <1>0, <1>10, <1>11
<1>3. Zeros(bits, place) = z
  <2>1. \A j \in 1..z : bits[place + j] = 0
    <3> SUFFICES ASSUME NEW j \in 1..z
                 PROVE  bits[place + j] = 0
      OBVIOUS
    <3>1. j \in 1..Len(c)
      BY <1>0, <1>1, <1>10, <1>11
    <3>2. QED
      BY <1>1, <1>2, <3>1
  <2>2. z < 12 => bits[place + z + 1] = 1 /\ place + z < Len(bits)
    <3> SUFFICES ASSUME z < 12
                 PROVE  bits[place + z + 1] = 1 /\ place + z < Len(bits)
      OBVIOUS
    <3>1. z + 1 \in 1..Len(c) /\ place + (z + 1) = place + z + 1
      BY <1>0, <1>1, <1>10
    <3>2. bits[place + (z + 1)] = 1
      BY <1>1, <1>2, <3>1
    <3>3. place + z < Len(bits)
      BY <1>0, <1>1, <1>2, <1>10
    <3>4. QED
      BY <3>1, <3>2, <3>3
  <2>3. QED
    BY <1>0, <2>1, <2>2, ZerosFound
<1>4. FieldStart(z, place) = place + n
  BY <1>0, <1>10, <1>11, <1>13 DEF FieldStart
<1>5. FieldWidth(z, k, b) = w
  BY <1>0, <1>12 DEF FieldWidth
<1>6. CodeThere(bits, place, k, b)
  <2>1. ~Underflow(bits, place + n, w)
    BY <1>0, <1>1, <1>2, <1>13 DEF Underflow
  <2>2. QED
    BY <1>3, <1>4, <1>5, <2>1 DEF CodeThere
<1> DEFINE at == place + n
<1>7. BitsAt(bits, at, w) = f
  <2>1. \A j \in 1..w : bits[at + j] = BitsOf(f, w)[j]
    <3> SUFFICES ASSUME NEW j \in 1..w
                 PROVE  bits[at + j] = BitsOf(f, w)[j]
      OBVIOUS
    <3>1. n + j \in 1..Len(c) /\ place + (n + j) = at + j
      BY <1>0, <1>1, <1>13
    <3>2. bits[place + (n + j)] = c[n + j]
      BY <1>2, <3>1
    <3>3. QED
      BY <1>1, <3>1, <3>2
  <2>2. at \in Nat
    BY <1>13
  <2> HIDE DEF at
  <2>3. w \in Parameters /\ f \in Nat /\ f < 2^w
    BY <1>0
  <2>4. QED
    BY ONLY <2>1, <2>2, <2>3, BitsRead
<1>8. place + n + w = place + Len(c)
  BY <1>0, <1>1, <1>13
<1>9. NextCode(bits, place, k, b) =
        [zeros |-> z, width |-> w, field |-> f, position |-> place + Len(c)]
  BY <1>3, <1>4, <1>5, <1>7, <1>8 DEF NextCode
<1>14. QED
  BY <1>6, <1>9 DEF z, w, f, c

\* The codeword of a folded difference.
LEMMA UnsignedIsCode ==
  ASSUME NEW half, NEW bits, Depth(half, bits), NEW f \in 0..(2 * half - 1), NEW k \in Parameters
  PROVE  LET code == UnsignedCode(f, k, bits)
         IN IsCode(code) /\ HasWidth(code, k, bits)
<1> DEFINE P == 2^k
           code == UnsignedCode(f, k, bits)
<1>0. EscapePrefix = 12 /\ bits \in Parameters
  BY DEF EscapePrefix, Depth, Parameters
<1>1. P \in Nat /\ P > 0 /\ f \in Nat
  BY PowerPositive, HalfType
<1>2. /\ f % P \in 0..(P - 1) /\ f \div P \in Int /\ f = P * (f \div P) + (f % P)
  BY <1>1, Remainder
<1> DEFINE q == f \div P
           m == f % P
<1>3. CASE f < 12 * P
  <2>1. code = [zeros |-> q, width |-> k, field |-> m]
    BY <1>0, <1>3 DEF UnsignedCode
  <2>2. q \in Int /\ m \in 0..(P - 1) /\ f = P * q + m
    BY <1>2
  <2>3. q \in 0..11
    <3> HIDE DEF P, q, m
    <3>1. q >= 12 => P * q >= P * 12
      BY <1>1, <2>2
    <3>2. q <= -1 => P * q <= -P
      BY <1>1, <2>2
    <3>3. P * q \in Int /\ m \in Int /\ 0 <= m /\ m < P
      BY <1>1, <2>2
    <3>4. QED
      BY <1>1, <1>3, <2>2, <3>1, <3>2, <3>3
  <2>4. m \in Nat /\ m < P
    BY <1>1, <2>2
  <2> HIDE DEF q, m, code
  <2>5. code.zeros = q /\ code.width = k /\ code.field = m
    BY <2>1
  <2>6. IsCode(code)
    BY <2>1, <2>3, <2>4, <2>5 DEF IsCode
  <2>7. QED
    BY <2>3, <2>5, <2>6 DEF code, HasWidth
<1>4. CASE ~(f < 12 * P)
  <2>1. code = [zeros |-> 12, width |-> bits, field |-> f - 11]
    BY <1>0, <1>4 DEF UnsignedCode
  <2>2. 12 <= f
    <3> HIDE DEF P
    <3>1. QED
      BY <1>1, <1>4
  <2>3. 2^bits = 2 * half
    BY DEF Depth
  <2>4. f - 11 \in Nat /\ f - 11 < 2 * half
    BY <1>1, <2>2, HalfType
  <2> HIDE DEF code
  <2>5. code.zeros = 12 /\ code.width = bits /\ code.field = f - 11
    BY <2>1
  <2>6. IsCode(code)
    BY <1>0, <2>1, <2>3, <2>4, <2>5 DEF IsCode
  <2>7. QED
    BY <2>5, <2>6 DEF code, HasWidth
<1>5. QED
  BY <1>3, <1>4

\* The symbol that write_golomb_rice_symbol wrote with a context, as the bits of it are
\* read with the same context.
LEMMA SymbolBack ==
  ASSUME NEW half, NEW bits, Depth(half, bits), NEW c, InBounds(c, half), NEW v \in -half..half,
         NEW stuff, Len(stuff) \in Nat, NEW place \in Nat,
         Holds(stuff, place, CodeBits(WriteSymbol(c, v, half, bits).code))
  PROVE  LET w == WriteSymbol(c, v, half, bits)
             k == DeriveK(c)
             code == NextCode(stuff, place, k, bits)
             r == ReadSymbol(c, code, half)
         IN /\ ~Refused(c)
            /\ CodeThere(stuff, place, k, bits)
            /\ code.position = place + Len(CodeBits(w.code))
            /\ r.context = w.context
            /\ r.value = SignExtend(v, half)
<1> DEFINE w == WriteSymbol(c, v, half, bits)
           k == DeriveK(c)
           a == Adaptive(c, v, half)
           i == Inverted(c, a)
           code == NextCode(stuff, place, k, bits)
           r == ReadSymbol(c, code, half)
<1>1. k \in Parameters /\ ~Refused(c)
  BY ParameterExists
<1>2. i \in -half..(half - 1)
  BY WrittenSymbol
<1>3. w.code = UnsignedCode(Fold(i), k, bits)
  BY DEF WriteSymbol
<1>4. Fold(i) \in 0..(2 * half - 1)
  BY <1>2, FoldUnfold
<1> HIDE DEF i, k
<1>5. IsCode(w.code) /\ HasWidth(w.code, k, bits)
  BY <1>1, <1>3, <1>4, UnsignedIsCode
<1> HIDE DEF w
<1>6. /\ CodeThere(stuff, place, k, bits)
      /\ code = [zeros |-> w.code.zeros, width |-> w.code.width, field |-> w.code.field,
                 position |-> place + Len(CodeBits(w.code))]
  <2>1. Holds(stuff, place, CodeBits(w.code))
    BY DEF w
  <2>2. QED
    BY <1>5, <2>1, CodeRead
<1> HIDE DEF code
<1>7. code.zeros = w.code.zeros /\ code.field = w.code.field
      /\ code.position = place + Len(CodeBits(w.code))
  BY <1>6
<1>8. r = ReadSymbol(c, w.code, half)
  BY <1>7 DEF ReadSymbol, UnsignedValue
<1>9. ReadSymbol(c, w.code, half).context = w.context
      /\ ReadSymbol(c, w.code, half).value = SignExtend(v, half)
  BY SymbolRead DEF w
<1> HIDE DEF r
<1>10. r.context = w.context /\ r.value = SignExtend(v, half)
  BY <1>8, <1>9
<1>11. QED
  BY <1>1, <1>6, <1>7, <1>10 DEF r, code, k, w

\* What is written is bits.
LEMMA SymbolBits ==
  ASSUME NEW half, NEW bits, Depth(half, bits), NEW c, InBounds(c, half), NEW v \in -half..half
  PROVE  /\ CodeBits(WriteSymbol(c, v, half, bits).code) \in Seq({0, 1})
         /\ InBounds(WriteSymbol(c, v, half, bits).context, half)
<1> DEFINE w == WriteSymbol(c, v, half, bits)
           k == DeriveK(c)
           i == Inverted(c, Adaptive(c, v, half))
<1>1. k \in Parameters
  BY ParameterExists
<1>2. i \in -half..(half - 1)
  BY WrittenSymbol
<1>3. w.code = UnsignedCode(Fold(i), k, bits)
  BY DEF WriteSymbol
<1>4. Fold(i) \in 0..(2 * half - 1)
  BY <1>2, FoldUnfold
<1> HIDE DEF i, k
<1>5. IsCode(w.code)
  BY <1>1, <1>3, <1>4, UnsignedIsCode
<1>6. InBounds(w.context, half)
  BY SymbolRead
<1> HIDE DEF w
<1>7. CodeBits(w.code) \in Seq({0, 1})
  BY <1>5, CodeBitsParts
<1>8. QED
  BY <1>6, <1>7 DEF w

-----------------------------------------------------------------------------
(***************************************************************************)
(* The table of run lengths, and what full runs cover.                     *)
(***************************************************************************)
(***************************************************************************)
(* Runs.                                                                   *)
(***************************************************************************)
RunIndexes == 0..40

LEMMA RunTable ==
  /\ Len(kLog2Run) = 41
  /\ \A k \in 1..41 : kLog2Run[k] \in 0..24
  /\ kLog2Run[41] = 24
<1>1. Len(kLog2Run) = 41 /\ kLog2Run[41] = 24
  BY DEF kLog2Run
<1> DEFINE P(k) == kLog2Run[k] \in 0..24
<1>2. P(1) /\ P(2) /\ P(3) /\ P(4) /\ P(5) /\ P(6) /\ P(7) /\ P(8) /\ P(9) /\ P(10)
  BY DEF kLog2Run
<1>3. P(11) /\ P(12) /\ P(13) /\ P(14) /\ P(15) /\ P(16) /\ P(17) /\ P(18) /\ P(19) /\ P(20)
  BY DEF kLog2Run
<1>4. P(21) /\ P(22) /\ P(23) /\ P(24) /\ P(25) /\ P(26) /\ P(27) /\ P(28) /\ P(29) /\ P(30)
  BY DEF kLog2Run
<1>5. P(31) /\ P(32) /\ P(33) /\ P(34) /\ P(35) /\ P(36) /\ P(37) /\ P(38) /\ P(39) /\ P(40)
  BY DEF kLog2Run
<1>6. P(41)
  BY DEF kLog2Run
<1> HIDE DEF P
<1>7. ASSUME NEW k \in 1..41
      PROVE  P(k)
  <2>1. CASE k \in 1..10
    BY <1>2, <2>1
  <2>2. CASE k \in 11..20
    BY <1>3, <2>2
  <2>3. CASE k \in 21..30
    BY <1>4, <2>3
  <2>4. CASE k \in 31..40
    BY <1>5, <2>4
  <2>5. CASE k = 41
    BY <1>6, <2>5
  <2>6. QED
    BY <2>1, <2>2, <2>3, <2>4, <2>5
<1>8. QED
  BY <1>1, <1>7 DEF P

LEMMA FullRunType ==
  ASSUME NEW index \in RunIndexes
  PROVE  /\ Log2Run(index) \in Parameters /\ Log2Run(index) \in Nat
         /\ FullRun(index) \in Nat /\ FullRun(index) >= 1
<1>1. index + 1 \in 1..41
  BY DEF RunIndexes
<1>2. Log2Run(index) \in 0..24
  BY <1>1, RunTable DEF Log2Run
<1>3. Log2Run(index) \in Parameters /\ Log2Run(index) \in Nat
  BY <1>2 DEF Parameters
<1>4. QED
  BY <1>3, PowerPositive DEF FullRun

\* The longest run does not fit into a row.
RowLimit == 16777216

LEMMA LongestRun == FullRun(40) = RowLimit /\ RowLimit \in Nat
<1>1. Log2Run(40) = 24
  BY RunTable DEF Log2Run
<1>2. FullRun(40) = 2^24
  BY <1>1 DEF FullRun
<1>3. RowLimit \in Nat
  BY SMT DEF RowLimit
<1>4. QED
  BY <1>2, <1>3, SMT DEF RowLimit

LEMMA LowerType ==
  ASSUME NEW index \in RunIndexes
  PROVE  Lower(index) \in RunIndexes
  BY DEF Lower, RunIndexes

\* The samples that full runs cover.
CoverSteps(h, index, n) ==
  \A m \in 0..n : h[m] = IF m = 0 THEN 0 ELSE h[m - 1] + FullRun(index + m - 1)

LEMMA CoveredUnfold ==
  ASSUME NEW index \in RunIndexes, NEW n \in Nat, index + n <= 41
  PROVE  \E h : CoverSteps(h, index, n) /\ Covered(index, n) = h[n]
<1> DEFINE F(sum) == [m \in 0..n |-> IF m = 0 THEN 0 ELSE sum[m - 1] + FullRun(index + m - 1)]
           h == CHOOSE sum : sum = F(sum)
           D == 1..n
           step == [w \in Nat \X Nat |->
                      w[2] + (IF w[1] \in D THEN FullRun(index + w[1] - 1) ELSE 0)]
<1>1. \A k \in D : FullRun(index + k - 1) \in Nat
  <2> SUFFICES ASSUME NEW k \in D
               PROVE  FullRun(index + k - 1) \in Nat
    OBVIOUS
  <2>1. index + k - 1 \in RunIndexes
    BY DEF RunIndexes
  <2>2. QED
    BY <2>1, FullRunType
<1>2. Covered(index, n) = h[n]
  BY DEF Covered
<1>3. step \in [Nat \X Nat -> Nat]
  <2> HIDE DEF D
  <2>2. \A w \in Nat \X Nat : w[2] + (IF w[1] \in D THEN FullRun(index + w[1] - 1) ELSE 0) \in Nat
    BY <1>1
  <2>3. QED
    BY <2>2
<1>4. PICK g : Iterates(g, Nat, 0, step, n)
  <2> HIDE DEF step
  <2>1. QED
    BY <1>3, IterationExists
<1>5. \A k \in D : g[k] = g[k - 1] + FullRun(index + k - 1)
  <2> SUFFICES ASSUME NEW k \in D
               PROVE  g[k] = g[k - 1] + FullRun(index + k - 1)
    OBVIOUS
  <2>1. g[k - 1] \in Nat /\ g[k] = step[<<k, g[k - 1]>>] /\ k \in Nat
    <3> HIDE DEF step
    <3>1. k - 1 \in 0..n /\ k \in 1..n /\ k \in Nat
      OBVIOUS
    <3>2. QED
      BY <1>4, <3>1 DEF Iterates
  <2>2. QED
    BY <2>1
<1>6. g \in [0..n -> Nat] /\ g[0] = 0
  BY <1>4 DEF Iterates
<1>7. g = F(g)
  <2>1. ASSUME NEW m \in 0..n
        PROVE  g[m] = IF m = 0 THEN 0 ELSE g[m - 1] + FullRun(index + m - 1)
    <3>1. m # 0 => m \in D
      OBVIOUS
    <3>2. QED
      BY <1>5, <1>6, <3>1
  <2>2. QED
    BY <1>6, <2>1
<1>8. h = F(h)
  BY <1>7
<1> HIDE DEF h
<1>9. CoverSteps(h, index, n)
  BY <1>8 DEF CoverSteps
<1>10. QED
  BY <1>2, <1>9

LEMMA CoveredZero ==
  ASSUME NEW index \in RunIndexes
  PROVE  Covered(index, 0) = 0
<1>1. index + 0 <= 41
  BY DEF RunIndexes
<1>2. PICK h : CoverSteps(h, index, 0) /\ Covered(index, 0) = h[0]
  BY <1>1, CoveredUnfold
<1>3. QED
  BY <1>2 DEF CoverSteps

LEMMA CoveredNext ==
  ASSUME NEW index \in RunIndexes, NEW n \in Nat, index + n <= 40
  PROVE  /\ Covered(index, n) \in Nat
         /\ Covered(index, n + 1) = Covered(index, n) + FullRun(index + n)
         /\ FullRun(index + n) \in Nat /\ FullRun(index + n) >= 1
<1>0. index \in Nat
  BY DEF RunIndexes
<1>1. PICK g : CoverSteps(g, index, n) /\ Covered(index, n) = g[n]
  <2>1. index + n <= 41
    BY <1>0
  <2>2. QED
    BY <2>1, CoveredUnfold
<1>2. PICK h : CoverSteps(h, index, n + 1) /\ Covered(index, n + 1) = h[n + 1]
  <2>1. index + (n + 1) <= 41 /\ n + 1 \in Nat
    BY <1>0
  <2>2. QED
    BY <2>1, CoveredUnfold
<1> DEFINE S == {m \in Nat : m <= n => g[m] \in Nat /\ h[m] = g[m]}
<1>3. 0 \in S
  BY <1>1, <1>2 DEF CoverSteps
<1>4. ASSUME NEW m \in Nat, m \in S
      PROVE  m + 1 \in S
  <2> SUFFICES ASSUME m + 1 <= n
               PROVE  g[m + 1] \in Nat /\ h[m + 1] = g[m + 1]
    OBVIOUS
  <2>1. /\ g[m] \in Nat /\ h[m] = g[m] /\ m + 1 \in 0..n /\ m + 1 \in 0..(n + 1) /\ m + 1 # 0
        /\ (m + 1) - 1 = m
    BY <1>4
  <2>2. g[m + 1] = g[m] + FullRun(index + (m + 1) - 1)
    BY <1>1, <2>1 DEF CoverSteps
  <2>3. h[m + 1] = h[m] + FullRun(index + (m + 1) - 1)
    BY <1>2, <2>1 DEF CoverSteps
  <2>4. index + (m + 1) - 1 \in RunIndexes
    BY <1>0 DEF RunIndexes
  <2>5. FullRun(index + (m + 1) - 1) \in Nat
    BY <2>4, FullRunType
  <2>6. QED
    BY <2>1, <2>2, <2>3, <2>5
<1> HIDE DEF S
<1>5. n \in S
  BY <1>3, <1>4, SetInduction
<1>6. g[n] \in Nat /\ h[n] = g[n]
  BY <1>5 DEF S
<1>7. h[n + 1] = h[n] + FullRun(index + n)
  <2>1. n + 1 \in 0..(n + 1) /\ n + 1 # 0 /\ (n + 1) - 1 = n /\ index + (n + 1) - 1 = index + n
    BY <1>0
  <2>2. h[n + 1] = h[(n + 1) - 1] + FullRun(index + (n + 1) - 1)
    BY <1>2, <2>1 DEF CoverSteps
  <2>3. QED
    BY <2>1, <2>2
<1>8. FullRun(index + n) \in Nat /\ FullRun(index + n) >= 1
  <2>1. index + n \in RunIndexes
    BY <1>0 DEF RunIndexes
  <2>2. QED
    BY <2>1, FullRunType
<1>9. QED
  BY <1>1, <1>2, <1>6, <1>7, <1>8

\* More runs cover more.
LEMMA CoveredGrows ==
  ASSUME NEW index \in RunIndexes, NEW m \in Nat, NEW n \in Nat, m <= n, index + n <= 40
  PROVE  Covered(index, m) + (n - m) <= Covered(index, n)
<1>0. index \in Nat
  BY DEF RunIndexes
<1> DEFINE S == {k \in Nat : m + k <= n => Covered(index, m) + k <= Covered(index, m + k)}
<1>1. 0 \in S
  <2>1. Covered(index, m) \in Nat
    <3>1. index + m <= 40
      BY <1>0
    <3>2. QED
      BY <3>1, CoveredNext
  <2>2. m + 0 = m /\ Covered(index, m) + 0 <= Covered(index, m)
    BY <2>1
  <2>3. QED
    BY <2>2
<1>2. ASSUME NEW k \in Nat, k \in S
      PROVE  k + 1 \in S
  <2> SUFFICES ASSUME m + (k + 1) <= n
               PROVE  Covered(index, m) + (k + 1) <= Covered(index, m + (k + 1))
    OBVIOUS
  <2>1. Covered(index, m) + k <= Covered(index, m + k)
    BY <1>2
  <2>2. m + k \in Nat /\ index + (m + k) <= 40 /\ m + (k + 1) = (m + k) + 1 /\ index + m <= 40
    BY <1>0
  <2>3. /\ Covered(index, m + k) \in Nat
        /\ Covered(index, (m + k) + 1) = Covered(index, m + k) + FullRun(index + (m + k))
        /\ FullRun(index + (m + k)) \in Nat /\ FullRun(index + (m + k)) >= 1
    BY <2>2, CoveredNext
  <2>4. Covered(index, m) \in Nat
    BY <2>2, CoveredNext
  <2>5. QED
    BY <2>1, <2>2, <2>3, <2>4
<1> HIDE DEF S
<1>3. n - m \in S
  <2>1. n - m \in Nat
    OBVIOUS
  <2>2. QED
    BY <1>1, <1>2, <2>1, SetInduction
<1>4. m + (n - m) = n
  OBVIOUS
<1>5. QED
  BY <1>3, <1>4 DEF S

-----------------------------------------------------------------------------
(***************************************************************************)
(* A run as its segments, written and read.                                *)
(***************************************************************************)
\* The number of full runs in a run of samples.
FullRuns(index, count, n) ==
  n \in 0..(40 - index) /\ Covered(index, n) <= count /\ count < Covered(index, n + 1)

LEMMA FullRunsExist ==
  ASSUME NEW index \in RunIndexes, NEW count \in Nat, count < RowLimit
  PROVE  \E n \in Nat : FullRuns(index, count, n)
<1>0. index \in Nat /\ index <= 40
  BY DEF RunIndexes
<1> DEFINE A == {n \in 0..(40 - index) : count < Covered(index, n + 1)}
           top == 40 - index
<1>1. top \in A
  <2>1. top \in Nat /\ index + top = 40 /\ index + top <= 40
    BY <1>0
  <2>2. /\ Covered(index, top) \in Nat
        /\ Covered(index, top + 1) = Covered(index, top) + FullRun(40)
    BY <2>1, CoveredNext
  <2>3. count < Covered(index, top + 1)
    BY <2>2, LongestRun, SMT
  <2>4. QED
    BY <2>1, <2>3
<1>2. A \in SUBSET Nat
  OBVIOUS
<1> HIDE DEF A
<1>3. PICK n \in A : \A m \in A : n <= m
  BY <1>1, <1>2, LeastElement
<1>4. n \in 0..(40 - index) /\ count < Covered(index, n + 1)
  BY <1>3 DEF A
<1>5. Covered(index, n) <= count
  <2>1. CASE n = 0
    BY <2>1, CoveredZero
  <2>2. CASE n # 0
    <3>1. n - 1 \in 0..(40 - index) /\ (n - 1) + 1 = n /\ n - 1 < n
      BY <1>0, <1>4, <2>2
    <3>2. n - 1 \notin A
      BY <1>3, <3>1
    <3>3. ~(count < Covered(index, n))
      BY <3>1, <3>2 DEF A
    <3>4. Covered(index, n) \in Nat
      <4>1. n \in Nat /\ index + n <= 40
        BY <1>0, <1>4
      <4>2. QED
        BY <4>1, CoveredNext
    <3>5. QED
      BY <3>3, <3>4
  <2>3. QED
    BY <2>1, <2>2
<1>6. QED
  BY <1>4, <1>5 DEF FullRuns

\* A run as write_golomb_rice_run writes it: n ones, then a zero and the rest, unless the
\* full runs end with the row.
RunEndsFull(index, left, count, n) == n > 0 /\ Covered(index, n) = count /\ count = left

IsRun(index, left, count, n, w) ==
  /\ FullRuns(index, count, n)
  /\ w.bits \in Seq({0, 1})
  /\ \A j \in 1..n : w.bits[j] = 1
  /\ RunEndsFull(index, left, count, n) => Len(w.bits) = n /\ w.run_index = index + n
  /\ ~RunEndsFull(index, left, count, n) =>
       /\ Len(w.bits) = n + 1 + Log2Run(index + n)
       /\ w.bits[n + 1] = 0
       /\ \A j \in 1..Log2Run(index + n) :
            w.bits[n + 1 + j] = BitsOf(count - Covered(index, n), Log2Run(index + n))[j]
       /\ w.run_index = Lower(index + n)

LEMMA RunWritten ==
  ASSUME NEW index \in RunIndexes, NEW left \in Nat, left < RowLimit, NEW count \in 0..left
  PROVE  \E n \in Nat : IsRun(index, left, count, n, WrittenRun(index, left, count))
<1>0. index \in Nat /\ index <= 40 /\ count \in Nat /\ count < RowLimit
  BY LongestRun DEF RunIndexes
<1> DEFINE n == CHOOSE n \in 0..(Len(kLog2Run) - 1 - index) :
                  Covered(index, n) <= count /\ count < Covered(index, n + 1)
           width == Log2Run(index + n)
           rest == count - Covered(index, n)
           full == [i \in 1..n |-> 1]
           tail == BitsOf(rest, width)
           w == WrittenRun(index, left, count)
<1>1. FullRuns(index, count, n)
  <2>1. \E m \in Nat : FullRuns(index, count, m)
    BY <1>0, LongestRun, FullRunsExist
  <2>2. Len(kLog2Run) - 1 - index = 40 - index
    BY <1>0, RunTable
  <2>3. n = CHOOSE m \in 0..(40 - index) :
              Covered(index, m) <= count /\ count < Covered(index, m + 1)
    BY <2>2
  <2> HIDE DEF n
  <2>4. QED
    BY <2>1, <2>3 DEF FullRuns
<1>2. w = IF n > 0 /\ rest = 0 /\ count = left
          THEN [run_index |-> index + n, bits |-> full]
          ELSE [run_index |-> Lower(index + n), bits |-> full \o <<0>> \o tail]
  BY Zenon DEF WrittenRun
<1> HIDE DEF n
<1>3. n \in Nat /\ n <= 40 /\ index + n \in RunIndexes /\ index + n <= 40
  BY <1>0, <1>1 DEF FullRuns, RunIndexes
<1>4. Covered(index, n) \in Nat
  BY <1>3, CoveredNext
<1>5. width \in Nat
  BY <1>3, FullRunType
<1>6. rest \in Int
  BY <1>0, <1>4
<1>7. full \in Seq({0, 1}) /\ Len(full) = n /\ \A j \in 1..n : full[j] = 1
  BY <1>3
<1>8. rest = 0 <=> Covered(index, n) = count
  BY <1>0, <1>4
<1>12. RunEndsFull(index, left, count, n) <=> n > 0 /\ rest = 0 /\ count = left
  BY <1>8 DEF RunEndsFull
<1> HIDE DEF width, rest, full, w
<1>9. tail \in Seq({0, 1}) /\ Len(tail) = width
  BY <1>5, <1>6, BitsOfType
<1> HIDE DEF tail
<1>10. CASE RunEndsFull(index, left, count, n)
  <2>1. w = [run_index |-> index + n, bits |-> full]
    BY <1>2, <1>10, <1>12
  <2>2. w.run_index = index + n /\ w.bits = full
    BY <2>1
  <2>3. IsRun(index, left, count, n, w)
    BY <1>1, <1>7, <1>10, <2>2 DEF IsRun
  <2>4. QED
    BY <1>3, <2>3 DEF w
<1>11. CASE ~RunEndsFull(index, left, count, n)
  <2> DEFINE head == full \o <<0>>
             c == head \o tail
  <2>1. w = [run_index |-> Lower(index + n), bits |-> c]
    BY <1>2, <1>11, <1>12
  <2>2. /\ head \in Seq({0, 1}) /\ Len(head) = n + 1
        /\ \A j \in 1..n : head[j] = 1
        /\ head[n + 1] = 0
    <3> DEFINE zero == <<0>>
    <3>1. zero \in Seq({0, 1}) /\ Len(zero) = 1 /\ zero[1] = 0
      OBVIOUS
    <3> HIDE DEF zero
    <3>2. /\ full \o zero \in Seq({0, 1})
          /\ Len(full \o zero) = Len(full) + Len(zero)
          /\ \A j \in 1..Len(full) : (full \o zero)[j] = full[j]
          /\ \A j \in 1..Len(zero) : (full \o zero)[Len(full) + j] = zero[j]
      BY <1>7, <3>1, JoinedBits
    <3>3. (full \o zero)[n + 1] = 0
      BY <1>7, <3>1, <3>2
    <3>4. QED
      BY <1>7, <3>1, <3>2, <3>3 DEF zero
  <2> HIDE DEF head
  <2>3. /\ c \in Seq({0, 1}) /\ Len(c) = n + 1 + width
        /\ \A j \in 1..(n + 1) : c[j] = head[j]
        /\ \A j \in 1..width : c[n + 1 + j] = tail[j]
    <3>1. /\ head \o tail \in Seq({0, 1})
          /\ Len(head \o tail) = Len(head) + Len(tail)
          /\ \A j \in 1..Len(head) : (head \o tail)[j] = head[j]
          /\ \A j \in 1..Len(tail) : (head \o tail)[Len(head) + j] = tail[j]
      BY <1>9, <2>2, JoinedBits
    <3>2. QED
      BY <1>9, <2>2, <3>1
  <2> HIDE DEF c
  <2>4. w.run_index = Lower(index + n) /\ w.bits = c
    BY <2>1
  <2>5. \A j \in 1..n : c[j] = 1
    <3> SUFFICES ASSUME NEW j \in 1..n
                 PROVE  c[j] = 1
      OBVIOUS
    <3>1. j \in 1..(n + 1)
      BY <1>3
    <3>2. QED
      BY <2>2, <2>3, <3>1
  <2>6. c[n + 1] = 0
    <3>1. n + 1 \in 1..(n + 1)
      BY <1>3
    <3>2. QED
      BY <2>2, <2>3, <3>1
  <2>7. IsRun(index, left, count, n, w)
    BY <1>1, <1>11, <2>3, <2>4, <2>5, <2>6 DEF IsRun, width, tail, rest
  <2>8. QED
    BY <1>3, <2>7 DEF w
<1>13. QED
  BY <1>10, <1>11

(***************************************************************************)
(* Segments of a run.                                                      *)
(***************************************************************************)
\* A full run within the row.
LEMMA FullSegmentRead ==
  ASSUME NEW bits, NEW place \in Nat, NEW state, state.run_index \in RunIndexes,
         Len(bits) \in Nat, place + 1 <= Len(bits), bits[place + 1] = 1,
         NEW left \in Nat, FullRun(state.run_index) <= left
  PROVE  /\ SegmentThere(bits, place, state)
         /\ ReadSegment(bits, place, state, left) =
              Segment(FullRun(state.run_index), 0, FALSE, state.run_index + 1, place + 1)
  BY DEF SegmentThere, Underflow, ReadSegment, FullSegment

\* A partial run within the row.
\* The bits behind a place are those of a number.
RestThere(bits, at, rest, width) == \A j \in 1..width : bits[at + j] = BitsOf(rest, width)[j]

LEMMA RestRead ==
  ASSUME NEW bits, NEW place \in Nat, NEW width \in Parameters, NEW v \in Nat, v < 2^width,
         RestThere(bits, place, v, width)
  PROVE  BitsAt(bits, place, width) = v
<1>1. \A k \in 1..width : bits[place + k] = BitsOf(v, width)[k]
  BY DEF RestThere
<1>2. QED
  BY <1>1, BitsRead

PartialAt(bits, place, state, left, rest, width) ==
  /\ place \in Nat /\ left \in Nat /\ rest \in Nat /\ width \in Nat
  /\ state.run_index \in RunIndexes /\ Log2Run(state.run_index) = width
  /\ Len(bits) \in Nat /\ bits[place + 1] = 0 /\ place + 1 + width <= Len(bits)
  /\ rest <= left /\ rest < FullRun(state.run_index)
  /\ RestThere(bits, place + 1, rest, width)

PartialRead(bits, place, state, left, rest, width) ==
  /\ SegmentThere(bits, place, state)
  /\ ReadSegment(bits, place, state, left) =
       Segment(rest, 0, TRUE, Lower(state.run_index), place + 1 + width)

LEMMA PartialIsRead ==
  ASSUME NEW bits, NEW place, NEW state, NEW left, NEW rest, NEW width,
         PartialAt(bits, place, state, left, rest, width)
  PROVE  PartialRead(bits, place, state, left, rest, width)
<1>1. /\ place \in Nat /\ left \in Nat /\ rest \in Nat /\ width \in Nat
      /\ state.run_index \in RunIndexes /\ Log2Run(state.run_index) = width
      /\ Len(bits) \in Nat /\ bits[place + 1] = 0 /\ place + 1 + width <= Len(bits)
      /\ rest <= left /\ rest < FullRun(state.run_index)
      /\ RestThere(bits, place + 1, rest, width)
  BY DEF PartialAt
<1> DEFINE at == place + 1
<1>21. width \in Parameters /\ width \in Nat /\ rest < 2^width
  BY <1>1, FullRunType DEF FullRun
<1>22. at \in Nat
  BY <1>1
<1>23. RestThere(bits, at, rest, width)
  BY <1>1
<1>24. ~Underflow(bits, place, 1) /\ ~Underflow(bits, at, width)
  BY <1>1, <1>21 DEF Underflow
<1>32. rest \in Nat
  BY <1>1
<1> HIDE DEF at
<1>25. BitsAt(bits, at, width) = rest
  BY ONLY <1>21, <1>22, <1>23, <1>32, RestRead
<1>26. SegmentThere(bits, place, state)
  BY <1>1, <1>24 DEF SegmentThere, at
<1>27. bits[place + 1] # 1
  BY <1>1
<1>28. ~(rest > left)
  BY <1>1
<1>29. ReadSegment(bits, place, state, left) = PartialSegment(state, rest, left, at + width)
  BY <1>1, <1>25, <1>27, Zenon DEF ReadSegment, at
<1>30. PartialSegment(state, rest, left, at + width) =
         Segment(rest, 0, TRUE, Lower(state.run_index), at + width)
  BY <1>28, Zenon DEF PartialSegment
<1>31. QED
  BY <1>26, <1>29, <1>30, Zenon DEF PartialRead, at

\* A segment of a row, with the index and the place after it.
SegmentWithin(segment, left, total) ==
  /\ segment.count \in Nat /\ segment.count <= left
  /\ segment.pending \in Nat
  /\ segment.pending # 0 => segment.count = left
  /\ segment.interrupted \in BOOLEAN
  /\ segment.interrupted => segment.pending = 0
  /\ segment.run_index \in RunIndexes
  /\ segment.position \in Nat
  /\ segment.count + segment.pending = total

LEMMA WithinParts ==
  ASSUME NEW count \in Nat, NEW pending \in Nat, NEW interrupted \in BOOLEAN,
         NEW index \in RunIndexes, NEW place \in Nat, NEW left \in Nat, count <= left,
         pending # 0 => count = left, interrupted => pending = 0,
         NEW total, count + pending = total
  PROVE  SegmentWithin(Segment(count, pending, interrupted, index, place), left, total)
  BY DEF SegmentWithin, Segment

\* Any segment stays within the row and keeps the index within its table.
LEMMA SegmentType ==
  ASSUME NEW bits \in Seq({0, 1}), NEW place \in Nat, NEW state,
         state.run_index \in RunIndexes,
         NEW left \in Nat, left < RowLimit, SegmentThere(bits, place, state)
  PROVE  /\ bits[place + 1] = 1 =>
              SegmentWithin(ReadSegment(bits, place, state, left), left,
                            AtMost(FullRun(state.run_index), left))
         /\ bits[place + 1] # 1 =>
              SegmentWithin(ReadSegment(bits, place, state, left), left,
                            BitsAt(bits, place + 1, Log2Run(state.run_index)))
<1> DEFINE index == state.run_index
           width == Log2Run(index)
           segment == ReadSegment(bits, place, state, left)
           rest == BitsAt(bits, place + 1, width)
<1>1. width \in Nat /\ FullRun(index) \in Nat /\ FullRun(index) >= 1 /\ Lower(index) \in RunIndexes
      /\ index \in RunIndexes
  BY FullRunType, LowerType
<1>2. ASSUME bits[place + 1] = 1
      PROVE  SegmentWithin(segment, left, AtMost(FullRun(index), left))
  <2>0. place + 1 \in Nat
    OBVIOUS
  <2>1. CASE FullRun(index) <= left
    <3>1. segment = Segment(FullRun(index), 0, FALSE, index + 1, place + 1)
      BY <1>2, <2>1, Zenon DEF ReadSegment, FullSegment
    <3> HIDE DEF segment, index
    <3>2. index + 1 \in RunIndexes
      <4>1. index # 40
        BY <1>1, <2>1, LongestRun
      <4>2. QED
        BY <1>1, <4>1 DEF RunIndexes
    <3>3. AtMost(FullRun(index), left) = FullRun(index)
      BY <1>1, <2>1 DEF AtMost
    <3>4. FullRun(index) + 0 = FullRun(index)
      BY <1>1
    <3>5. SegmentWithin(Segment(FullRun(index), 0, FALSE, index + 1, place + 1), left, FullRun(index))
      BY <1>1, <2>0, <2>1, <3>2, <3>4, WithinParts
    <3>6. QED
      BY <3>1, <3>3, <3>5
  <2>2. CASE ~(FullRun(index) <= left)
    <3>1. segment = Segment(left, 0, FALSE, index, place + 1)
      BY <1>2, <2>2, Zenon DEF ReadSegment, FullSegment
    <3> HIDE DEF segment, index
    <3>3. AtMost(FullRun(index), left) = left
      BY <1>1, <2>2 DEF AtMost
    <3>5. SegmentWithin(Segment(left, 0, FALSE, index, place + 1), left, left)
      <4>1. left <= left /\ left + 0 = left /\ 0 \in Nat /\ FALSE \in BOOLEAN
        OBVIOUS
      <4>2. QED
        BY <1>1, <2>0, <4>1, WithinParts
    <3>6. QED
      BY <3>1, <3>3, <3>5
  <2>3. QED
    BY <2>1, <2>2
<1>3. ASSUME bits[place + 1] # 1
      PROVE  SegmentWithin(segment, left, rest)
  <2>1. ~Underflow(bits, place + 1, width)
    BY <1>3 DEF SegmentThere
  <2>2. place + 1 + width <= Len(bits) /\ Len(bits) \in Nat
    BY <1>1, <2>1 DEF Underflow
  <2>3. rest \in Nat
    <3> DEFINE at == place + 1
    <3>1. \A k \in 1..width : bits[at + k] \in {0, 1}
      <4> SUFFICES ASSUME NEW k \in 1..width
                   PROVE  bits[at + k] \in {0, 1}
        OBVIOUS
      <4>1. at + k \in 1..Len(bits)
        BY <1>1, <2>2
      <4>2. QED
        BY <4>1
    <3>2. at \in Nat
      OBVIOUS
    <3> HIDE DEF at, width
    <3>3. BitsAt(bits, at, width) \in Nat
      BY ONLY <1>1, <3>1, <3>2, BitsAtType
    <3>4. QED
      BY <3>3 DEF at
  <2> HIDE DEF rest
  <2>5. place + 1 + width \in Nat
    BY <1>1
  <2>4. CASE rest > left
    <3>1. segment = Segment(left, rest - left, FALSE, Lower(index), place + 1 + width)
      BY <1>3, <2>4, Zenon DEF ReadSegment, PartialSegment, rest
    <3>2. rest - left \in Nat /\ left + (rest - left) = rest
      BY <2>3, <2>4
    <3> HIDE DEF segment, index, width
    <3>3. SegmentWithin(Segment(left, rest - left, FALSE, Lower(index), place + 1 + width), left, rest)
      <4>1. left <= left /\ FALSE \in BOOLEAN
        OBVIOUS
      <4>2. QED
        BY <1>1, <2>3, <2>5, <3>2, <4>1, WithinParts
    <3>4. QED
      BY <3>1, <3>3
  <2>6. CASE ~(rest > left)
    <3>1. segment = Segment(rest, 0, TRUE, Lower(index), place + 1 + width)
      BY <1>3, <2>6, Zenon DEF ReadSegment, PartialSegment, rest
    <3>2. rest <= left /\ rest + 0 = rest
      BY <2>3, <2>6
    <3> HIDE DEF segment, index, width
    <3>3. SegmentWithin(Segment(rest, 0, TRUE, Lower(index), place + 1 + width), left, rest)
      BY <1>1, <2>3, <2>5, <3>2, WithinParts
    <3>4. QED
      BY <3>1, <3>3
  <2>7. QED
    BY <2>4, <2>6
<1>4. QED
  BY <1>2, <1>3

-----------------------------------------------------------------------------
(***************************************************************************)
(* The types of samples, lines and predictions.                            *)
(***************************************************************************)
(***************************************************************************)
(* Samples of a stream.                                                    *)
(***************************************************************************)
SampleRange(s, p) == 0..(2^CodedBits(s, p) - 1)

HalfOf(s, p) == 2^(CodedBits(s, p) - 1)

LineType(s, p) ==
  [border : {0}, current : [1..s.width -> SampleRange(s, p)],
   previous : [1..s.width -> SampleRange(s, p)],
   second_previous : [1..s.width -> SampleRange(s, p)]]

LEMMA StreamParts ==
  ASSUME NEW s \in StreamParameters
  PROVE  /\ s.golomb \in BOOLEAN /\ s.rgb \in BOOLEAN /\ s.extra \in BOOLEAN
         /\ s.bits \in 1..16 /\ s.width \in Nat /\ s.width >= 1 /\ s.width < RowLimit
         /\ s.height \in Nat /\ s.height >= 1
         /\ s.context_count \in Nat /\ s.context_count >= 1
         /\ s.tables \in [1..5 -> [0..255 -> Int]]
<1>1. /\ s.golomb \in BOOLEAN /\ s.rgb \in BOOLEAN /\ s.extra \in BOOLEAN
      /\ s.bits \in 1..16 /\ s.width \in 1..(2^24 - 1)
      /\ s.height \in Nat \ {0}
      /\ s.context_count \in Nat \ {0}
      /\ s.tables \in [1..5 -> [0..255 -> Int]]
  BY DEF StreamParameters
<1>2. \A w \in 1..(2^24 - 1) : w \in Nat /\ w >= 1 /\ w < RowLimit
  BY SMT DEF RowLimit
<1>3. s.width \in Nat /\ s.width >= 1 /\ s.width < RowLimit
  BY <1>1, <1>2
<1>4. s.height >= 1 /\ s.context_count >= 1
  <2>1. \A n \in Nat \ {0} : n >= 1
    OBVIOUS
  <2>2. QED
    BY <1>1, <2>1
<1>5. QED
  BY <1>1, <1>3, <1>4

LEMMA CodedBitsType ==
  ASSUME NEW s \in StreamParameters, NEW p
  PROVE  /\ CodedBits(s, p) \in 1..17
         /\ CodedBits(s, p) = s.bits \/ CodedBits(s, p) = s.bits + 1
<1>1. s.bits \in 1..16
  BY StreamParts
<1>2. QED
  BY <1>1 DEF CodedBits

LEMMA CodedDepth ==
  ASSUME NEW s \in StreamParameters, NEW p
  PROVE  /\ Depth(HalfOf(s, p), CodedBits(s, p))
         /\ SampleRange(s, p) = 0..(2 * HalfOf(s, p) - 1)
         /\ HalfOf(s, p) \in Nat /\ HalfOf(s, p) > 0
         /\ 2^CodedBits(s, p) = 2 * HalfOf(s, p)
<1> DEFINE b == CodedBits(s, p)
           e == b - 1
           h == 2^e
<1>1. b \in 1..17
  BY CodedBitsType
<1> HIDE DEF b
<1>2. e \in 0..16 /\ e \in 0..30 /\ e \in Parameters /\ b = e + 1
  BY <1>1 DEF Parameters
<1> HIDE DEF e
<1>3. 2^b = 2 * h /\ h \in Nat /\ h > 0
  BY <1>2, PowerDouble, PowerPositive
<1>4. h <= 65536
  <2> DEFINE P(j) == 2^j <= 65536
  <2>1. P(0) /\ P(1) /\ P(2) /\ P(3) /\ P(4) /\ P(5) /\ P(6) /\ P(7) /\ P(8)
    BY SMT
  <2>2. P(9) /\ P(10) /\ P(11) /\ P(12) /\ P(13) /\ P(14) /\ P(15) /\ P(16)
    BY SMT
  <2> HIDE DEF P
  <2>3. e \in 0..8 \/ e \in 9..16
    BY <1>2
  <2>4. ASSUME e \in 0..8 PROVE P(e)
    BY <2>1, <2>4, SMT
  <2>5. ASSUME e \in 9..16 PROVE P(e)
    BY <2>2, <2>5, SMT
  <2>6. P(e)
    BY <2>3, <2>4, <2>5
  <2>7. QED
    BY <2>6 DEF P
<1> HIDE DEF h
<1>5. Depth(h, b)
  BY <1>1, <1>3, <1>4 DEF Depth
<1>6. 0..(2^b - 1) = 0..(2 * h - 1)
  BY <1>3
<1>7. HalfOf(s, p) = h
  BY Zenon DEF h, e, b, HalfOf
<1>8. CodedBits(s, p) = b /\ SampleRange(s, p) = 0..(2^b - 1)
  BY Zenon DEF b, SampleRange
<1>9. QED
  BY <1>3, <1>5, <1>6, <1>7, <1>8

LEMMA LineParts ==
  ASSUME NEW s, NEW p, NEW line \in LineType(s, p)
  PROVE  /\ line = [border |-> line.border, current |-> line.current,
                    previous |-> line.previous, second_previous |-> line.second_previous]
         /\ line.border = 0
         /\ line.current \in [1..s.width -> SampleRange(s, p)]
         /\ line.previous \in [1..s.width -> SampleRange(s, p)]
         /\ line.second_previous \in [1..s.width -> SampleRange(s, p)]
  BY DEF LineType

LEMMA SampleRangeType ==
  ASSUME NEW s \in StreamParameters, NEW p
  PROVE  0 \in SampleRange(s, p) /\ \A v \in SampleRange(s, p) : v \in Int
<1>1. SampleRange(s, p) = 0..(2 * HalfOf(s, p) - 1) /\ HalfOf(s, p) \in Nat /\ HalfOf(s, p) > 0
  BY CodedDepth
<1>2. QED
  BY <1>1

LEMMA NeighborsType ==
  ASSUME NEW s \in StreamParameters, NEW p, NEW line \in LineType(s, p), NEW i \in 1..s.width
  PROVE  LET n == Neighbors(line, i)
         IN /\ n.far_left \in SampleRange(s, p) /\ n.left \in SampleRange(s, p)
            /\ n.top \in SampleRange(s, p) /\ n.top_left \in SampleRange(s, p)
            /\ n.top_right \in SampleRange(s, p) /\ n.top_top \in SampleRange(s, p)
<1> DEFINE R == SampleRange(s, p)
           w == s.width
           cur == line.current
           prev == line.previous
           second == line.second_previous
           n == Neighbors(line, i)
<1>1. line.border = 0 /\ cur \in [1..w -> R] /\ prev \in [1..w -> R] /\ second \in [1..w -> R]
  BY LineParts
<1>2. w \in Nat /\ w >= 1 /\ i \in 1..w /\ 1 \in 1..w
  BY StreamParts
<1>3. 0 \in R
  BY SampleRangeType
<1>4. Len(cur) = w
  BY <1>1, <1>2
<1>5. n = [far_left  |-> CASE i > 2 -> cur[i - 2]
                   [] i = 2 -> prev[1]
                   [] OTHER -> line.border,
           left      |-> IF i > 1 THEN cur[i - 1] ELSE prev[1],
           top       |-> prev[i],
           top_left  |-> IF i > 1 THEN prev[i - 1] ELSE second[1],
           top_right |-> prev[IF i < Len(cur) THEN i + 1 ELSE i],
           top_top   |-> second[i]]
  BY DEF Neighbors
<1> HIDE DEF n, R, w, cur, prev, second
<1>6. n.top = prev[i] /\ n.top_top = second[i]
  BY <1>5
<1>7. n.left = IF i > 1 THEN cur[i - 1] ELSE prev[1]
  BY <1>5
<1>8. n.top_left = IF i > 1 THEN prev[i - 1] ELSE second[1]
  BY <1>5
<1>9. n.top_right = prev[IF i < Len(cur) THEN i + 1 ELSE i]
  BY <1>5
<1>10. n.far_left = CASE i > 2 -> cur[i - 2] [] i = 2 -> prev[1] [] OTHER -> line.border
  BY <1>5
<1>11. n.left \in R /\ n.top_left \in R
  <2>1. CASE i > 1
    <3>1. i - 1 \in 1..w
      BY <1>2, <2>1
    <3>2. QED
      BY <1>1, <1>7, <1>8, <2>1, <3>1
  <2>2. CASE ~(i > 1)
    BY <1>1, <1>2, <1>7, <1>8, <2>2
  <2>3. QED
    BY <2>1, <2>2
<1>12. n.top_right \in R
  <2>1. CASE i < Len(cur)
    <3>1. i + 1 \in 1..w
      BY <1>2, <1>4, <2>1
    <3>2. QED
      BY <1>1, <1>9, <2>1, <3>1
  <2>2. CASE ~(i < Len(cur))
    BY <1>1, <1>2, <1>9, <2>2
  <2>3. QED
    BY <2>1, <2>2
<1>13. n.far_left \in R
  <2>1. CASE i > 2
    <3>1. i - 2 \in 1..w /\ i # 2
      BY <1>2, <2>1
    <3>2. n.far_left = cur[i - 2]
      BY <1>10, <2>1, <3>1
    <3>3. QED
      BY <1>1, <3>1, <3>2
  <2>2. CASE i = 2
    <3>1. n.far_left = prev[1]
      BY <1>10, <2>2
    <3>2. QED
      BY <1>1, <1>2, <3>1
  <2>3. CASE ~(i > 2) /\ i # 2
    <3>1. n.far_left = line.border
      BY <1>10, <2>3
    <3>2. QED
      BY <1>1, <1>3, <3>1
  <2>4. QED
    BY <2>1, <2>2, <2>3
<1>14. n.top \in R /\ n.top_top \in R
  BY <1>1, <1>2, <1>6
<1>15. QED
  BY <1>11, <1>12, <1>13, <1>14 DEF n, R

\* The median of two samples and their gradient lies between the two.
LEMMA MedianRange ==
  ASSUME NEW a \in Int, NEW b \in Int, NEW c \in Int
  PROVE  /\ Median(a, b, c) \in Int
         /\ \A m \in Int : 0 <= a /\ a <= m /\ 0 <= b /\ b <= m =>
              0 <= Median(a, b, c) /\ Median(a, b, c) <= m
  BY DEF Median, Smaller, Larger

LEMMA PredictionType ==
  ASSUME NEW s \in StreamParameters, NEW p, NEW line \in LineType(s, p), NEW i \in 1..s.width
  PROVE  /\ PredictionAt(s, line, i) \in Int
         /\ ~Signed16(s) => PredictionAt(s, line, i) \in SampleRange(s, p)
<1> DEFINE n == Neighbors(line, i)
           h == HalfOf(s, p)
           m == 2 * h - 1
           R == SampleRange(s, p)
<1>1. n.left \in R /\ n.top \in R /\ n.top_left \in R
  BY NeighborsType
<1>2. R = 0..m /\ h \in Nat /\ h > 0
  BY CodedDepth
<1> HIDE DEF n, h, R
<1>3. n.left \in Int /\ n.top \in Int /\ n.top_left \in Int /\ m \in Int
      /\ 0 <= n.left /\ n.left <= m /\ 0 <= n.top /\ n.top <= m
  BY <1>1, <1>2
<1> HIDE DEF m
<1>4. CASE ~Signed16(s)
  <2> DEFINE a == n.left
             b == n.top
             c == n.left + n.top - n.top_left
  <2>1. PredictionAt(s, line, i) = Median(a, b, c)
    BY <1>4, Zenon DEF PredictionAt, Prediction, n
  <2>2. a \in Int /\ b \in Int /\ c \in Int /\ 0 <= a /\ a <= m /\ 0 <= b /\ b <= m
    BY <1>3
  <2> HIDE DEF a, b, c
  <2>3. Median(a, b, c) \in Int /\ 0 <= Median(a, b, c) /\ Median(a, b, c) <= m
    BY <1>3, <2>2, MedianRange
  <2>4. QED
    BY <1>2, <1>3, <2>1, <2>3 DEF R
<1>5. CASE Signed16(s)
  <2> DEFINE a == AsSigned16(n.left)
             b == AsSigned16(n.top)
             c == a + b - AsSigned16(n.top_left)
  <2>1. PredictionAt(s, line, i) = Median(a, b, c)
    BY <1>5, Zenon DEF PredictionAt, Prediction, n
  <2>2. a \in Int /\ b \in Int /\ c \in Int
    BY <1>3 DEF AsSigned16
  <2> HIDE DEF a, b, c
  <2>3. Median(a, b, c) \in Int
    BY <2>2, MedianRange
  <2>4. QED
    BY <1>5, <2>1, <2>3
<1>6. QED
  BY <1>4, <1>5

-----------------------------------------------------------------------------
(***************************************************************************)
(* The context of a sample is one of the stream.                           *)
(***************************************************************************)
\* A table of numbers has a largest one.
LEMMA MaxMeans ==
  ASSUME NEW f \in [0..255 -> Nat]
  PROVE  LET A == {f[q] : q \in 0..255}
         IN Max(A) \in Nat /\ \A q \in 0..255 : f[q] <= Max(A)
<1> DEFINE A == {f[q] : q \in 0..255}
           Covers(k) == \E m \in A : \A q \in 0..k : q <= 255 => f[q] <= m
           S == {k \in Nat : Covers(k)}
<1>1. 0 \in S
  <2>1. f[0] \in A /\ \A q \in 0..0 : q <= 255 => f[q] <= f[0]
    OBVIOUS
  <2>2. QED
    BY <2>1
<1>2. ASSUME NEW k \in Nat, k \in S
      PROVE  k + 1 \in S
  <2>0. k + 1 \in Nat
    OBVIOUS
  <2> SUFFICES Covers(k + 1)
    BY <2>0, Zenon
  <2>1. PICK m \in A : \A q \in 0..k : q <= 255 => f[q] <= m
    BY <1>2
  <2> HIDE DEF S
  <2>2. m \in Nat
    OBVIOUS
  <2>3. CASE k + 1 > 255
    <3>1. \A q \in 0..(k + 1) : q <= 255 => f[q] <= m
      BY <2>1, <2>3
    <3>2. QED
      BY <3>1
  <2>4. CASE k + 1 <= 255 /\ f[k + 1] <= m
    <3>1. \A q \in 0..(k + 1) : q <= 255 => f[q] <= m
      BY <2>1, <2>4
    <3>2. QED
      BY <3>1
  <2>5. CASE k + 1 <= 255 /\ ~(f[k + 1] <= m)
    <3>1. k + 1 \in 0..255 /\ f[k + 1] \in Nat /\ f[k + 1] \in A
      BY <2>5
    <3>2. ASSUME NEW q \in 0..(k + 1), q <= 255
          PROVE  f[q] <= f[k + 1]
      <4>1. CASE q = k + 1
        BY <3>1, <4>1
      <4>2. CASE q # k + 1
        <5>1. q \in 0..k /\ f[q] \in Nat
          BY <3>2, <4>2
        <5>2. QED
          BY <2>1, <2>2, <2>5, <3>1, <3>2, <5>1
      <4>3. QED
        BY <4>1, <4>2
    <3>3. QED
      BY <3>1, <3>2
  <2>6. k + 1 > 255 \/ k + 1 <= 255
    OBVIOUS
  <2> HIDE DEF Covers
  <2>7. QED
    BY <2>3, <2>4, <2>5, <2>6
<1> HIDE DEF S
<1>3. 255 \in S
  BY <1>1, <1>2, SetInduction
<1>4. PICK m \in A : \A q \in 0..255 : f[q] <= m
  BY <1>3 DEF S
<1>5. \A v \in A : m >= v
  BY <1>4
<1>6. Max(A) \in A /\ \A v \in A : Max(A) >= v
  BY <1>5, Zenon DEF Max
<1>7. Max(A) \in Nat
  BY <1>6
<1>8. \A q \in 0..255 : f[q] <= Max(A)
  <2> SUFFICES ASSUME NEW q \in 0..255
               PROVE  f[q] <= Max(A)
    OBVIOUS
  <2>1. f[q] \in A /\ f[q] \in Nat
    OBVIOUS
  <2>2. Max(A) >= f[q]
    BY <1>6, <2>1
  <2> HIDE DEF A
  <2>3. QED
    BY <1>7, <2>1, <2>2
<1>9. QED
  BY <1>7, <1>8

\* Contexts are there for every sum of the five tables.
LEMMA ContextType ==
  ASSUME NEW s \in StreamParameters, FitsContexts(s), NEW p,
         NEW line \in LineType(s, p), NEW i \in 1..s.width
  PROVE  /\ ContextAt(s, line, i).number \in 0..(s.context_count - 1)
         /\ ContextAt(s, line, i).inverted \in BOOLEAN
<1> DEFINE n == Neighbors(line, i)
           R == SampleRange(s, p)
           Largest(t) == Max({Absolute(s.tables[t][q]) : q \in 0..255})
           g(t) == CASE t = 1 -> n.left - n.top_left
                     [] t = 2 -> n.top_left - n.top
                     [] t = 3 -> n.top - n.top_right
                     [] t = 4 -> n.far_left - n.left
                     [] OTHER -> n.top_top - n.top
           v(t) == Quantized(s.tables[t], g(t))
           sum == v(1) + v(2) + v(3) + v(4) + v(5)
<1>1. /\ n.far_left \in Int /\ n.left \in Int /\ n.top \in Int /\ n.top_left \in Int
      /\ n.top_right \in Int /\ n.top_top \in Int
  BY NeighborsType, SampleRangeType
<1>2. /\ s.tables \in [1..5 -> [0..255 -> Int]]
      /\ s.context_count \in Nat
  BY StreamParts
<1>3. ASSUME NEW t \in 1..5, NEW d \in Int
      PROVE  /\ Largest(t) \in Nat /\ Quantized(s.tables[t], d) \in Int
             /\ -Largest(t) <= Quantized(s.tables[t], d) /\ Quantized(s.tables[t], d) <= Largest(t)
  <2> DEFINE table == s.tables[t]
             f == [q \in 0..255 |-> Absolute(table[q])]
             m == d % 256
  <2>1. table \in [0..255 -> Int]
    BY <1>2
  <2>2. m \in 0..255
    OBVIOUS
  <2>3. Quantized(table, d) = table[m]
    BY DEF Quantized
  <2> HIDE DEF table, m
  <2>4. f \in [0..255 -> Nat]
    BY <2>1 DEF Absolute
  <2>5. {f[q] : q \in 0..255} = {Absolute(table[q]) : q \in 0..255}
    OBVIOUS
  <2>6. f[m] = Absolute(table[m])
    BY <2>2
  <2> HIDE DEF f
  <2>7. Max({f[q] : q \in 0..255}) \in Nat /\ f[m] <= Max({f[q] : q \in 0..255})
    BY <2>2, <2>4, MaxMeans
  <2>8. Max({f[q] : q \in 0..255}) = Largest(t)
    BY <2>5 DEF table
  <2> HIDE DEF Largest
  <2>9. Largest(t) \in Nat /\ Absolute(table[m]) <= Largest(t)
    BY <2>6, <2>7, <2>8
  <2>10. table[m] \in Int
    BY <2>1, <2>2
  <2>11. -Largest(t) <= table[m] /\ table[m] <= Largest(t)
    BY <2>9, <2>10 DEF Absolute
  <2>12. QED
    BY <2>3, <2>9, <2>10, <2>11 DEF table
<1>4. Largest(1) + Largest(2) + Largest(3) + Largest(4) + Largest(5) < s.context_count
  BY Zenon DEF FitsContexts
<1> HIDE DEF Largest
<1>5. \A t \in 1..5 : g(t) \in Int
  <2>1. g(1) \in Int /\ g(2) \in Int /\ g(3) \in Int /\ g(4) \in Int /\ g(5) \in Int
    BY <1>1
  <2> HIDE DEF g
  <2>2. QED
    BY <2>1
<1>6. ContextAt(s, line, i) = [number |-> IF sum < 0 THEN -sum ELSE sum, inverted |-> sum < 0]
  <2>1. /\ g(1) = n.left - n.top_left /\ g(2) = n.top_left - n.top /\ g(3) = n.top - n.top_right
        /\ g(4) = n.far_left - n.left /\ g(5) = n.top_top - n.top
    OBVIOUS
  <2> HIDE DEF g
  <2>2. QED
    BY <2>1, Zenon DEF ContextAt, Context
<1> HIDE DEF n, g
<1>7. \A t \in 1..5 : Largest(t) \in Nat /\ v(t) \in Int /\ -Largest(t) <= v(t) /\ v(t) <= Largest(t)
  BY <1>3, <1>5
<1> HIDE DEF v
<1>8. sum \in Int /\ -s.context_count < sum /\ sum < s.context_count
  <2>1. /\ Largest(1) \in Nat /\ v(1) \in Int /\ -Largest(1) <= v(1) /\ v(1) <= Largest(1)
        /\ Largest(2) \in Nat /\ v(2) \in Int /\ -Largest(2) <= v(2) /\ v(2) <= Largest(2)
        /\ Largest(3) \in Nat /\ v(3) \in Int /\ -Largest(3) <= v(3) /\ v(3) <= Largest(3)
        /\ Largest(4) \in Nat /\ v(4) \in Int /\ -Largest(4) <= v(4) /\ v(4) <= Largest(4)
        /\ Largest(5) \in Nat /\ v(5) \in Int /\ -Largest(5) <= v(5) /\ v(5) <= Largest(5)
    BY <1>7
  <2>2. QED
    BY <1>2, <1>4, <2>1
<1> HIDE DEF sum
<1>9. CASE sum < 0
  <2>1. ContextAt(s, line, i) = [number |-> -sum, inverted |-> TRUE]
    BY <1>6, <1>9
  <2>2. -sum \in 0..(s.context_count - 1)
    BY <1>2, <1>8, <1>9
  <2>3. QED
    BY <2>1, <2>2
<1>10. CASE ~(sum < 0)
  <2>1. ContextAt(s, line, i) = [number |-> sum, inverted |-> FALSE]
    <3>1. (sum < 0) = FALSE
      BY <1>10
    <3>2. QED
      BY <1>6, <3>1, Zenon
  <2>2. sum \in 0..(s.context_count - 1)
    BY <1>2, <1>8, <1>10
  <2>3. QED
    BY <2>1, <2>2
<1>11. QED
  BY <1>9, <1>10

-----------------------------------------------------------------------------
(***************************************************************************)
(* A difference leads back to its sample.                                  *)
(***************************************************************************)
(***************************************************************************)
(* Differences.                                                            *)
(***************************************************************************)
LEMMA DifferenceFound ==
  ASSUME NEW s \in StreamParameters, NEW p, NEW sample \in SampleRange(s, p), NEW guess \in Int
  PROVE  LET half == HalfOf(s, p)
             d == SampleDifference(sample, guess, CodedBits(s, p))
         IN /\ d \in -half..(half - 1)
            /\ \E q \in Int : d = sample - guess + 2 * half * q
            /\ guess \in SampleRange(s, p) /\ sample # guess => d # 0
<1> DEFINE half == HalfOf(s, p)
           bits == CodedBits(s, p)
           d == SampleDifference(sample, guess, bits)
           v == sample - guess
<1>1. Depth(half, bits) /\ half \in Nat /\ half > 0 /\ SampleRange(s, p) = 0..(2 * half - 1)
  BY CodedDepth
<1>2. d = SignExtend(v, half)
  BY Zenon DEF SampleDifference, SignExtend, HalfOf
<1>3. sample \in Int /\ sample \in 0..(2 * half - 1)
  BY <1>1
<1>4. v \in Int
  BY <1>3
<1> HIDE DEF half, bits, d, v
<1>5. d \in -half..(half - 1)
  BY <1>1, <1>2, <1>4, SignExtendRange
<1>6. PICK q \in Int : d = v + 2 * half * q
  BY <1>1, <1>2, <1>4, SignExtendCongruent
<1>7. ASSUME guess \in SampleRange(s, p), sample # guess
      PROVE  d # 0
  <2> SUFFICES ASSUME d = 0
               PROVE  FALSE
    OBVIOUS
  <2>1. guess \in 0..(2 * half - 1)
    BY <1>1, <1>7
  <2> DEFINE r == 2 * half
             m == sample
             n == guess
  <2>2. r \in Nat /\ r > 0 /\ m \in 0..(r - 1) /\ n \in 0..(r - 1)
    BY <1>1, <1>3, <2>1
  <2>3. r * (-q) = m - n
    <3>1. v = sample - guess
      BY DEF v
    <3>2. 2 * half * q \in Int /\ 2 * half * (-q) = -(2 * half * q)
      BY <1>1
    <3>3. QED
      BY <1>3, <1>4, <1>6, <3>1, <3>2
  <2>4. -q \in Int
    OBVIOUS
  <2> HIDE DEF r, m, n
  <2>5. m = n
    BY <2>2, <2>3, <2>4, OneRemainder
  <2>6. QED
    BY <1>7, <2>5 DEF m, n
<1>8. QED
  BY <1>5, <1>6, <1>7 DEF half, d, bits, v

\* A multiple of the range is lost in the reconstruction.
LEMMA Rebuilt ==
  ASSUME NEW s \in StreamParameters, NEW p, NEW sample \in SampleRange(s, p), NEW guess \in Int,
         NEW e \in Int, NEW q \in Int, e = sample - guess + 2 * HalfOf(s, p) * q
  PROVE  Reconstructed(guess, e, CodedBits(s, p)) = sample
<1> DEFINE r == 2 * HalfOf(s, p)
<1>1. HalfOf(s, p) \in Nat /\ HalfOf(s, p) > 0 /\ 2^CodedBits(s, p) = r /\ SampleRange(s, p) = 0..(r - 1)
  BY CodedDepth
<1>2. r \in Nat /\ r > 0 /\ sample \in 0..(r - 1) /\ sample \in Int
  BY <1>1
<1>3. e = sample - guess + r * q
  OBVIOUS
<1>4. Reconstructed(guess, e, CodedBits(s, p)) = (guess + e) % r
  BY <1>1 DEF Reconstructed
<1> HIDE DEF r
<1>5. guess + e = sample + r * q
  <2>1. r * q \in Int
    BY <1>2
  <2>2. QED
    BY <1>2, <1>3, <2>1
<1>6. (sample + r * q) % r = sample % r
  BY <1>2, SameRemainder
<1>7. sample % r = sample
  BY <1>2, SmallRemainder
<1>8. QED
  BY <1>4, <1>5, <1>6, <1>7

\* What the range coder's reader makes of a difference.
LEMMA RangeSample ==
  ASSUME NEW s \in StreamParameters, NEW p, NEW sample \in SampleRange(s, p), NEW guess \in Int,
         NEW n, n.inverted \in BOOLEAN
  PROVE  Reconstructed(guess,
                       Negated(n, Negated(n, SampleDifference(sample, guess, CodedBits(s, p)))),
                       CodedBits(s, p)) = sample
<1> DEFINE half == HalfOf(s, p)
           bits == CodedBits(s, p)
           d == SampleDifference(sample, guess, bits)
<1>1. d \in -half..(half - 1) /\ \E q \in Int : d = sample - guess + 2 * half * q
  BY DifferenceFound
<1>2. half \in Nat
  BY CodedDepth
<1>3. d \in Int
  BY <1>1, <1>2
<1>4. PICK q \in Int : d = sample - guess + 2 * half * q
  BY <1>1
<1> HIDE DEF d
<1>5. Negated(n, Negated(n, d)) = d
  BY <1>3 DEF Negated
<1>6. Reconstructed(guess, d, bits) = sample
  BY <1>3, <1>4, Rebuilt
<1>7. QED
  BY <1>5, <1>6 DEF d

\* What is written of a difference, and what is read of it.
Sent(interrupts, value) == IF interrupts THEN ToInterruption(value) ELSE value

Returned(interrupts, symbol) == IF interrupts THEN FromInterruption(symbol) ELSE symbol

LEMMA GolombSample ==
  ASSUME NEW s \in StreamParameters, NEW p, NEW sample \in SampleRange(s, p), NEW guess \in Int,
         NEW n, n.inverted \in BOOLEAN, NEW interrupts \in BOOLEAN,
         interrupts => guess \in SampleRange(s, p) /\ sample # guess
  PROVE  LET half == HalfOf(s, p)
             bits == CodedBits(s, p)
             value == Negated(n, SampleDifference(sample, guess, bits))
             symbol == SignExtend(Sent(interrupts, value), half)
         IN /\ Sent(interrupts, value) \in -half..half
            /\ Reconstructed(guess, Negated(n, Returned(interrupts, symbol)), bits) = sample
<1> DEFINE half == HalfOf(s, p)
           bits == CodedBits(s, p)
           d == SampleDifference(sample, guess, bits)
           value == Negated(n, d)
           sent == Sent(interrupts, value)
           symbol == SignExtend(sent, half)
           back == Returned(interrupts, symbol)
           D == [interrupts |-> interrupts, value |-> value]
<1>1. /\ d \in -half..(half - 1) /\ \E q \in Int : d = sample - guess + 2 * half * q
      /\ interrupts => d # 0
  BY DifferenceFound
<1>2. half \in Nat /\ half > 0 /\ Depth(half, bits)
  BY CodedDepth
<1>3. d \in Int
  BY <1>1, <1>2
<1>4. PICK q \in Int : d = sample - guess + 2 * half * q
  BY <1>1
<1>20. sample \in Int
  BY SampleRangeType
<1> HIDE DEF d, half, bits
<1>5. value \in -half..half /\ (interrupts => value # 0) /\ value \in Int
  BY <1>1, <1>2, <1>3 DEF Negated
<1>6. Negated(n, value) = d
  BY <1>3 DEF Negated
<1> HIDE DEF value
<1>7. D.interrupts = interrupts /\ D.value = value
  OBVIOUS
<1>8. Mapped(D) = sent
  BY <1>7 DEF Mapped, Sent
<1>9. Unmapped(D, symbol) = back
  BY <1>7 DEF Unmapped, Returned
<1> HIDE DEF D, sent, symbol, back
<1>10. /\ Mapped(D) \in -half..half
       /\ Unmapped(D, SignExtend(Mapped(D), half)) \in Int
       /\ (Unmapped(D, SignExtend(Mapped(D), half)) - D.value) % (2 * half) = 0
  BY <1>2, <1>5, <1>7, DifferenceRead
<1>11. sent \in -half..half /\ back \in Int /\ (back - value) % (2 * half) = 0
  BY <1>7, <1>8, <1>9, <1>10 DEF symbol
<1>12. PICK t \in Int : back = value + 2 * half * t
  <2> DEFINE r == 2 * half
             u == back - value
             t == u \div r
  <2>1. r \in Nat /\ r > 0 /\ u \in Int /\ u % r = 0
    BY <1>2, <1>5, <1>11
  <2> HIDE DEF r, u
  <2>2. t \in Int /\ u = r * t + (u % r)
    BY <2>1, Remainder
  <2> HIDE DEF t
  <2>3. u = r * t /\ r * t \in Int
    BY <2>1, <2>2
  <2>4. back = value + r * t
    BY <1>5, <1>11, <2>3 DEF u
  <2>5. QED
    BY <2>2, <2>4 DEF r
<1>13. PICK e \in Int : Negated(n, back) = d + 2 * half * e
  <2>1. CASE n.inverted
    <3>1. Negated(n, back) = -back /\ d = -value
      BY <1>6, <2>1 DEF Negated
    <3>2. 2 * half * (-t) = -(2 * half * t) /\ 2 * half * t \in Int /\ -t \in Int
      BY <1>2, <1>12
    <3>3. Negated(n, back) = d + 2 * half * (-t)
      BY <1>5, <1>12, <3>1, <3>2
    <3>4. QED
      BY <3>2, <3>3
  <2>2. CASE ~n.inverted
    <3>1. Negated(n, back) = back /\ d = value
      BY <1>6, <2>2 DEF Negated
    <3>2. QED
      BY <1>12, <3>1
  <2>3. QED
    BY <2>1, <2>2
<1>14. Negated(n, back) = sample - guess + 2 * half * (q + e)
  <2>1. 2 * half * (q + e) = 2 * half * q + 2 * half * e /\ 2 * half * q \in Int /\ 2 * half * e \in Int
    BY <1>2
  <2>2. QED
    BY <1>4, <1>13, <1>20, <2>1
<1>15. Negated(n, back) \in Int
  BY <1>11 DEF Negated
<1>16. Reconstructed(guess, Negated(n, back), bits) = sample
  <2>1. q + e \in Int
    OBVIOUS
  <2> DEFINE z == Negated(n, back)
             k == q + e
  <2>2. z \in Int /\ k \in Int /\ z = sample - guess + 2 * HalfOf(s, p) * k
    BY <1>14, <1>15, <2>1 DEF half
  <2> HIDE DEF z, k
  <2>3. Reconstructed(guess, z, CodedBits(s, p)) = sample
    BY <2>2, Rebuilt
  <2>4. QED
    BY <2>3 DEF z, bits
<1>17. QED
  BY <1>11, <1>16 DEF sent, value, d, half, bits, symbol, back

-----------------------------------------------------------------------------
(***************************************************************************)
(* The rows of the image, and their transformed samples.                   *)
(***************************************************************************)
(***************************************************************************)
(* Planes and rows.                                                        *)
(***************************************************************************)
PlaneCount(s) == (IF s.rgb THEN 3 ELSE 1) + (IF s.extra THEN 1 ELSE 0)

LEMMA PlanesAre ==
  ASSUME NEW s \in StreamParameters
  PROVE  /\ Planes(s) = 1..PlaneCount(s) /\ Cardinality(Planes(s)) = PlaneCount(s)
         /\ PlaneCount(s) \in 1..4
         /\ s.rgb => PlaneCount(s) \in 3..4
<1>1. s.rgb \in BOOLEAN /\ s.extra \in BOOLEAN
  BY StreamParts
<1>2. PlaneCount(s) \in 1..4 /\ (s.rgb => PlaneCount(s) \in 3..4)
  BY <1>1 DEF PlaneCount
<1>3. Planes(s) = 1..PlaneCount(s)
  BY DEF Planes, PlaneCount
<1>4. Cardinality(1..PlaneCount(s)) = PlaneCount(s)
  <2> DEFINE n == PlaneCount(s)
  <2>1. n \in Int /\ 1 \in Int /\ n >= 1
    BY <1>2
  <2> HIDE DEF n
  <2>2. Cardinality(1..n) = IF 1 > n THEN 0 ELSE n - 1 + 1
    BY <2>1, FS_Interval
  <2>3. Cardinality(1..n) = n
    BY <2>1, <2>2
  <2>4. QED
    BY <2>3 DEF n
<1>5. QED
  BY <1>2, <1>3, <1>4

LEMMA ImageSample ==
  ASSUME NEW s, NEW img \in Pictures(s), NEW p \in Planes(s), NEW line \in 1..s.height,
         NEW i \in 1..s.width
  PROVE  img[p][line][i] \in 0..(2^s.bits - 1)
<1> DEFINE R == 0..(2^s.bits - 1)
<1>1. img \in [Planes(s) -> [1..s.height -> [1..s.width -> R]]]
  BY DEF Pictures
<1> HIDE DEF R
<1>2. img[p] \in [1..s.height -> [1..s.width -> R]]
  BY <1>1
<1>4. img[p][line] \in [1..s.width -> R]
  BY <1>2
<1>5. img[p][line][i] \in R
  BY <1>4
<1>6. QED
  BY <1>5 DEF R

LEMMA RawRange ==
  ASSUME NEW s \in StreamParameters
  PROVE  /\ 2^s.bits \in Nat /\ 2^s.bits > 0 /\ 2^(s.bits + 1) = 2 * 2^s.bits
         /\ \A p : SampleRange(s, p) = 0..(2^s.bits - 1) \/ SampleRange(s, p) = 0..(2 * 2^s.bits - 1)
         /\ \A p : CodedBits(s, p) = s.bits + 1 => SampleRange(s, p) = 0..(2 * 2^s.bits - 1)
         /\ \A p : CodedBits(s, p) = s.bits => SampleRange(s, p) = 0..(2^s.bits - 1)
<1>1. s.bits \in Parameters /\ s.bits \in 0..30
  <2>1. s.bits \in 1..16
    BY StreamParts
  <2>2. QED
    BY <2>1 DEF Parameters
<1>2. 2^s.bits \in Nat /\ 2^s.bits > 0 /\ 2^(s.bits + 1) = 2 * 2^s.bits
  BY <1>1, PowerPositive, PowerDouble
<1>3. \A p : CodedBits(s, p) = s.bits + 1 => SampleRange(s, p) = 0..(2 * 2^s.bits - 1)
  BY <1>2 DEF SampleRange
<1>4. \A p : CodedBits(s, p) = s.bits => SampleRange(s, p) = 0..(2^s.bits - 1)
  BY <1>2 DEF SampleRange
<1>5. \A p : CodedBits(s, p) = s.bits \/ CodedBits(s, p) = s.bits + 1
  BY CodedBitsType
<1>6. QED
  BY <1>2, <1>3, <1>4, <1>5

\* The colour transform keeps one more bit and is undone.
LEMMA Transformed ==
  ASSUME NEW bits, NEW M \in Nat, M > 0, 2^bits = M, 2^(bits + 1) = 2 * M, NEW extra,
         NEW a \in 0..(M - 1), NEW b \in 0..(M - 1), NEW c \in 0..(M - 1)
  PROVE  LET f == ForwardTransform(<<a, b, c>>, bits, extra)
             g == InverseTransform(<<f[1], f[2], f[3]>>, bits, extra)
         IN /\ f[1] \in 0..(2 * M - 1) /\ f[2] \in 0..(2 * M - 1) /\ f[3] \in 0..(2 * M - 1)
            /\ g[1] = a /\ g[2] = b /\ g[3] = c
<1> DEFINE f == ForwardTransform(<<a, b, c>>, bits, extra)
           g == InverseTransform(<<f[1], f[2], f[3]>>, bits, extra)
           swaps == SwapsGreenAndBlue(bits, extra)
           base == IF swaps THEN c ELSE b
           other == IF swaps THEN b ELSE c
           cb == other - base
           cr == a - base
           quarter == (cb + cr) \div 4
           luma == (base + quarter) % (2 * M)
           back == luma - quarter
<1>1. f = <<luma, cb + M, cr + M>>
  BY Zenon DEF ForwardTransform
<1>2. /\ swaps => base = c /\ other = b
      /\ ~swaps => base = b /\ other = c
  OBVIOUS
<1> HIDE DEF f, swaps, base, other
<1>3. base \in 0..(M - 1) /\ other \in 0..(M - 1)
  BY <1>2
<1>4. cb \in Int /\ cr \in Int /\ -M < cb /\ cb < M /\ -M < cr /\ cr < M
  BY <1>3
<1>5. cb + base = other /\ cr + base = a
  BY <1>3
<1>6. quarter \in Int
  <2> HIDE DEF cb, cr
  <2>1. QED
    BY <1>4
<1> HIDE DEF cb, cr, quarter
<1>7. PICK t \in Int : luma = base + quarter + 2 * M * t /\ luma \in 0..(2 * M - 1) /\ 2 * M * t \in Int
  <2> DEFINE r == 2 * M
             v == base + quarter
             t == v \div r
  <2>1. r \in Nat /\ r > 0 /\ v \in Int
    BY <1>3, <1>6
  <2>2. luma = v % r
    OBVIOUS
  <2> HIDE DEF r, v, luma
  <2>3. t \in Int /\ v % r \in 0..(r - 1) /\ v = r * t + (v % r)
    BY <2>1, Remainder
  <2> HIDE DEF t
  <2>4. r * (-t) = -(r * t) /\ r * t \in Int
    BY <2>1, <2>3
  <2>5. luma = v + r * (-t) /\ luma \in 0..(r - 1) /\ r * (-t) \in Int /\ -t \in Int
    BY <2>1, <2>2, <2>3, <2>4
  <2>6. QED
    BY <2>5 DEF r, v
<1>8. f[1] = luma /\ f[2] = cb + M /\ f[3] = cr + M
  BY <1>1
<1> HIDE DEF luma
<1>9. f[1] \in 0..(2 * M - 1) /\ f[2] \in 0..(2 * M - 1) /\ f[3] \in 0..(2 * M - 1)
  BY <1>4, <1>7, <1>8
<1>10. /\ f[2] - 2^bits = cb /\ f[3] - 2^bits = cr
  BY <1>4, <1>8
<1>11. swaps => g = <<(cr + back) % M, (cb + back) % M, back % M>>
  BY <1>8, <1>10, Zenon DEF InverseTransform, swaps, quarter
<1>12. ~swaps => g = <<(cr + back) % M, back % M, (cb + back) % M>>
  BY <1>8, <1>10, Zenon DEF InverseTransform, swaps, quarter
<1> HIDE DEF g
<1>13. ASSUME NEW v \in 0..(M - 1), NEW e \in Int, v = e + base
       PROVE  (e + back) % M = v
  <2>1. back = base + 2 * M * t
    BY <1>3, <1>6, <1>7
  <2>2. 2 * M * t = M * (2 * t) /\ 2 * t \in Int
    OBVIOUS
  <2>3. e + back = v + M * (2 * t)
    BY <1>3, <1>7, <1>13, <2>1, <2>2
  <2>4. (v + M * (2 * t)) % M = v % M
    BY <2>2, SameRemainder
  <2>5. v % M = v
    BY SmallRemainder
  <2>6. QED
    BY <2>3, <2>4, <2>5
<1>14. back \in Int
  BY <1>6, <1>7
<1> HIDE DEF back
<1>15. (cr + back) % M = a
  BY <1>4, <1>5, <1>13
<1>16. (cb + back) % M = other
  BY <1>3, <1>4, <1>5, <1>13
<1>17. back % M = base
  <2>1. (0 + back) % M = base
    BY <1>3, <1>13
  <2>2. 0 + back = back
    BY <1>14
  <2>3. QED
    BY <2>1, <2>2
<1>18. g[1] = a /\ g[2] = b /\ g[3] = c
  <2>1. CASE swaps
    BY <1>2, <1>11, <1>15, <1>16, <1>17, <2>1
  <2>2. CASE ~swaps
    BY <1>2, <1>12, <1>15, <1>16, <1>17, <2>2
  <2>3. QED
    BY <2>1, <2>2
<1>19. QED
  BY <1>9, <1>18 DEF f, g

\* The samples of a row as they are coded.
LEMMA CodedRowType ==
  ASSUME NEW s \in StreamParameters, NEW img \in Pictures(s), NEW p \in Planes(s),
         NEW line \in 1..s.height
  PROVE  CodedRow(s, img, p, line) \in [1..s.width -> SampleRange(s, p)]
<1> DEFINE M == 2^s.bits
           sample(i) == IF s.rgb /\ p < 4
                        THEN ForwardTransform(<<img[1][line][i], img[2][line][i], img[3][line][i]>>,
                                              s.bits, s.extra)[p]
                        ELSE img[p][line][i]
<1>1. M \in Nat /\ M > 0 /\ 2^(s.bits + 1) = 2 * M /\ 2^s.bits = M
  BY RawRange
<1>2. /\ SampleRange(s, p) = 0..(M - 1) \/ SampleRange(s, p) = 0..(2 * M - 1)
      /\ CodedBits(s, p) = s.bits + 1 => SampleRange(s, p) = 0..(2 * M - 1)
  BY RawRange
<1>3. \A q \in Planes(s), i \in 1..s.width : img[q][line][i] \in 0..(M - 1)
  BY ImageSample
<1> HIDE DEF M
<1>4. ASSUME NEW i \in 1..s.width
      PROVE  sample(i) \in SampleRange(s, p)
  <2>1. CASE s.rgb /\ p < 4
    <3> DEFINE f == ForwardTransform(<<img[1][line][i], img[2][line][i], img[3][line][i]>>,
                                     s.bits, s.extra)
    <3>1. 1 \in Planes(s) /\ 2 \in Planes(s) /\ 3 \in Planes(s) /\ p \in 1..3
      BY <2>1, PlanesAre
    <3>2. img[1][line][i] \in 0..(M - 1) /\ img[2][line][i] \in 0..(M - 1) /\ img[3][line][i] \in 0..(M - 1)
      BY <1>3, <3>1
    <3>3. f[1] \in 0..(2 * M - 1) /\ f[2] \in 0..(2 * M - 1) /\ f[3] \in 0..(2 * M - 1)
      <4> DEFINE a == img[1][line][i]
                 b == img[2][line][i]
                 c == img[3][line][i]
                 g == ForwardTransform(<<a, b, c>>, s.bits, s.extra)
      <4>1. a \in 0..(M - 1) /\ b \in 0..(M - 1) /\ c \in 0..(M - 1)
        BY <3>2
      <4> HIDE DEF a, b, c
      <4>2. g[1] \in 0..(2 * M - 1) /\ g[2] \in 0..(2 * M - 1) /\ g[3] \in 0..(2 * M - 1)
        BY <1>1, <4>1, Transformed
      <4>3. f = g
        BY DEF a, b, c
      <4> HIDE DEF f, g
      <4>4. QED
        BY <4>2, <4>3
    <3> HIDE DEF f
    <3>4. f[p] \in 0..(2 * M - 1)
      <4>1. p = 1 \/ p = 2 \/ p = 3
        BY <3>1
      <4>2. QED
        BY <3>3, <4>1
    <3>5. CodedBits(s, p) = s.bits + 1
      BY <2>1 DEF CodedBits
    <3>6. sample(i) = f[p]
      BY <2>1 DEF f
    <3>7. QED
      BY <1>2, <3>4, <3>5, <3>6
  <2>2. CASE ~(s.rgb /\ p < 4)
    <3>1. sample(i) \in 0..(M - 1)
      BY <1>3, <2>2
    <3> HIDE DEF sample
    <3>2. 0..(M - 1) \subseteq 0..(2 * M - 1)
      BY <1>1
    <3>3. QED
      BY <1>2, <3>1, <3>2
  <2>3. QED
    BY <2>1, <2>2
<1>5. CodedRow(s, img, p, line) = [i \in 1..s.width |-> sample(i)]
  BY DEF CodedRow
<1> HIDE DEF sample
<1>6. QED
  BY <1>4, <1>5

\* store_planar_line and store_rgb_line.
RowOf(s, lines, p) ==
  [i \in 1..s.width |->
     CASE ~s.rgb -> lines[p].current[i]
       [] s.rgb /\ p < 4 ->
            InverseTransform(<<lines[1].current[i], lines[2].current[i], lines[3].current[i]>>,
                             s.bits, s.extra)[p]
       [] OTHER -> lines[p].current[i] % 2^s.bits]

LEMMA StoredRowIs ==
  ASSUME stream \in StreamParameters, NEW p \in Planes(stream)
  PROVE  StoredRow(p) = RowOf(stream, dec.lines, p)
<1> DEFINE line == [q \in Planes(stream) |-> dec.lines[q].current]
           w == stream.width
           left(i) == CASE ~stream.rgb -> line[p][i]
                        [] stream.rgb /\ p < 4 ->
                             InverseTransform(<<line[1][i], line[2][i], line[3][i]>>,
                                              stream.bits, stream.extra)[p]
                        [] OTHER -> line[p][i] % 2^stream.bits
           right(i) == CASE ~stream.rgb -> dec.lines[p].current[i]
                         [] stream.rgb /\ p < 4 ->
                              InverseTransform(<<dec.lines[1].current[i], dec.lines[2].current[i],
                                                 dec.lines[3].current[i]>>,
                                               stream.bits, stream.extra)[p]
                         [] OTHER -> dec.lines[p].current[i] % 2^stream.bits
<1>1. stream.rgb => 1 \in Planes(stream) /\ 2 \in Planes(stream) /\ 3 \in Planes(stream)
  BY PlanesAre
<1>2. line[p] = dec.lines[p].current
  OBVIOUS
<1>3. stream.rgb => /\ line[1] = dec.lines[1].current /\ line[2] = dec.lines[2].current
                    /\ line[3] = dec.lines[3].current
  BY <1>1
<1> HIDE DEF line
<1>4. ASSUME NEW i \in 1..w
      PROVE  left(i) = right(i)
  <2>1. CASE ~stream.rgb
    BY <1>2, <2>1
  <2>2. CASE stream.rgb /\ p < 4
    BY <1>3, <2>2
  <2>3. CASE stream.rgb /\ ~(p < 4)
    BY <1>2, <2>3
  <2>4. stream.rgb \in BOOLEAN
    BY StreamParts
  <2>5. QED
    BY <2>1, <2>2, <2>3, <2>4
<1>5. StoredRow(p) = [i \in 1..w |-> left(i)]
  BY Zenon DEF StoredRow, line
<1>6. RowOf(stream, dec.lines, p) = [i \in 1..w |-> right(i)]
  BY Zenon DEF RowOf
<1> HIDE DEF left, right
<1>7. QED
  BY <1>4, <1>5, <1>6

\* The stored row is the row of the image.
LEMMA RowBack ==
  ASSUME NEW s \in StreamParameters, NEW img \in Pictures(s), NEW p \in Planes(s),
         NEW line \in 1..s.height, NEW lines,
         lines[p].current = CodedRow(s, img, p, line),
         s.rgb => \A q \in Planes(s) : lines[q].current = CodedRow(s, img, q, line)
  PROVE  RowOf(s, lines, p) = img[p][line]
<1> DEFINE M == 2^s.bits
           w == s.width
           triple(i) == <<img[1][line][i], img[2][line][i], img[3][line][i]>>
           f(i) == ForwardTransform(triple(i), s.bits, s.extra)
           right(i) == CASE ~s.rgb -> lines[p].current[i]
                         [] s.rgb /\ p < 4 ->
                              InverseTransform(<<lines[1].current[i], lines[2].current[i],
                                                 lines[3].current[i]>>, s.bits, s.extra)[p]
                         [] OTHER -> lines[p].current[i] % 2^s.bits
<1>0. s.rgb \in BOOLEAN
  BY StreamParts
<1>1. M \in Nat /\ M > 0 /\ 2^(s.bits + 1) = 2 * M /\ 2^s.bits = M
  BY RawRange
<1>2. \A q \in Planes(s), i \in 1..w : img[q][line][i] \in 0..(M - 1)
  BY ImageSample
<1>3. \A q \in Planes(s), i \in 1..w :
        /\ s.rgb /\ q < 4 => CodedRow(s, img, q, line)[i] = f(i)[q]
        /\ ~(s.rgb /\ q < 4) => CodedRow(s, img, q, line)[i] = img[q][line][i]
  BY DEF CodedRow
<1> HIDE DEF f, M
<1>4. ASSUME NEW i \in 1..w
      PROVE  right(i) = img[p][line][i]
  <2>1. CASE ~s.rgb
    BY <1>3, <2>1
  <2>2. CASE s.rgb /\ p < 4
    <3>1. 1 \in Planes(s) /\ 2 \in Planes(s) /\ 3 \in Planes(s) /\ p \in 1..3
      BY <2>2, PlanesAre
    <3>2. lines[1].current[i] = f(i)[1] /\ lines[2].current[i] = f(i)[2] /\ lines[3].current[i] = f(i)[3]
      BY <1>3, <2>2, <3>1
    <3> DEFINE a == img[1][line][i]
               b == img[2][line][i]
               c == img[3][line][i]
               g == InverseTransform(<<f(i)[1], f(i)[2], f(i)[3]>>, s.bits, s.extra)
    <3>3. a \in 0..(M - 1) /\ b \in 0..(M - 1) /\ c \in 0..(M - 1)
      BY <1>2, <3>1
    <3>4. f(i) = ForwardTransform(<<a, b, c>>, s.bits, s.extra)
      BY DEF f
    <3>5. right(i) = g[p]
      BY <2>2, <3>2
    <3> HIDE DEF right
    <3>6. g[1] = a /\ g[2] = b /\ g[3] = c
      <4> HIDE DEF a, b, c
      <4>1. QED
        BY <1>1, <3>3, <3>4, Transformed
    <3> HIDE DEF g
    <3>7. p = 1 \/ p = 2 \/ p = 3
      BY <3>1
    <3>8. QED
      BY <3>5, <3>6, <3>7
  <2>3. CASE s.rgb /\ ~(p < 4)
    <3>1. right(i) = lines[p].current[i] % M
      BY <2>3 DEF M
    <3>2. lines[p].current[i] = img[p][line][i]
      BY <1>3, <2>3
    <3> HIDE DEF right
    <3> DEFINE v == img[p][line][i]
    <3>3. v \in 0..(M - 1)
      BY <1>2
    <3> HIDE DEF v
    <3>4. v % M = v
      BY <1>1, <3>3, SmallRemainder
    <3>5. QED
      BY <3>1, <3>2, <3>4 DEF v
  <2>4. QED
    BY <1>0, <2>1, <2>2, <2>3
<1>5. RowOf(s, lines, p) = [i \in 1..w |-> right(i)]
  BY Zenon DEF RowOf
<1> HIDE DEF right
<1>6. img[p][line] = [i \in 1..w |-> img[p][line][i]]
  <2> DEFINE R == 0..(2^s.bits - 1)
  <2>1. img \in [Planes(s) -> [1..s.height -> [1..s.width -> R]]]
    BY DEF Pictures
  <2> HIDE DEF R
  <2>2. img[p][line] \in [1..w -> R]
    BY <2>1
  <2>3. QED
    BY <2>2
<1>7. QED
  BY <1>4, <1>5, <1>6

-----------------------------------------------------------------------------
(***************************************************************************)
(* The order of the rows, and the parts of a slice state.                  *)
(***************************************************************************)
LEMMA Quotients ==
  ASSUME NEW r \in Nat, r > 0, NEW n \in Nat
  PROVE  /\ n \div r \in Nat /\ n % r \in 0..(r - 1) /\ n = r * (n \div r) + (n % r)
         /\ n % r = r - 1 => (n + 1) % r = 0 /\ (n + 1) \div r = (n \div r) + 1
         /\ n % r # r - 1 => (n + 1) % r = (n % r) + 1 /\ (n + 1) \div r = n \div r
<1> DEFINE q == n \div r
           m == n % r
           u == (n + 1) \div r
           v == (n + 1) % r
<1>1. q \in Int /\ m \in 0..(r - 1) /\ n = r * q + m
  BY Remainder
<1>2. u \in Int /\ v \in 0..(r - 1) /\ n + 1 = r * u + v
  <2>1. n + 1 \in Int
    OBVIOUS
  <2>2. QED
    BY <2>1, Remainder
<1> HIDE DEF q, m, u, v
<1>3. q >= 0
  <2> SUFFICES ASSUME q <= -1
               PROVE  FALSE
    BY <1>1
  <2>1. r * q <= r * (-1) /\ r * q \in Int
    BY <1>1
  <2>2. QED
    BY <1>1, <2>1
<1>4. r * q \in Int /\ r * u \in Int /\ r * (u - q) = r * u - r * q
  BY <1>1, <1>2
<1>5. r * (u - q) = m + 1 - v
  BY <1>1, <1>2, <1>4
<1>6. u - q >= 2 => r * (u - q) >= 2 * r
  BY <1>1, <1>2
<1>7. u - q <= -1 => r * (u - q) <= -r
  BY <1>1, <1>2
<1>8. u - q = 1 => r * (u - q) = r
  OBVIOUS
<1>9. u - q = 0 => r * (u - q) = 0
  OBVIOUS
<1>10. \/ u - q = 0 /\ v = m + 1
       \/ u - q = 1 /\ v = m + 1 - r
  <2>1. m + 1 - v <= r /\ -r < m + 1 - v
    BY <1>1, <1>2
  <2>2. u - q = 0 \/ u - q = 1
    BY <1>1, <1>2, <1>5, <1>6, <1>7, <2>1
  <2>3. QED
    BY <1>1, <1>2, <1>5, <1>8, <1>9, <2>2
<1>11. m = r - 1 => v = 0 /\ u = q + 1
  BY <1>1, <1>2, <1>10
<1>12. m # r - 1 => v = m + 1 /\ u = q
  BY <1>1, <1>2, <1>10
<1>13. q \in Nat
  BY <1>1, <1>3
<1>14. QED
  BY <1>1, <1>11, <1>12, <1>13 DEF q, m, u, v

LEMMA QuotientBelow ==
  ASSUME NEW r \in Nat, r > 0, NEW k \in Nat, NEW n \in Nat, n < k * r
  PROVE  n \div r < k
<1> DEFINE q == n \div r
           m == n % r
<1>1. q \in Nat /\ m \in 0..(r - 1) /\ n = r * q + m
  BY Quotients
<1> HIDE DEF q, m
<1>2. SUFFICES ASSUME q >= k
               PROVE  FALSE
  BY <1>1 DEF q
<1>3. r * q >= r * k
  BY <1>1, <1>2
<1>4. r * k = k * r /\ r * q \in Nat /\ r * k \in Nat
  BY <1>1
<1>5. QED
  BY <1>1, <1>3, <1>4

LEMMA RowsAre ==
  ASSUME NEW s \in StreamParameters
  PROVE  Rows(s) = s.height * PlaneCount(s) /\ Rows(s) \in Nat /\ Rows(s) >= 1
<1>1. s.height \in Nat /\ s.height >= 1 /\ PlaneCount(s) \in 1..4 /\ Cardinality(Planes(s)) = PlaneCount(s)
  BY StreamParts, PlanesAre
<1>2. Rows(s) = s.height * PlaneCount(s)
  BY <1>1 DEF Rows
<1> DEFINE h == s.height
           n == PlaneCount(s)
<1>3. h \in Nat /\ h >= 1 /\ n \in Nat /\ n >= 1
  BY <1>1
<1> HIDE DEF h, n
<1>4. h * n \in Nat /\ h * n >= h
  BY <1>3
<1>5. QED
  BY <1>2, <1>3, <1>4 DEF h, n

LEMMA RowPlaces ==
  ASSUME NEW s \in StreamParameters, NEW n \in Nat, n < Rows(s)
  PROVE  RowPlane(s, n) \in Planes(s) /\ RowLine(s, n) \in 1..s.height
<1> DEFINE N == PlaneCount(s)
           h == s.height
<1>1. h \in Nat /\ h >= 1 /\ N \in 1..4 /\ Cardinality(Planes(s)) = N /\ Planes(s) = 1..N
  BY StreamParts, PlanesAre
<1>2. n < h * N
  BY RowsAre
<1>3. s.rgb => RowPlane(s, n) = (n % N) + 1 /\ RowLine(s, n) = (n \div N) + 1
  BY <1>1 DEF RowPlane, RowLine
<1>4. ~s.rgb => RowPlane(s, n) = (n \div h) + 1 /\ RowLine(s, n) = (n % h) + 1
  BY DEF RowPlane, RowLine
<1> HIDE DEF N, h
<1>5. N \in Nat /\ N > 0 /\ h > 0
  BY <1>1
<1>6. n \div N \in Nat /\ n % N \in 0..(N - 1) /\ n \div h \in Nat /\ n % h \in 0..(h - 1)
  BY <1>1, <1>5, Quotients
<1>7. n \div N < h
  BY <1>1, <1>2, <1>5, QuotientBelow
<1>8. n \div h < N
  <2>1. n < N * h
    BY <1>1, <1>2, <1>5
  <2>2. QED
    BY <1>1, <1>5, <2>1, QuotientBelow
<1>9. CASE s.rgb
  BY <1>1, <1>3, <1>5, <1>6, <1>7, <1>9 DEF h
<1>10. CASE ~s.rgb
  BY <1>1, <1>4, <1>5, <1>6, <1>8, <1>10 DEF h
<1>11. QED
  BY <1>9, <1>10

(***************************************************************************)
(* Slice states.                                                           *)
(***************************************************************************)
RunSet == [run_index : RunIndexes, pending_count : {0}]

GoodContexts(s, contexts) ==
  /\ contexts \in [0..2 -> [0..(s.context_count - 1) -> ContextState]]
  /\ \A b \in 0..2 : \A n \in 0..(s.context_count - 1) : InBounds(contexts[b][n], HalfOf(s, 1))

GoodLines(s, lines) ==
  /\ lines = [p \in Planes(s) |-> lines[p]]
  /\ \A p \in Planes(s) : lines[p] \in LineType(s, p)

IsState(state) ==
  state = [lines |-> state.lines, contexts |-> state.contexts, runs |-> state.runs]

GoodState(s, state) ==
  /\ IsState(state)
  /\ GoodLines(s, state.lines)
  /\ GoodContexts(s, state.contexts)
  /\ state.runs \in [Planes(s) -> RunSet]

StoredAt(line, i, sample) == [line EXCEPT !.current[i] = sample]

LEMMA StoredAtType ==
  ASSUME NEW s, NEW p, NEW line \in LineType(s, p), NEW i \in 1..s.width, NEW v \in SampleRange(s, p)
  PROVE  StoredAt(line, i, v) \in LineType(s, p)
<1> DEFINE R == SampleRange(s, p)
           W == 1..s.width
<1>1. line \in [border : {0}, current : [W -> R], previous : [W -> R], second_previous : [W -> R]]
  BY DEF LineType
<1> HIDE DEF R, W
<1>2. [line.current EXCEPT ![i] = v] \in [W -> R]
  <2>1. line.current \in [W -> R] /\ i \in W /\ v \in R
    BY <1>1 DEF W, R
  <2>2. QED
    BY <2>1
<1>3. StoredAt(line, i, v) = [line EXCEPT !.current = [line.current EXCEPT ![i] = v]]
  BY DEF StoredAt
<1>4. StoredAt(line, i, v) \in
        [border : {0}, current : [W -> R], previous : [W -> R], second_previous : [W -> R]]
  BY <1>1, <1>2, <1>3
<1>5. QED
  BY <1>4 DEF LineType, W, R

LEMMA LinesUpdated ==
  ASSUME NEW s, NEW lines, GoodLines(s, lines), NEW p \in Planes(s), NEW line \in LineType(s, p)
  PROVE  /\ GoodLines(s, [lines EXCEPT ![p] = line])
         /\ [lines EXCEPT ![p] = line][p] = line
         /\ \A q \in Planes(s) : q # p => [lines EXCEPT ![p] = line][q] = lines[q]
<1> DEFINE new == [lines EXCEPT ![p] = line]
<1>1. lines = [q \in Planes(s) |-> lines[q]] /\ \A q \in Planes(s) : lines[q] \in LineType(s, q)
  BY DEF GoodLines
<1>2. new = [q \in Planes(s) |-> IF q = p THEN line ELSE lines[q]]
  BY <1>1
<1> HIDE DEF new
<1>3. new[p] = line /\ \A q \in Planes(s) : q # p => new[q] = lines[q]
  BY <1>2
<1>4. new = [q \in Planes(s) |-> new[q]]
  BY <1>2
<1>5. \A q \in Planes(s) : new[q] \in LineType(s, q)
  BY <1>1, <1>3
<1>6. GoodLines(s, new)
  BY <1>4, <1>5 DEF GoodLines
<1>7. QED
  BY <1>3, <1>6 DEF new

\* States from their parts.
LEMMA StateParts ==
  ASSUME NEW lines, NEW contexts, NEW runs
  PROVE  LET state == [lines |-> lines, contexts |-> contexts, runs |-> runs]
         IN /\ state.lines = lines /\ state.contexts = contexts /\ state.runs = runs
            /\ IsState(state)
  BY DEF IsState

\* The state with a sample stored, a line or a context or the runs changed.
LEMMA StoreParts ==
  ASSUME NEW state, IsState(state), NEW p, NEW i, NEW v
  PROVE  Store(state, p, i, v) =
           [lines |-> [state.lines EXCEPT ![p] = StoredAt(@, i, v)],
            contexts |-> state.contexts, runs |-> state.runs]
<1>1. state = [lines |-> state.lines, contexts |-> state.contexts, runs |-> state.runs]
  BY DEF IsState
<1>2. Store(state, p, i, v) = [state EXCEPT !.lines = [state.lines EXCEPT ![p] = StoredAt(@, i, v)]]
  BY DEF Store, StoredAt
<1>3. QED
  BY <1>1, <1>2

LEMMA AdaptParts ==
  ASSUME NEW state, IsState(state), NEW b, NEW n, NEW c
  PROVE  Adapt(state, b, n, c) =
           [lines |-> state.lines, contexts |-> [state.contexts EXCEPT ![b][n] = c],
            runs |-> state.runs]
<1>1. state = [lines |-> state.lines, contexts |-> state.contexts, runs |-> state.runs]
  BY DEF IsState
<1>2. Adapt(state, b, n, c) = [state EXCEPT !.contexts = [state.contexts EXCEPT ![b][n] = c]]
  BY DEF Adapt
<1>3. QED
  BY <1>1, <1>2

LEMMA ContextsUpdated ==
  ASSUME NEW s, NEW contexts, GoodContexts(s, contexts), NEW b \in 0..2,
         NEW n \in 0..(s.context_count - 1), NEW c, InBounds(c, HalfOf(s, 1))
  PROVE  GoodContexts(s, [contexts EXCEPT ![b][n] = c])
<1> DEFINE N == 0..(s.context_count - 1)
           new == [contexts EXCEPT ![b][n] = c]
           half == HalfOf(s, 1)
<1>1. /\ contexts \in [0..2 -> [N -> ContextState]]
      /\ \A d \in 0..2 : \A m \in N : InBounds(contexts[d][m], half)
  BY DEF GoodContexts
<1>2. c \in ContextState
  BY DEF InBounds
<1>3. n \in N /\ InBounds(c, half)
  OBVIOUS
<1> HIDE DEF N, half
<1>4. [contexts[b] EXCEPT ![n] = c] \in [N -> ContextState]
  <2>1. contexts[b] \in [N -> ContextState]
    BY <1>1
  <2>2. QED
    BY <1>2, <1>3, <2>1
<1>5. new \in [0..2 -> [N -> ContextState]]
  BY <1>1, <1>4
<1>6. \A d \in 0..2 : \A m \in N : InBounds(new[d][m], half)
  <2> SUFFICES ASSUME NEW d \in 0..2, NEW m \in N
               PROVE  InBounds(new[d][m], half)
    OBVIOUS
  <2>1. contexts[d] \in [N -> ContextState]
    BY <1>1
  <2>2. CASE d = b /\ m = n
    BY <1>1, <1>3, <2>1, <2>2
  <2>3. CASE d = b /\ m # n
    <3>1. new[d][m] = contexts[d][m]
      BY <1>1, <1>3, <2>1, <2>3
    <3>2. QED
      BY <1>1, <3>1
  <2>4. CASE d # b
    <3>1. new[d][m] = contexts[d][m]
      BY <1>1, <1>3, <2>1, <2>4
    <3>2. QED
      BY <1>1, <3>1
  <2>5. QED
    BY <2>2, <2>3, <2>4
<1>7. QED
  BY <1>5, <1>6 DEF GoodContexts, N, half

-----------------------------------------------------------------------------
(***************************************************************************)
(* Slice states after a sample.                                            *)
(***************************************************************************)
Codes(s) ==
  IF s.golomb THEN {0, 1} ELSE [bank : 0..2, context : 0..(s.context_count - 1), value : Int]

LEMMA GolombDepth ==
  ASSUME NEW s \in StreamParameters, s.golomb, NEW p
  PROVE  /\ CodedBits(s, p) = CodedBits(s, 1) /\ HalfOf(s, p) = HalfOf(s, 1)
         /\ ~Signed16(s)
<1>1. CodedBits(s, p) = CodedBits(s, 1)
  BY DEF CodedBits
<1>2. ~Signed16(s)
  BY DEF Signed16
<1>3. QED
  BY <1>1, <1>2 DEF HalfOf

LEMMA SwapType ==
  ASSUME NEW s \in StreamParameters, NEW p, NEW line \in LineType(s, p)
  PROVE  SwapLines(line) \in LineType(s, p)
<1> DEFINE R == SampleRange(s, p)
           W == 1..s.width
<1>1. line \in [border : {0}, current : [W -> R], previous : [W -> R], second_previous : [W -> R]]
  BY DEF LineType
<1>2. 0 \in R
  BY SampleRangeType
<1> HIDE DEF R, W
<1>3. line.current \in [W -> R] /\ line.border = 0
  BY <1>1
<1>4. [i \in DOMAIN line.current |-> line.border] \in [W -> R]
  BY <1>2, <1>3
<1>5. SwapLines(line) \in
        [border : {0}, current : [W -> R], previous : [W -> R], second_previous : [W -> R]]
  BY <1>1, <1>4 DEF SwapLines
<1>6. QED
  BY <1>5 DEF LineType, R, W

LEMMA NewLineType ==
  ASSUME NEW s \in StreamParameters, NEW p
  PROVE  ResetLine(s.width, 0) \in LineType(s, p)
<1> DEFINE R == SampleRange(s, p)
           W == 1..s.width
<1>2. 0 \in R
  BY SampleRangeType
<1>1. ResetLine(s.width, 0) = [border |-> 0, current |-> [i \in W |-> 0],
                               previous |-> [i \in W |-> 0], second_previous |-> [i \in W |-> 0]]
  BY DEF ResetLine
<1> HIDE DEF R, W
<1>3. [i \in W |-> 0] \in [W -> R]
  BY <1>2
<1>4. ResetLine(s.width, 0) \in
        [border : {0}, current : [W -> R], previous : [W -> R], second_previous : [W -> R]]
  BY <1>1, <1>3
<1>5. QED
  BY <1>4 DEF LineType, R, W

LEMMA BankType ==
  ASSUME NEW s \in StreamParameters, NEW p \in Planes(s)
  PROVE  Bank(s, p) \in 0..2 /\ RunBank(s, p) \in Planes(s)
<1>1. Bank(s, p) \in 0..2
  BY DEF Bank
<1>2. 1 \in Planes(s)
  BY PlanesAre
<1>3. RunBank(s, p) \in Planes(s)
  BY <1>2 DEF RunBank
<1>4. QED
  BY <1>1, <1>3

(***************************************************************************)
(* A state with one line, the contexts and the runs changed.               *)
(***************************************************************************)
Put(f, place, value) == [f EXCEPT ![place] = value]

Changed(state, p, line, contexts, runs) ==
  [lines |-> [state.lines EXCEPT ![p] = line], contexts |-> contexts, runs |-> runs]

LEMMA ChangedParts ==
  ASSUME NEW state, NEW p, NEW line, NEW contexts, NEW runs
  PROVE  /\ IsState(Changed(state, p, line, contexts, runs))
         /\ Changed(state, p, line, contexts, runs).lines = Put(state.lines, p, line)
         /\ Changed(state, p, line, contexts, runs).contexts = contexts
         /\ Changed(state, p, line, contexts, runs).runs = runs
  BY DEF Changed, IsState, Put

LEMMA ChangedGood ==
  ASSUME NEW s, NEW state, GoodState(s, state), NEW p \in Planes(s),
         NEW line \in LineType(s, p), NEW contexts, GoodContexts(s, contexts),
         NEW runs \in [Planes(s) -> RunSet]
  PROVE  LET new == Changed(state, p, line, contexts, runs)
         IN /\ GoodState(s, new) /\ new.lines[p] = line
            /\ \A q \in Planes(s) : q # p => new.lines[q] = state.lines[q]
<1>9. /\ IsState(Changed(state, p, line, contexts, runs))
      /\ Changed(state, p, line, contexts, runs).lines = Put(state.lines, p, line)
      /\ Changed(state, p, line, contexts, runs).contexts = contexts
      /\ Changed(state, p, line, contexts, runs).runs = runs
  BY ChangedParts
<1> DEFINE new == Changed(state, p, line, contexts, runs)
           L == [state.lines EXCEPT ![p] = line]
<1>1. GoodLines(s, state.lines)
  BY DEF GoodState
<1>2. GoodLines(s, L) /\ L[p] = line /\ \A q \in Planes(s) : q # p => L[q] = state.lines[q]
  BY <1>1, LinesUpdated
<1> HIDE DEF L
<1>3. IsState(new) /\ new.lines = L /\ new.contexts = contexts /\ new.runs = runs
  BY <1>9 DEF L, Put
<1> HIDE DEF new
<1>4. GoodState(s, new)
  BY <1>2, <1>3 DEF GoodState
<1>5. QED
  BY <1>2, <1>3, <1>4 DEF new

PutContext(contexts, b, n, c) == [contexts EXCEPT ![b][n] = c]

LEMMA StoreIs ==
  ASSUME NEW state, IsState(state), NEW p, NEW i, NEW v, NEW b, NEW n, NEW c
  PROVE  /\ Store(state, p, i, v) =
              Changed(state, p, StoredAt(state.lines[p], i, v), state.contexts, state.runs)
         /\ Store(Adapt(state, b, n, c), p, i, v) =
              Changed(state, p, StoredAt(state.lines[p], i, v),
                      PutContext(state.contexts, b, n, c), state.runs)
<1>1. \A L, line : [L EXCEPT ![p] = StoredAt(@, i, v)] = [L EXCEPT ![p] = StoredAt(L[p], i, v)]
  OBVIOUS
<1>2. Store(state, p, i, v) =
        Changed(state, p, StoredAt(state.lines[p], i, v), state.contexts, state.runs)
  BY StoreParts DEF Changed
<1> DEFINE between == Adapt(state, b, n, c)
           C == PutContext(state.contexts, b, n, c)
<1>3. between = [lines |-> state.lines, contexts |-> C, runs |-> state.runs]
  BY AdaptParts DEF PutContext
<1>4. between.lines = state.lines /\ between.contexts = C /\ between.runs = state.runs
      /\ IsState(between)
  BY <1>3, StateParts
<1> HIDE DEF between, C
<1>5. Store(between, p, i, v) =
        [lines |-> [between.lines EXCEPT ![p] = StoredAt(@, i, v)],
         contexts |-> between.contexts, runs |-> between.runs]
  BY <1>4, StoreParts
<1>6. Store(between, p, i, v) = Changed(state, p, StoredAt(state.lines[p], i, v), C, state.runs)
  BY <1>4, <1>5 DEF Changed
<1>7. QED
  BY <1>2, <1>6 DEF between, C

LEMMA LineOf ==
  ASSUME NEW s, NEW state, GoodState(s, state), NEW p \in Planes(s)
  PROVE  /\ IsState(state) /\ state.lines[p] \in LineType(s, p) /\ GoodContexts(s, state.contexts)
         /\ state.runs \in [Planes(s) -> RunSet]
  BY DEF GoodState, GoodLines

(***************************************************************************)
(* The samples of a row up to a place.                                     *)
(***************************************************************************)
Stored(line, samples, upto) == \A i \in 1..upto : line.current[i] = samples[i]

LEMMA StoredNext ==
  ASSUME NEW s \in StreamParameters, NEW p, NEW line \in LineType(s, p), NEW i \in 1..s.width,
         NEW samples, Stored(line, samples, i - 1)
  PROVE  Stored(StoredAt(line, i, samples[i]), samples, i)
<1> DEFINE new == StoredAt(line, i, samples[i])
<1>1. line.current = [j \in 1..s.width |-> line.current[j]]
  BY LineParts
<1>3. line = [border |-> line.border, current |-> line.current,
              previous |-> line.previous, second_previous |-> line.second_previous]
  BY LineParts
<1>2. new.current = [line.current EXCEPT ![i] = samples[i]]
  BY <1>3 DEF StoredAt
<1> HIDE DEF new
<1>4. s.width \in Nat
  BY StreamParts
<1>5. ASSUME NEW j \in 1..i
      PROVE  new.current[j] = samples[j]
  <2>1. j \in 1..s.width
    BY <1>4
  <2>2. CASE j = i
    BY <1>1, <1>2, <2>1, <2>2
  <2>3. CASE j # i
    <3>1. j \in 1..(i - 1)
      BY <1>4, <2>3
    <3>2. line.current[j] = samples[j]
      BY <3>1 DEF Stored
    <3>3. QED
      BY <1>1, <1>2, <2>1, <2>3, <3>2
  <2>4. QED
    BY <2>2, <2>3
<1>6. QED
  BY <1>5 DEF Stored, new

UntilRow(s, line, samples, from, i) ==
  [j \in 1..s.width |-> IF j \in from..i THEN samples[j] ELSE line.current[j]]

\* StoredUntil: its type, where it starts, and one sample more.
LEMMA UntilType ==
  ASSUME NEW s \in StreamParameters, NEW p, NEW line \in LineType(s, p),
         NEW samples \in [1..s.width -> SampleRange(s, p)], NEW from, NEW i
  PROVE  /\ StoredUntil(line, samples, from, i) \in LineType(s, p)
         /\ StoredUntil(line, samples, from, i).current = UntilRow(s, line, samples, from, i)
<1> DEFINE R == SampleRange(s, p)
           W == 1..s.width
           C == [j \in W |-> IF j \in from..i THEN samples[j] ELSE line.current[j]]
           new == StoredUntil(line, samples, from, i)
<1>1. line \in [border : {0}, current : [W -> R], previous : [W -> R], second_previous : [W -> R]]
  BY DEF LineType
<1>2. samples \in [W -> R]
  OBVIOUS
<1> HIDE DEF R, W
<1>3. DOMAIN line.current = W /\ line.current \in [W -> R]
  BY <1>1
<1>4. C \in [W -> R]
  BY <1>2, <1>3
<1>5. new = [line EXCEPT !.current = C]
  BY <1>3 DEF StoredUntil
<1> HIDE DEF C, new
<1>6. new.current = C
  BY <1>1, <1>5
<1>7. new \in [border : {0}, current : [W -> R], previous : [W -> R], second_previous : [W -> R]]
  BY <1>1, <1>4, <1>5
<1>8. QED
  BY <1>6, <1>7 DEF LineType, R, W, new, C, UntilRow

LEMMA LinesEqual ==
  ASSUME NEW s, NEW p, NEW a \in LineType(s, p), NEW b \in LineType(s, p),
         a.current = b.current, a.previous = b.previous, a.second_previous = b.second_previous
  PROVE  a = b
<1>1. /\ a = [border |-> a.border, current |-> a.current, previous |-> a.previous,
              second_previous |-> a.second_previous]
      /\ a.border = 0
  BY LineParts
<1>2. /\ b = [border |-> b.border, current |-> b.current, previous |-> b.previous,
              second_previous |-> b.second_previous]
      /\ b.border = 0
  BY LineParts
<1>3. QED
  BY <1>1, <1>2

LEMMA UntilParts ==
  ASSUME NEW s, NEW p, NEW line \in LineType(s, p), NEW samples, NEW from, NEW i
  PROVE  /\ StoredUntil(line, samples, from, i).previous = line.previous
         /\ StoredUntil(line, samples, from, i).second_previous = line.second_previous
<1>1. line = [border |-> line.border, current |-> line.current,
              previous |-> line.previous, second_previous |-> line.second_previous]
  BY LineParts
<1>2. QED
  BY <1>1 DEF StoredUntil

LEMMA AtParts ==
  ASSUME NEW s, NEW p, NEW line \in LineType(s, p), NEW i, NEW v
  PROVE  /\ StoredAt(line, i, v).previous = line.previous
         /\ StoredAt(line, i, v).second_previous = line.second_previous
         /\ StoredAt(line, i, v).current = Put(line.current, i, v)
<1>1. line = [border |-> line.border, current |-> line.current,
              previous |-> line.previous, second_previous |-> line.second_previous]
  BY LineParts
<1>2. QED
  BY <1>1 DEF StoredAt, Put

LEMMA UntilStart ==
  ASSUME NEW s \in StreamParameters, NEW p, NEW line \in LineType(s, p),
         NEW samples \in [1..s.width -> SampleRange(s, p)], NEW from \in Nat
  PROVE  StoredUntil(line, samples, from, from - 1) = line
<1> DEFINE new == StoredUntil(line, samples, from, from - 1)
<1>1. /\ new \in LineType(s, p)
      /\ new.current = UntilRow(s, line, samples, from, from - 1)
  BY UntilType
<1>2. new.previous = line.previous /\ new.second_previous = line.second_previous
  BY UntilParts
<1> HIDE DEF new
<1>3. line.current = [j \in 1..s.width |-> line.current[j]]
  BY LineParts
<1>4. \A j : j \notin from..(from - 1)
  OBVIOUS
<1>5. new.current = line.current
  BY <1>1, <1>3, <1>4 DEF UntilRow
<1>6. QED
  BY <1>1, <1>2, <1>5, LinesEqual DEF new

LEMMA UntilNext ==
  ASSUME NEW s \in StreamParameters, NEW p, NEW line \in LineType(s, p),
         NEW samples \in [1..s.width -> SampleRange(s, p)], NEW from \in Nat,
         NEW i \in 1..s.width, from <= i
  PROVE  StoredAt(StoredUntil(line, samples, from, i - 1), i, samples[i]) =
           StoredUntil(line, samples, from, i)
<1> DEFINE a == StoredUntil(line, samples, from, i - 1)
           b == StoredUntil(line, samples, from, i)
           c == StoredAt(a, i, samples[i])
<1>0. s.width \in Nat /\ samples[i] \in SampleRange(s, p)
  BY StreamParts
<1>1. /\ a \in LineType(s, p)
      /\ a.current = UntilRow(s, line, samples, from, i - 1)
  BY UntilType
<1>2. /\ b \in LineType(s, p)
      /\ b.current = UntilRow(s, line, samples, from, i)
  BY UntilType
<1>3. /\ a.previous = line.previous /\ a.second_previous = line.second_previous
      /\ b.previous = line.previous /\ b.second_previous = line.second_previous
  BY UntilParts
<1> HIDE DEF a, b
<1>4. /\ c.previous = a.previous /\ c.second_previous = a.second_previous
      /\ c.current = [a.current EXCEPT ![i] = samples[i]]
  <2> DEFINE v == samples[i]
  <2> HIDE DEF v
  <2>1. /\ StoredAt(a, i, v).previous = a.previous
        /\ StoredAt(a, i, v).second_previous = a.second_previous
        /\ StoredAt(a, i, v).current = Put(a.current, i, v)
    BY <1>1, AtParts
  <2>2. QED
    BY <2>1 DEF v, Put
<1>5. c \in LineType(s, p)
  BY <1>0, <1>1, StoredAtType
<1> HIDE DEF c
<1>6. c.current = [j \in 1..s.width |-> IF j = i THEN samples[i] ELSE a.current[j]]
  BY <1>1, <1>4 DEF UntilRow
<1>7. \A j \in 1..s.width : c.current[j] = b.current[j]
  BY <1>0, <1>1, <1>2, <1>6 DEF UntilRow
<1>8. c.current = b.current
  BY <1>2, <1>6, <1>7 DEF UntilRow
<1>9. QED
  BY <1>2, <1>3, <1>4, <1>5, <1>8, LinesEqual DEF a, b, c

LEMMA UntilStored ==
  ASSUME NEW s \in StreamParameters, NEW p, NEW line \in LineType(s, p),
         NEW samples \in [1..s.width -> SampleRange(s, p)], NEW from \in 1..(s.width + 1),
         NEW i \in 0..s.width, Stored(line, samples, from - 1)
  PROVE  Stored(StoredUntil(line, samples, from, i), samples, i)
<1> DEFINE new == StoredUntil(line, samples, from, i)
<1>0. s.width \in Nat
  BY StreamParts
<1>1. new.current = UntilRow(s, line, samples, from, i)
  BY UntilType
<1> HIDE DEF new
<1>2. ASSUME NEW j \in 1..i
      PROVE  new.current[j] = samples[j]
  <2>1. j \in 1..s.width
    BY <1>0
  <2>2. CASE j >= from
    BY <1>1, <2>1, <2>2 DEF UntilRow
  <2>3. CASE j < from
    <3>1. j \in 1..(from - 1)
      BY <2>3
    <3>2. line.current[j] = samples[j]
      BY <3>1 DEF Stored
    <3>3. QED
      BY <1>1, <2>1, <2>3, <3>2 DEF UntilRow
  <2>4. QED
    BY <2>2, <2>3
<1>3. QED
  BY <1>2 DEF Stored, new

-----------------------------------------------------------------------------
(***************************************************************************)
(* Samples that a run copies.                                              *)
(***************************************************************************)
\* The samples of a row from a place up to another are their predictions.
Predicted(s, line, samples, from, first, last) ==
  \A j \in first..last : samples[j] = PredictionAt(s, StoredUntil(line, samples, from, j - 1), j)

LEMMA RunEndIs ==
  ASSUME NEW s \in StreamParameters, NEW line, NEW samples, NEW from \in 1..s.width
  PROVE  /\ RunEnd(s, line, samples, from) \in (from - 1)..s.width
         /\ Predicted(s, line, samples, from, from, RunEnd(s, line, samples, from))
         /\ RunEnd(s, line, samples, from) < s.width =>
              samples[RunEnd(s, line, samples, from) + 1] #
                PredictionAt(s, StoredUntil(line, samples, from, RunEnd(s, line, samples, from)),
                             RunEnd(s, line, samples, from) + 1)
<1> DEFINE guess(i) == PredictionAt(s, StoredUntil(line, samples, from, i - 1), i)
           breaks == {i \in from..s.width : samples[i] # guess(i)}
           end == RunEnd(s, line, samples, from)
           w == s.width
<1>0. w \in Nat /\ w >= 1 /\ from \in Nat /\ from >= 1 /\ from <= w
  BY StreamParts
<1>1. end = IF breaks = {} THEN w ELSE Min(breaks) - 1
  BY DEF RunEnd
<1>2. /\ breaks \in SUBSET Nat
      /\ \A i : i \in breaks <=> i \in from..w /\ samples[i] # guess(i)
  <2> HIDE DEF guess
  <2>1. QED
    BY <1>0
<1> HIDE DEF guess, breaks, end, w
<1>3. CASE breaks = {}
  <2>1. end = w
    BY <1>1, <1>3
  <2>2. \A j \in from..end : samples[j] = guess(j)
    BY <1>2, <1>3, <2>1
  <2>3. end \in (from - 1)..w /\ ~(end < w)
    BY <1>0, <2>1
  <2>4. QED
    BY <2>2, <2>3 DEF Predicted, guess, end, w
<1>4. CASE breaks # {}
  <2> DEFINE m == Min(breaks)
  <2>1. m \in breaks /\ \A n \in breaks : m <= n
    BY <1>2, <1>4, MinMeans
  <2>2. end = m - 1
    BY <1>1, <1>4
  <2> HIDE DEF m
  <2>3. m \in from..w /\ samples[m] # guess(m)
    BY <1>2, <2>1
  <2>4. end \in (from - 1)..w /\ end + 1 = m /\ m - 1 = end
    BY <1>0, <2>2, <2>3
  <2>5. \A j \in from..end : samples[j] = guess(j)
    <3> SUFFICES ASSUME NEW j \in from..end, j \in breaks
                 PROVE  FALSE
      <4>1. \A j \in from..end : j \in from..w
        BY <1>0, <2>4
      <4>2. QED
        BY <1>2, <4>1
    <3>1. m <= j
      BY <2>1
    <3>2. QED
      BY <1>0, <2>2, <2>3, <3>1
  <2>6. samples[end + 1] # guess(end + 1) /\ (end + 1) - 1 = end
    BY <2>3, <2>4
  <2>7. samples[end + 1] # PredictionAt(s, StoredUntil(line, samples, from, end), end + 1)
    BY <2>6 DEF guess
  <2>8. QED
    BY <2>4, <2>5, <2>7 DEF Predicted, guess, end, w
<1>5. QED
  BY <1>3, <1>4

\* A copied segment takes the samples that are their predictions.
\* A line up to a place, and a run of samples behind it that are their predictions.
CanCopy(s, p, line, samples, from, i, count) ==
  /\ s \in StreamParameters /\ line \in LineType(s, p)
  /\ samples \in [1..s.width -> SampleRange(s, p)] /\ from \in 1..s.width
  /\ i \in Nat /\ from - 1 <= i /\ count \in Nat /\ i + count <= s.width
  /\ Predicted(s, line, samples, from, i + 1, i + count)

CopiesUntil(s, line, samples, from, i, count) ==
  Copied(s, StoredUntil(line, samples, from, i), i + 1, count) =
    StoredUntil(line, samples, from, i + count)

LEMMA CopiedIs ==
  ASSUME NEW s, NEW p, NEW line, NEW samples, NEW from, NEW i, NEW count,
         CanCopy(s, p, line, samples, from, i, count)
  PROVE  CopiesUntil(s, line, samples, from, i, count)
<1> SUFFICES ASSUME s \in StreamParameters, line \in LineType(s, p),
                    samples \in [1..s.width -> SampleRange(s, p)], from \in 1..s.width,
                    i \in Nat, from - 1 <= i, count \in Nat, i + count <= s.width,
                    Predicted(s, line, samples, from, i + 1, i + count)
             PROVE  Copied(s, StoredUntil(line, samples, from, i), i + 1, count) =
                      StoredUntil(line, samples, from, i + count)
  BY DEF CanCopy, CopiesUntil
<1> DEFINE L == StoredUntil(line, samples, from, i)
           at(n) == (i + 1) + n - 1
           next(prev, n) == [prev EXCEPT !.current[at(n)] = PredictionAt(s, prev, at(n))]
           F(after) == [n \in 0..count |-> IF n = 0 THEN L ELSE next(after[n - 1], n)]
           h == CHOOSE after : after = F(after)
           g == [n \in 0..count |-> StoredUntil(line, samples, from, i + n)]
<1>1. Copied(s, L, i + 1, count) = h[count]
  BY DEF Copied
<1>0. s.width \in Nat /\ from \in Nat /\ from >= 1
  BY StreamParts
<1>2. \A n \in 1..count : g[n] = next(g[n - 1], n)
  <2> SUFFICES ASSUME NEW n \in 1..count
               PROVE  g[n] = next(g[n - 1], n)
    OBVIOUS
  <2> DEFINE prev == StoredUntil(line, samples, from, (i + n) - 1)
  <2>1. /\ n \in 0..count /\ n - 1 \in 0..count /\ i + (n - 1) = (i + n) - 1 /\ at(n) = i + n
        /\ i + n \in 1..s.width /\ from <= i + n /\ i + n \in (i + 1)..(i + count)
    BY <1>0
  <2>2. g[n - 1] = prev /\ g[n] = StoredUntil(line, samples, from, i + n)
    <3>1. g[n - 1] = StoredUntil(line, samples, from, i + (n - 1))
      BY <2>1
    <3>2. g[n] = StoredUntil(line, samples, from, i + n)
      BY <2>1
    <3>3. QED
      BY <2>1, <3>1, <3>2
  <2>3. samples[i + n] = PredictionAt(s, prev, i + n)
    BY <2>1 DEF Predicted
  <2> HIDE DEF g
  <2>4. next(g[n - 1], n) = StoredAt(prev, i + n, samples[i + n])
    BY <2>1, <2>2, <2>3 DEF StoredAt
  <2> HIDE DEF next, at
  <2>5. StoredAt(prev, i + n, samples[i + n]) = StoredUntil(line, samples, from, i + n)
    <3> DEFINE j == i + n
    <3>1. j \in 1..s.width /\ from <= j
      BY <2>1
    <3> HIDE DEF j
    <3>2. StoredAt(StoredUntil(line, samples, from, j - 1), j, samples[j]) =
            StoredUntil(line, samples, from, j)
      BY <1>0, <3>1, UntilNext
    <3>3. QED
      BY <3>2 DEF j
  <2>6. QED
    BY <2>2, <2>4, <2>5
<1>3. g[0] = L
  <2>1. 0 \in 0..count /\ i + 0 = i
    OBVIOUS
  <2>2. g[0] = StoredUntil(line, samples, from, i + 0)
    BY <2>1
  <2>3. QED
    BY <2>1, <2>2
<1>4. g = F(g)
  <2>1. \A n \in 0..count : g[n] = IF n = 0 THEN L ELSE next(g[n - 1], n)
    <3> HIDE DEF g, L, next
    <3> SUFFICES ASSUME NEW n \in 0..count
                 PROVE  g[n] = IF n = 0 THEN L ELSE next(g[n - 1], n)
      OBVIOUS
    <3>1. n # 0 => n \in 1..count
      OBVIOUS
    <3>2. QED
      BY <1>2, <1>3, <3>1
  <2>2. g = [n \in 0..count |-> g[n]]
    OBVIOUS
  <2> HIDE DEF g, L, next
  <2>3. QED
    BY <2>1, <2>2
<1>5. h = F(h)
  <2> HIDE DEF g, L, next
  <2>1. QED
    BY <1>4
<1> HIDE DEF h
<1>6. \A n \in 0..count : h[n] = IF n = 0 THEN L ELSE next(h[n - 1], n)
  <2> HIDE DEF L, next
  <2>1. QED
    BY <1>5
<1> DEFINE S == {n \in Nat : n <= count => h[n] = g[n]}
<1> HIDE DEF g, L, next
<1>7. 0 \in S
  <2>1. 0 \in 0..count
    OBVIOUS
  <2>2. h[0] = L
    BY <1>6, <2>1
  <2>3. QED
    BY <1>3, <2>2
<1>8. ASSUME NEW n \in Nat, n \in S
      PROVE  n + 1 \in S
  <2>1. n + 1 \in Nat
    OBVIOUS
  <2>2. ASSUME n + 1 <= count
        PROVE  h[n + 1] = g[n + 1]
    <3>1. n + 1 \in 0..count /\ n + 1 \in 1..count /\ n + 1 # 0 /\ (n + 1) - 1 = n /\ n <= count
      BY <2>2
    <3>2. h[n] = g[n]
      BY <1>8, <3>1
    <3>3. h[n + 1] = next(h[n], n + 1)
      BY <1>6, <3>1
    <3>4. g[n + 1] = next(g[n], n + 1)
      BY <1>2, <3>1
    <3>5. QED
      BY <3>2, <3>3, <3>4
  <2>3. QED
    BY <2>1, <2>2
<1> HIDE DEF S
<1>9. count \in S
  BY <1>7, <1>8, SetInduction
<1>10. h[count] = g[count]
  BY <1>9 DEF S
<1>11. g[count] = StoredUntil(line, samples, from, i + count)
  BY DEF g
<1>12. QED
  BY <1>1, <1>10, <1>11 DEF L

-----------------------------------------------------------------------------
(***************************************************************************)
(* The piece of a symbol, written and read.                                *)
(***************************************************************************)
ContextFor(s, p, i, state) == state.contexts[Bank(s, p)][ContextAt(s, state.lines[p], i).number]

SentFor(s, p, samples, i, state, interrupts) ==
  Sent(interrupts, Negated(ContextAt(s, state.lines[p], i),
                           SampleDifference(samples[i], PredictionAt(s, state.lines[p], i),
                                            CodedBits(s, p))))

WrittenFor(s, p, samples, i, state, interrupts) ==
  WriteSymbol(ContextFor(s, p, i, state), SentFor(s, p, samples, i, state, interrupts),
              HalfOf(s, p), CodedBits(s, p))

\* The state behind a symbol.
Coded1(s, p, i, state, sample, context) ==
  Changed(state, p, StoredAt(state.lines[p], i, sample),
          PutContext(state.contexts, Bank(s, p), ContextAt(s, state.lines[p], i).number, context),
          state.runs)

PieceIs(s, p, samples, i, state, interrupts) ==
  LET w == WrittenFor(s, p, samples, i, state, interrupts)
      piece == SymbolPiece(s, p, samples, i, state, interrupts)
  IN /\ piece.code = CodeBits(w.code)
     /\ piece.state = Coded1(s, p, i, state, samples[i], w.context)
     /\ piece.until = i

LEMMA SymbolPieceIs ==
  ASSUME NEW s \in StreamParameters, NEW p \in Planes(s),
         NEW samples \in [1..s.width -> SampleRange(s, p)], NEW i \in 1..s.width,
         NEW state, IsState(state), NEW interrupts \in BOOLEAN
  PROVE  PieceIs(s, p, samples, i, state, interrupts)
<1> DEFINE line == state.lines[p]
           n == ContextAt(s, line, i)
           value == Negated(n, Coded(s, p, samples, line, i))
           sent == IF interrupts THEN ToInterruption(value) ELSE value
           w == WriteSymbol(state.contexts[Bank(s, p)][n.number], sent,
                            2^(CodedBits(s, p) - 1), CodedBits(s, p))
           piece == SymbolPiece(s, p, samples, i, state, interrupts)
           new == Store(Adapt(state, Bank(s, p), n.number, w.context), p, i, samples[i])
<1>1. piece = [code |-> CodeBits(w.code), state |-> new, until |-> i]
  BY DEF SymbolPiece
<1>2. w = WrittenFor(s, p, samples, i, state, interrupts)
  BY DEF WrittenFor, SentFor, ContextFor, Sent, HalfOf, Coded
<1>3. new = Coded1(s, p, i, state, samples[i], w.context)
  <2> DEFINE b == Bank(s, p)
             m == n.number
             c == w.context
             v == samples[i]
  <2> HIDE DEF b, m, c, v, w
  <2>1. Store(Adapt(state, b, m, c), p, i, v) =
          Changed(state, p, StoredAt(state.lines[p], i, v),
                  PutContext(state.contexts, b, m, c), state.runs)
    BY StoreIs
  <2>2. QED
    BY <2>1 DEF Coded1, b, m, c, v
<1> HIDE DEF piece, w, new
<1>4. /\ piece.code = CodeBits(w.code)
      /\ piece.state = Coded1(s, p, i, state, samples[i], w.context)
      /\ piece.until = i
  BY <1>1, <1>3
<1>5. QED
  BY <1>2, <1>4, Zenon DEF piece, PieceIs

LEMMA SymbolSent ==
  ASSUME NEW s \in StreamParameters, FitsContexts(s), s.golomb, NEW p \in Planes(s),
         NEW samples \in [1..s.width -> SampleRange(s, p)], NEW i \in 1..s.width,
         NEW state, GoodState(s, state), NEW interrupts \in BOOLEAN,
         interrupts => samples[i] # PredictionAt(s, state.lines[p], i)
  PROVE  LET c == ContextFor(s, p, i, state)
             v == SentFor(s, p, samples, i, state, interrupts)
             half == HalfOf(s, p)
         IN /\ InBounds(c, half) /\ Depth(half, CodedBits(s, p))
            /\ v \in -half..half
            /\ Reconstructed(PredictionAt(s, state.lines[p], i),
                             Negated(ContextAt(s, state.lines[p], i),
                                     Returned(interrupts, SignExtend(v, half))),
                             CodedBits(s, p)) = samples[i]
<1> DEFINE line == state.lines[p]
           n == ContextAt(s, line, i)
           guess == PredictionAt(s, line, i)
           sample == samples[i]
           half == HalfOf(s, p)
           bits == CodedBits(s, p)
           c == ContextFor(s, p, i, state)
           v == SentFor(s, p, samples, i, state, interrupts)
<1>1. line \in LineType(s, p) /\ GoodContexts(s, state.contexts)
  BY LineOf
<1>2. half = HalfOf(s, 1) /\ ~Signed16(s)
  BY GolombDepth
<1>3. Depth(half, bits)
  BY CodedDepth
<1>4. guess \in Int /\ guess \in SampleRange(s, p)
  <2> HIDE DEF line
  <2>1. QED
    BY <1>1, <1>2, PredictionType
<1>5. n.number \in 0..(s.context_count - 1) /\ n.inverted \in BOOLEAN
  <2> HIDE DEF line
  <2>1. QED
    BY <1>1, ContextType
<1>6. sample \in SampleRange(s, p)
  OBVIOUS
<1>7. Bank(s, p) \in 0..2
  BY BankType
<1>8. c = state.contexts[Bank(s, p)][n.number]
  BY DEF ContextFor
<1>9. v = Sent(interrupts, Negated(n, SampleDifference(sample, guess, bits)))
  BY DEF SentFor
<1>10. interrupts => sample # guess
  OBVIOUS
<1> HIDE DEF line, n, guess, sample, half, bits, c, v
<1>11. InBounds(c, half)
  <2>1. InBounds(state.contexts[Bank(s, p)][n.number], HalfOf(s, 1))
    BY <1>1, <1>5, <1>7 DEF GoodContexts
  <2>2. QED
    BY <1>2, <1>8, <2>1
<1>12. /\ Sent(interrupts, Negated(n, SampleDifference(sample, guess, bits))) \in -half..half
       /\ Reconstructed(guess,
            Negated(n, Returned(interrupts,
              SignExtend(Sent(interrupts, Negated(n, SampleDifference(sample, guess, bits))), half))),
            bits) = sample
  <2>1. interrupts => guess \in SampleRange(s, p) /\ sample # guess
    BY <1>4, <1>10
  <2>2. QED
    BY <1>4, <1>5, <1>6, <2>1, GolombSample DEF half, bits
<1>13. v \in -half..half /\ Reconstructed(guess, Negated(n, Returned(interrupts, SignExtend(v, half))), bits) = sample
  BY <1>9, <1>12
<1>14. QED
  BY <1>3, <1>11, <1>13 DEF line, n, guess, sample, half, bits, c, v

LEMMA SymbolGood ==
  ASSUME NEW s \in StreamParameters, FitsContexts(s), s.golomb, NEW p \in Planes(s),
         NEW samples \in [1..s.width -> SampleRange(s, p)], NEW i \in 1..s.width,
         NEW state, GoodState(s, state), NEW interrupts \in BOOLEAN,
         interrupts => samples[i] # PredictionAt(s, state.lines[p], i)
  PROVE  LET piece == SymbolPiece(s, p, samples, i, state, interrupts)
         IN /\ piece.code \in Seq({0, 1})
            /\ GoodState(s, piece.state)
            /\ piece.state.lines[p] = StoredAt(state.lines[p], i, samples[i])
<1>0. PieceIs(s, p, samples, i, state, interrupts)
  <2>1. IsState(state)
    BY LineOf
  <2>2. QED
    BY <2>1, SymbolPieceIs
<1> DEFINE w == WrittenFor(s, p, samples, i, state, interrupts)
           c == ContextFor(s, p, i, state)
           v == SentFor(s, p, samples, i, state, interrupts)
           half == HalfOf(s, p)
           bits == CodedBits(s, p)
           n == ContextAt(s, state.lines[p], i).number
           C == PutContext(state.contexts, Bank(s, p), n, w.context)
           L == StoredAt(state.lines[p], i, samples[i])
           piece == SymbolPiece(s, p, samples, i, state, interrupts)
<1>1. InBounds(c, half) /\ Depth(half, bits) /\ v \in -half..half
  BY SymbolSent
<1>2. w = WriteSymbol(c, v, half, bits)
  BY Zenon DEF WrittenFor
<1>3. /\ IsState(state) /\ state.lines[p] \in LineType(s, p) /\ GoodContexts(s, state.contexts)
      /\ state.runs \in [Planes(s) -> RunSet]
  BY LineOf
<1>4. /\ piece.code = CodeBits(w.code)
      /\ piece.state = Coded1(s, p, i, state, samples[i], w.context)
      /\ piece.until = i
  BY <1>0, Zenon DEF PieceIs
<1>5. half = HalfOf(s, 1)
  BY GolombDepth
<1>6. Bank(s, p) \in 0..2
  BY BankType
<1>7. n \in 0..(s.context_count - 1)
  BY <1>3, ContextType
<1>8. samples[i] \in SampleRange(s, p)
  OBVIOUS
<1>9. piece.state = Changed(state, p, L, C, state.runs)
  BY <1>4 DEF Coded1
<1> HIDE DEF w, c, v, half, bits, n, piece
<1>10. CodeBits(w.code) \in Seq({0, 1}) /\ InBounds(w.context, half)
  BY <1>1, <1>2, SymbolBits
<1>11. GoodContexts(s, C)
  <2> DEFINE b == Bank(s, p)
             d == w.context
  <2>1. b \in 0..2 /\ InBounds(d, HalfOf(s, 1))
    BY <1>5, <1>6, <1>10
  <2> HIDE DEF b, d
  <2>2. GoodContexts(s, [state.contexts EXCEPT ![b][n] = d])
    BY <1>3, <1>7, <2>1, ContextsUpdated
  <2>3. QED
    BY <2>2 DEF b, d, PutContext
<1>12. L \in LineType(s, p)
  BY <1>3, <1>8, StoredAtType
<1> HIDE DEF C, L
<1>13. GoodState(s, piece.state) /\ piece.state.lines[p] = L
  BY <1>3, <1>9, <1>11, <1>12, ChangedGood
<1>14. QED
  BY <1>4, <1>10, <1>13 DEF L, piece

\* A symbol is read back wherever its bits are.
IsRead(s, p, samples, i, state, interrupts, bits, place) ==
  LET c == ContextFor(s, p, i, state)
      code == NextCode(bits, place, DeriveK(c), CodedBits(s, p))
      r == ReadSymbol(c, code, HalfOf(s, p))
      piece == SymbolPiece(s, p, samples, i, state, interrupts)
  IN /\ ~Refused(c) /\ CodeThere(bits, place, DeriveK(c), CodedBits(s, p))
     /\ code.position = place + Len(piece.code)
     /\ piece.state = Coded1(s, p, i, state, samples[i], r.context)
     /\ Reconstructed(PredictionAt(s, state.lines[p], i),
                      Negated(ContextAt(s, state.lines[p], i), Returned(interrupts, r.value)),
                      CodedBits(s, p)) = samples[i]

LEMMA SymbolFound ==
  ASSUME NEW s \in StreamParameters, FitsContexts(s), s.golomb, NEW p \in Planes(s),
         NEW samples \in [1..s.width -> SampleRange(s, p)], NEW i \in 1..s.width,
         NEW state, GoodState(s, state), NEW interrupts \in BOOLEAN,
         interrupts => samples[i] # PredictionAt(s, state.lines[p], i),
         NEW bits, Len(bits) \in Nat, NEW place \in Nat,
         Holds(bits, place, SymbolPiece(s, p, samples, i, state, interrupts).code)
  PROVE  IsRead(s, p, samples, i, state, interrupts, bits, place)
<1>0. PieceIs(s, p, samples, i, state, interrupts)
  <2>1. IsState(state)
    BY LineOf
  <2>2. QED
    BY <2>1, SymbolPieceIs
<1> DEFINE w == WrittenFor(s, p, samples, i, state, interrupts)
           c == ContextFor(s, p, i, state)
           v == SentFor(s, p, samples, i, state, interrupts)
           half == HalfOf(s, p)
           depth == CodedBits(s, p)
           piece == SymbolPiece(s, p, samples, i, state, interrupts)
           code == NextCode(bits, place, DeriveK(c), depth)
           r == ReadSymbol(c, code, half)
           Back(symbol) == Reconstructed(PredictionAt(s, state.lines[p], i),
                             Negated(ContextAt(s, state.lines[p], i), Returned(interrupts, symbol)),
                             depth) = samples[i]
<1>1. InBounds(c, half) /\ Depth(half, depth) /\ v \in -half..half /\ Back(SignExtend(v, half))
  BY SymbolSent
<1>2. w = WriteSymbol(c, v, half, depth)
  BY Zenon DEF WrittenFor
<1>3. IsState(state)
  BY LineOf
<1>4. /\ piece.code = CodeBits(w.code)
      /\ piece.state = Coded1(s, p, i, state, samples[i], w.context)
  BY <1>0, Zenon DEF PieceIs
<1>5. Holds(bits, place, CodeBits(w.code))
  BY <1>4
<1> HIDE DEF w, c, v, half, depth, piece, Back
<1>6. Holds(bits, place, CodeBits(WriteSymbol(c, v, half, depth).code))
  BY <1>2, <1>5
<1>7. /\ ~Refused(c) /\ CodeThere(bits, place, DeriveK(c), depth)
      /\ code.position = place + Len(CodeBits(WriteSymbol(c, v, half, depth).code))
      /\ r.context = WriteSymbol(c, v, half, depth).context
      /\ r.value = SignExtend(v, half)
  BY <1>1, <1>6, SymbolBack
<1> HIDE DEF code, r
<1>8. code.position = place + Len(piece.code) /\ piece.state = Coded1(s, p, i, state, samples[i], r.context)
  BY <1>2, <1>4, <1>7
<1>9. Back(r.value)
  BY <1>1, <1>7
<1>10. QED
  BY <1>7, <1>8, <1>9 DEF IsRead, w, c, v, half, depth, piece, code, r, Back

-----------------------------------------------------------------------------
(***************************************************************************)
(* The piece of a run.                                                     *)
(***************************************************************************)
IndexFor(s, p, state) == state.runs[RunBank(s, p)].run_index

PutIndex(runs, r, index) == [runs EXCEPT ![r].run_index = index]

\* The state with the samples of a run stored up to a place.
Within(s, p, samples, from, state, until, index) ==
  Changed(state, p, StoredUntil(state.lines[p], samples, from, until), state.contexts,
          PutIndex(state.runs, RunBank(s, p), index))

EndFor(s, p, samples, from, state) == RunEnd(s, state.lines[p], samples, from)

RunFor(s, p, samples, from, state) ==
  WrittenRun(IndexFor(s, p, state), s.width - from + 1,
             EndFor(s, p, samples, from, state) - from + 1)

\* The state in which the difference behind a run is coded.
Behind(s, p, samples, from, state) ==
  Within(s, p, samples, from, state, EndFor(s, p, samples, from, state),
         RunFor(s, p, samples, from, state).run_index)

RunAt(index) == [run_index |-> index, pending_count |-> 0]

LEMMA IndexPut ==
  ASSUME NEW s, NEW runs \in [Planes(s) -> RunSet], NEW r \in Planes(s), NEW index \in RunIndexes
  PROVE  /\ PutIndex(runs, r, index) \in [Planes(s) -> RunSet]
         /\ PutIndex(runs, r, index)[r] = RunAt(index)
         /\ PutIndex(runs, r, index) = Put(runs, r, RunAt(index))
         /\ RunAt(index).run_index = index /\ RunAt(index).pending_count = 0
         /\ PutIndex(runs, r, runs[r].run_index) = runs
         /\ runs[r] = RunAt(runs[r].run_index)
         /\ runs[r].run_index \in RunIndexes
<1> DEFINE P == Planes(s)
<1>1. runs \in [P -> [run_index : RunIndexes, pending_count : {0}]] /\ r \in P
  BY DEF RunSet
<1> HIDE DEF P
<1>2. /\ runs[r] = [run_index |-> runs[r].run_index, pending_count |-> 0]
      /\ runs[r].run_index \in RunIndexes
  BY <1>1
<1>3. PutIndex(runs, r, index) = [runs EXCEPT ![r] = [run_index |-> index, pending_count |-> 0]]
  <2>1. PutIndex(runs, r, index) = [runs EXCEPT ![r] = [runs[r] EXCEPT !.run_index = index]]
    BY DEF PutIndex
  <2>2. [runs[r] EXCEPT !.run_index = index] = [run_index |-> index, pending_count |-> 0]
    BY <1>2
  <2>3. QED
    BY <2>1, <2>2
<1>4. PutIndex(runs, r, index) \in [P -> [run_index : RunIndexes, pending_count : {0}]]
      /\ PutIndex(runs, r, index)[r] = [run_index |-> index, pending_count |-> 0]
  BY <1>1, <1>3
<1>5. PutIndex(runs, r, runs[r].run_index) = runs
  <2>1. PutIndex(runs, r, runs[r].run_index) =
          [runs EXCEPT ![r] = [runs[r] EXCEPT !.run_index = runs[r].run_index]]
    BY DEF PutIndex
  <2>2. [runs[r] EXCEPT !.run_index = runs[r].run_index] = runs[r]
    BY <1>2
  <2>3. [runs EXCEPT ![r] = runs[r]] = runs
    BY <1>1
  <2>4. QED
    BY <2>1, <2>2, <2>3
<1>6. QED
  BY <1>2, <1>3, <1>4, <1>5 DEF RunSet, P, RunAt, Put

\* What a run piece is.
IsRunPiece(s, p, samples, from, state, piece) ==
  LET end == EndFor(s, p, samples, from, state)
      w == RunFor(s, p, samples, from, state)
      behind == Behind(s, p, samples, from, state)
      symbol == SymbolPiece(s, p, samples, end + 1, behind, TRUE)
  IN /\ end = s.width => piece.code = w.bits /\ piece.state = behind /\ piece.until = end
     /\ end # s.width => /\ piece.code = w.bits \o symbol.code
                         /\ piece.state = symbol.state /\ piece.until = end + 1

LEMMA RunPieceParts ==
  ASSUME NEW s, NEW p, NEW samples, NEW from, NEW state, IsState(state)
  PROVE  IsRunPiece(s, p, samples, from, state, RunPiece(s, p, samples, from, state))
<1> DEFINE end == RunEnd(s, state.lines[p], samples, from)
           written == WrittenRun(state.runs[RunBank(s, p)].run_index,
                                 s.width - from + 1, end - from + 1)
           counted == [state EXCEPT
                         !.lines[p] = StoredUntil(@, samples, from, end),
                         !.runs[RunBank(s, p)].run_index = written.run_index]
           symbol == SymbolPiece(s, p, samples, end + 1, counted, TRUE)
           piece == RunPiece(s, p, samples, from, state)
<1>1. piece = IF end = s.width
              THEN [code |-> written.bits, state |-> counted, until |-> end]
              ELSE [symbol EXCEPT !.code = written.bits \o @]
  BY DEF RunPiece
<1>2. end = EndFor(s, p, samples, from, state) /\ written = RunFor(s, p, samples, from, state)
  BY DEF EndFor, RunFor, IndexFor
<1>3. counted = Behind(s, p, samples, from, state)
  <2> DEFINE L == [state.lines EXCEPT ![p] = StoredUntil(state.lines[p], samples, from, end)]
             R == PutIndex(state.runs, RunBank(s, p), written.run_index)
  <2>1. state = [lines |-> state.lines, contexts |-> state.contexts, runs |-> state.runs]
    BY DEF IsState
  <2>2. counted = [state EXCEPT !.lines = L, !.runs = R]
    BY DEF PutIndex
  <2>3. Behind(s, p, samples, from, state) = [lines |-> L, contexts |-> state.contexts, runs |-> R]
    BY <1>2 DEF Behind, Within, Changed
  <2> HIDE DEF L, R, counted
  <2>4. [state EXCEPT !.lines = L] = [lines |-> L, contexts |-> state.contexts, runs |-> state.runs]
    BY <2>1
  <2>5. counted = [[state EXCEPT !.lines = L] EXCEPT !.runs = R]
    BY <2>2
  <2>6. counted = [lines |-> L, contexts |-> state.contexts, runs |-> R]
    BY <2>4, <2>5
  <2>7. QED
    BY <2>3, <2>6
<1>4. \E a, b : symbol = [code |-> a, state |-> b, until |-> end + 1]
  BY DEF SymbolPiece
<1> HIDE DEF piece, symbol, counted, written, end
<1>5. CASE end = s.width
  <2>1. piece = [code |-> written.bits, state |-> counted, until |-> end]
    BY <1>1, <1>5
  <2>2. piece.code = written.bits /\ piece.state = counted /\ piece.until = end
    BY <2>1
  <2>3. QED
    BY <1>2, <1>3, <1>5, <2>2, Zenon DEF piece, IsRunPiece
<1>6. CASE end # s.width
  <2>1. piece = [symbol EXCEPT !.code = written.bits \o symbol.code]
    BY <1>1, <1>6
  <2>2. /\ piece.code = written.bits \o symbol.code
        /\ piece.state = symbol.state /\ piece.until = end + 1
    BY <1>4, <2>1
  <2>3. symbol = SymbolPiece(s, p, samples, end + 1, Behind(s, p, samples, from, state), TRUE)
    BY <1>3 DEF symbol
  <2>4. QED
    BY <1>2, <1>6, <2>2, <2>3, Zenon DEF piece, IsRunPiece
<1>7. QED
  BY <1>5, <1>6

LEMMA WithinGood ==
  ASSUME NEW s \in StreamParameters, NEW p \in Planes(s),
         NEW samples \in [1..s.width -> SampleRange(s, p)], NEW from,
         NEW state, GoodState(s, state), NEW until, NEW index \in RunIndexes
  PROVE  LET new == Within(s, p, samples, from, state, until, index)
         IN /\ GoodState(s, new)
            /\ new.lines[p] = StoredUntil(state.lines[p], samples, from, until)
            /\ new.contexts = state.contexts
            /\ new.runs = PutIndex(state.runs, RunBank(s, p), index)
            /\ \A q \in Planes(s) : q # p => new.lines[q] = state.lines[q]
<1> DEFINE L == StoredUntil(state.lines[p], samples, from, until)
           R == PutIndex(state.runs, RunBank(s, p), index)
           new == Within(s, p, samples, from, state, until, index)
<1>1. /\ state.lines[p] \in LineType(s, p) /\ GoodContexts(s, state.contexts)
      /\ state.runs \in [Planes(s) -> RunSet]
  BY LineOf
<1>2. L \in LineType(s, p)
  BY <1>1, UntilType
<1>3. R \in [Planes(s) -> RunSet]
  <2>1. RunBank(s, p) \in Planes(s)
    BY BankType
  <2>2. QED
    BY <1>1, <2>1, IndexPut
<1>4. new = Changed(state, p, L, state.contexts, R)
  BY DEF Within
<1> HIDE DEF L, R, new
<1>5. GoodState(s, new) /\ new.lines[p] = L /\ \A q \in Planes(s) : q # p => new.lines[q] = state.lines[q]
  BY <1>1, <1>2, <1>3, <1>4, ChangedGood
<1>6. new.contexts = state.contexts /\ new.runs = R
  BY <1>4, ChangedParts
<1>7. QED
  BY <1>5, <1>6 DEF L, R, new

\* What the run that starts at a place is written as.
LEMMA RunStarts ==
  ASSUME NEW s \in StreamParameters, NEW p \in Planes(s),
         NEW samples \in [1..s.width -> SampleRange(s, p)], NEW from \in 1..s.width,
         NEW state, GoodState(s, state)
  PROVE  LET end == EndFor(s, p, samples, from, state)
             written == RunFor(s, p, samples, from, state)
             index == IndexFor(s, p, state)
         IN /\ index \in RunIndexes /\ end \in (from - 1)..s.width
            /\ \E n \in Nat : IsRun(index, s.width - from + 1, end - from + 1, n, written)
            /\ written.bits \in Seq({0, 1}) /\ written.run_index \in RunIndexes
            /\ Predicted(s, state.lines[p], samples, from, from, end)
            /\ end < s.width =>
                 samples[end + 1] #
                   PredictionAt(s, StoredUntil(state.lines[p], samples, from, end), end + 1)
<1> DEFINE end == EndFor(s, p, samples, from, state)
           written == RunFor(s, p, samples, from, state)
           index == IndexFor(s, p, state)
           left == s.width - from + 1
           count == end - from + 1
<1>0. s.width \in Nat /\ s.width < RowLimit /\ from \in Nat /\ from >= 1 /\ from <= s.width
  BY StreamParts
<1>1. index \in RunIndexes
  <2>1. RunBank(s, p) \in Planes(s) /\ state.runs \in [Planes(s) -> RunSet]
    BY BankType, LineOf
  <2>2. QED
    BY <2>1 DEF IndexFor, RunSet
<1>2. /\ end \in (from - 1)..s.width
      /\ Predicted(s, state.lines[p], samples, from, from, end)
      /\ end < s.width =>
           samples[end + 1] #
             PredictionAt(s, StoredUntil(state.lines[p], samples, from, end), end + 1)
  BY RunEndIs DEF EndFor
<1>5. written = WrittenRun(index, left, count)
  BY DEF RunFor
<1> HIDE DEF end, index, written
<1>3. left \in Nat /\ left < RowLimit /\ count \in 0..left
  <2>1. left \in Nat /\ left <= s.width
    BY <1>0
  <2>2. left < RowLimit
    BY <1>0, <2>1, LongestRun
  <2>3. QED
    BY <1>0, <1>2, <2>1, <2>2
<1> HIDE DEF left, count
<1>4. PICK n \in Nat : IsRun(index, left, count, n, written)
  BY <1>1, <1>3, <1>5, RunWritten
<1>6. written.bits \in Seq({0, 1}) /\ written.run_index \in RunIndexes
  <2>1. n \in 0..(40 - index)
    BY <1>4 DEF IsRun, FullRuns
  <2>2. index + n \in RunIndexes
    BY <1>1, <2>1 DEF RunIndexes
  <2>3. Lower(index + n) \in RunIndexes
    BY <2>2, LowerType
  <2>4. QED
    BY <1>4, <2>2, <2>3 DEF IsRun
<1>7. QED
  BY <1>1, <1>2, <1>4, <1>6 DEF end, index, written, left, count

LEMMA RunGood ==
  ASSUME NEW s \in StreamParameters, FitsContexts(s), s.golomb, NEW p \in Planes(s),
         NEW samples \in [1..s.width -> SampleRange(s, p)], NEW from \in 1..s.width,
         NEW state, GoodState(s, state), Stored(state.lines[p], samples, from - 1)
  PROVE  LET piece == RunPiece(s, p, samples, from, state)
         IN /\ piece.code \in Seq({0, 1}) /\ piece.until \in from..s.width
            /\ GoodState(s, piece.state)
            /\ Stored(piece.state.lines[p], samples, piece.until)
<1> DEFINE end == EndFor(s, p, samples, from, state)
           written == RunFor(s, p, samples, from, state)
           behind == Behind(s, p, samples, from, state)
           piece == RunPiece(s, p, samples, from, state)
           line == StoredUntil(state.lines[p], samples, from, end)
           symbol == SymbolPiece(s, p, samples, end + 1, behind, TRUE)
<1>0. s.width \in Nat /\ from \in Nat /\ from >= 1 /\ from <= s.width /\ from \in 1..(s.width + 1)
  BY StreamParts
<1>1. /\ end \in (from - 1)..s.width
      /\ written.bits \in Seq({0, 1}) /\ written.run_index \in RunIndexes
      /\ end < s.width => samples[end + 1] # PredictionAt(s, line, end + 1)
  BY RunStarts
<1>2. IsState(state) /\ state.lines[p] \in LineType(s, p)
  BY LineOf
<1>3. /\ end = s.width => piece.code = written.bits /\ piece.state = behind /\ piece.until = end
      /\ end # s.width => /\ piece.code = written.bits \o symbol.code
                          /\ piece.state = symbol.state /\ piece.until = end + 1
  <2>1. IsRunPiece(s, p, samples, from, state, piece)
    BY <1>2, RunPieceParts
  <2>2. QED
    BY <2>1, Zenon DEF IsRunPiece
<1>11. behind = Within(s, p, samples, from, state, end, written.run_index)
  BY DEF Behind
<1> HIDE DEF end, written, behind, piece
<1>4. GoodState(s, behind) /\ behind.lines[p] = line
  <2> DEFINE index == written.run_index
  <2>1. index \in RunIndexes /\ behind = Within(s, p, samples, from, state, end, index)
    BY <1>1, <1>11
  <2> HIDE DEF index
  <2>2. QED
    BY <2>1, WithinGood
<1>5. end \in Nat /\ end \in 0..s.width /\ end <= s.width /\ from - 1 <= end
  BY <1>0, <1>1
<1>6. Stored(line, samples, end)
  BY <1>0, <1>2, <1>5, UntilStored
<1> HIDE DEF line
<1>7. CASE end = s.width
  <2>1. piece.until \in from..s.width
    BY <1>0, <1>3, <1>7
  <2>2. QED
    BY <1>1, <1>3, <1>4, <1>6, <1>7, <2>1 DEF piece
<1>8. CASE end # s.width
  <2> DEFINE i == end + 1
  <2>1. i \in 1..s.width /\ i \in from..s.width /\ i - 1 = end /\ end < s.width
    BY <1>0, <1>5, <1>8
  <2>2. samples[i] # PredictionAt(s, behind.lines[p], i)
    BY <1>1, <1>4, <2>1
  <2>3. symbol = SymbolPiece(s, p, samples, i, behind, TRUE)
    OBVIOUS
  <2> HIDE DEF symbol, i
  <2>4. /\ symbol.code \in Seq({0, 1}) /\ GoodState(s, symbol.state)
        /\ symbol.state.lines[p] = StoredAt(behind.lines[p], i, samples[i])
    <3>1. ASSUME NEW e \in BOOLEAN, NEW st, GoodState(s, st), NEW j \in 1..s.width,
                 e => samples[j] # PredictionAt(s, st.lines[p], j)
          PROVE  /\ SymbolPiece(s, p, samples, j, st, e).code \in Seq({0, 1})
                 /\ GoodState(s, SymbolPiece(s, p, samples, j, st, e).state)
      BY <3>1, SymbolGood
    <3>5. ASSUME NEW e \in BOOLEAN, NEW st, GoodState(s, st), NEW j \in 1..s.width,
                 e => samples[j] # PredictionAt(s, st.lines[p], j)
          PROVE  SymbolPiece(s, p, samples, j, st, e).state.lines[p] =
                   StoredAt(st.lines[p], j, samples[j])
      BY <3>5, SymbolGood
    <3>2. ASSUME NEW e \in BOOLEAN, e = TRUE
          PROVE  /\ SymbolPiece(s, p, samples, i, behind, e).code \in Seq({0, 1})
                 /\ GoodState(s, SymbolPiece(s, p, samples, i, behind, e).state)
                 /\ SymbolPiece(s, p, samples, i, behind, e).state.lines[p] =
                      StoredAt(behind.lines[p], i, samples[i])
      BY <1>4, <2>1, <2>2, <3>1, <3>2, <3>5
    <3>4. QED
      BY <2>3, <3>2
  <2>5. written.bits \o symbol.code \in Seq({0, 1})
    BY <1>1, <2>4, JoinedBits
  <2>6. Stored(symbol.state.lines[p], samples, i)
    <3>1. behind.lines[p] \in LineType(s, p)
      BY <1>4, LineOf
    <3>2. Stored(behind.lines[p], samples, i - 1)
      BY <1>4, <1>6, <2>1
    <3>3. QED
      BY <2>1, <2>4, <3>1, <3>2, StoredNext
  <2>7. piece.until = i
    BY <1>3, <1>8 DEF i
  <2>8. QED
    BY <1>3, <1>8, <2>1, <2>4, <2>5, <2>6, <2>7 DEF piece
<1>9. QED
  BY <1>7, <1>8

-----------------------------------------------------------------------------
(***************************************************************************)
(* The steps of the encoder through its pieces.                            *)
(***************************************************************************)
DifferenceFor(s, p, samples, i, state) ==
  SampleDifference(samples[i], PredictionAt(s, state.lines[p], i), CodedBits(s, p))

SymbolFor(s, p, samples, i, state) ==
  [bank |-> Bank(s, p), context |-> ContextAt(s, state.lines[p], i).number,
   value |-> Negated(ContextAt(s, state.lines[p], i), DifferenceFor(s, p, samples, i, state))]

LEMMA SamplePieceIs ==
  ASSUME NEW s \in StreamParameters, NEW p \in Planes(s),
         NEW samples \in [1..s.width -> SampleRange(s, p)], NEW i \in 1..s.width,
         NEW state, IsState(state)
  PROVE  /\ SamplePiece(s, p, samples, i, state).code = <<SymbolFor(s, p, samples, i, state)>>
         /\ SamplePiece(s, p, samples, i, state).state =
              Changed(state, p, StoredAt(state.lines[p], i, samples[i]), state.contexts, state.runs)
<1>1. Store(state, p, i, samples[i]) =
        Changed(state, p, StoredAt(state.lines[p], i, samples[i]), state.contexts, state.runs)
  <2> DEFINE v == samples[i]
  <2> HIDE DEF v
  <2>1. Store(state, p, i, v) =
          Changed(state, p, StoredAt(state.lines[p], i, v), state.contexts, state.runs)
    BY StoreIs
  <2>2. QED
    BY <2>1 DEF v
<1>2. SamplePiece(s, p, samples, i, state) =
        [code |-> <<SymbolFor(s, p, samples, i, state)>>,
         state |-> Store(state, p, i, samples[i]), until |-> i]
  BY DEF SamplePiece, SymbolFor, DifferenceFor, Coded
<1>3. QED
  BY <1>1, <1>2

LEMMA SampleGood ==
  ASSUME NEW s \in StreamParameters, FitsContexts(s), NEW p \in Planes(s),
         NEW samples \in [1..s.width -> SampleRange(s, p)], NEW i \in 1..s.width,
         NEW state, GoodState(s, state)
  PROVE  LET piece == SamplePiece(s, p, samples, i, state)
         IN /\ GoodState(s, piece.state)
            /\ piece.state.lines[p] = StoredAt(state.lines[p], i, samples[i])
            /\ piece.code = <<SymbolFor(s, p, samples, i, state)>>
            /\ SymbolFor(s, p, samples, i, state) \in
                 [bank : 0..2, context : 0..(s.context_count - 1), value : Int]
            /\ ContextAt(s, state.lines[p], i).inverted \in BOOLEAN
            /\ PredictionAt(s, state.lines[p], i) \in Int
            /\ samples[i] \in SampleRange(s, p)
<1>14. /\ SamplePiece(s, p, samples, i, state).code = <<SymbolFor(s, p, samples, i, state)>>
       /\ SamplePiece(s, p, samples, i, state).state =
            Changed(state, p, StoredAt(state.lines[p], i, samples[i]), state.contexts, state.runs)
  <2>1. IsState(state)
    BY LineOf
  <2>2. QED
    BY <2>1, SamplePieceIs
<1> DEFINE line == state.lines[p]
           n == ContextAt(s, line, i)
           guess == PredictionAt(s, line, i)
           v == samples[i]
           d == SampleDifference(v, guess, CodedBits(s, p))
           L == StoredAt(line, i, v)
           piece == SamplePiece(s, p, samples, i, state)
           symbol == SymbolFor(s, p, samples, i, state)
           half == HalfOf(s, p)
<1>1. /\ IsState(state) /\ line \in LineType(s, p) /\ GoodContexts(s, state.contexts)
      /\ state.runs \in [Planes(s) -> RunSet]
  BY LineOf
<1>2. piece.code = <<symbol>>
  BY <1>14
<1>3. piece.state = Changed(state, p, L, state.contexts, state.runs)
  BY <1>14
<1>4. symbol = [bank |-> Bank(s, p), context |-> n.number, value |-> Negated(n, d)]
  BY DEF SymbolFor, DifferenceFor
<1>5. v \in SampleRange(s, p)
  OBVIOUS
<1>6. Bank(s, p) \in 0..2
  BY BankType
<1> HIDE DEF line, piece, symbol, v, half, L
<1>7. guess \in Int
  BY <1>1, PredictionType
<1>8. n.number \in 0..(s.context_count - 1) /\ n.inverted \in BOOLEAN
  BY <1>1, ContextType
<1>12. half \in Nat
  BY CodedDepth DEF half
<1> HIDE DEF guess, n
<1>9. d \in Int
  <2>1. d \in -half..(half - 1)
    BY <1>5, <1>7, DifferenceFound DEF half
  <2>2. QED
    BY <1>12, <2>1
<1> HIDE DEF d
<1>10. symbol \in [bank : 0..2, context : 0..(s.context_count - 1), value : Int]
  <2>1. Negated(n, d) \in Int
    BY <1>8, <1>9 DEF Negated
  <2>2. QED
    BY <1>4, <1>6, <1>8, <2>1
<1>11. GoodState(s, piece.state) /\ piece.state.lines[p] = L
  <2>1. L \in LineType(s, p)
    BY <1>1, <1>5, StoredAtType DEF L
  <2>2. QED
    BY <1>1, <1>3, <2>1, ChangedGood
<1>13. QED
  BY <1>2, <1>5, <1>7, <1>8, <1>10, <1>11 DEF line, n, guess, v, L, piece, symbol

LEMMA SwapIs ==
  ASSUME NEW state, IsState(state), NEW p
  PROVE  [state EXCEPT !.lines[p] = SwapLines(@)] =
           Changed(state, p, SwapLines(state.lines[p]), state.contexts, state.runs)
<1>1. state = [lines |-> state.lines, contexts |-> state.contexts, runs |-> state.runs]
  BY DEF IsState
<1> DEFINE L == [state.lines EXCEPT ![p] = SwapLines(state.lines[p])]
<1>2. [state EXCEPT !.lines[p] = SwapLines(@)] = [state EXCEPT !.lines = L]
  OBVIOUS
<1>3. Changed(state, p, SwapLines(state.lines[p]), state.contexts, state.runs) =
        [lines |-> L, contexts |-> state.contexts, runs |-> state.runs]
  BY DEF Changed
<1> HIDE DEF L
<1>4. [state EXCEPT !.lines = L] = [lines |-> L, contexts |-> state.contexts, runs |-> state.runs]
  BY <1>1
<1>5. QED
  BY <1>2, <1>3, <1>4

(***************************************************************************)
(* What the encoder went through, from one piece or line end to the next.  *)
(***************************************************************************)
RowSamples(s, img, r) == CodedRow(s, img, RowPlane(s, r), RowLine(s, r))

LineAt(s, r, state) == state.lines[RowPlane(s, r)]

Good(s, img, t) ==
  /\ t.row \in Nat /\ t.row <= Rows(s)
  /\ t.x \in Nat /\ t.x <= s.width
  /\ t.row = Rows(s) => t.x = 0
  /\ t.position \in Nat
  /\ GoodState(s, t.state)
  /\ t.row < Rows(s) => Stored(LineAt(s, t.row, t.state), RowSamples(s, img, t.row), t.x)

RunStart(s, t) == ContextAt(s, LineAt(s, t.row, t.state), t.x + 1).number = 0

PieceAt(s, img, t, piece) ==
  \/ /\ ~s.golomb
     /\ piece = SamplePiece(s, RowPlane(s, t.row), RowSamples(s, img, t.row), t.x + 1, t.state)
  \/ /\ s.golomb /\ ~RunStart(s, t)
     /\ piece = SymbolPiece(s, RowPlane(s, t.row), RowSamples(s, img, t.row), t.x + 1, t.state, FALSE)
  \/ /\ s.golomb /\ RunStart(s, t)
     /\ piece = RunPiece(s, RowPlane(s, t.row), RowSamples(s, img, t.row), t.x + 1, t.state)

PieceStep(s, img, bits, t, u) ==
  /\ t.row < Rows(s) /\ t.x < s.width
  /\ u.row = t.row
  /\ \E piece :
       /\ PieceAt(s, img, t, piece)
       /\ Holds(bits, t.position, piece.code)
       /\ u.x = piece.until /\ u.state = piece.state
       /\ u.position = t.position + Len(piece.code)

LineStep(s, t, u) ==
  /\ t.row < Rows(s) /\ t.x = s.width
  /\ u.row = t.row + 1 /\ u.x = 0 /\ u.position = t.position
  /\ u.state = Changed(t.state, RowPlane(s, t.row), SwapLines(LineAt(s, t.row, t.state)),
                       t.state.contexts, t.state.runs)

Step(s, img, bits, t, u) == PieceStep(s, img, bits, t, u) \/ LineStep(s, t, u)

LEMMA RowFacts ==
  ASSUME NEW s \in StreamParameters, NEW img \in Pictures(s), NEW r \in Nat, r < Rows(s)
  PROVE  /\ RowPlane(s, r) \in Planes(s) /\ RowLine(s, r) \in 1..s.height
         /\ RowSamples(s, img, r) \in [1..s.width -> SampleRange(s, RowPlane(s, r))]
<1>1. RowPlane(s, r) \in Planes(s) /\ RowLine(s, r) \in 1..s.height
  BY RowPlaces
<1>2. QED
  BY <1>1, CodedRowType DEF RowSamples

LEMMA PieceGood ==
  ASSUME NEW s \in StreamParameters, FitsContexts(s), NEW img \in Pictures(s),
         NEW t, Good(s, img, t), t.row < Rows(s), t.x < s.width,
         NEW piece, PieceAt(s, img, t, piece)
  PROVE  /\ piece.code \in Seq(Codes(s)) /\ Len(piece.code) \in Nat
         /\ piece.until \in (t.x + 1)..s.width
         /\ GoodState(s, piece.state)
         /\ Stored(LineAt(s, t.row, piece.state), RowSamples(s, img, t.row), piece.until)
<1> DEFINE p == RowPlane(s, t.row)
           samples == RowSamples(s, img, t.row)
           i == t.x + 1
           state == t.state
           line == state.lines[p]
<1>0. t.row \in Nat /\ t.x \in Nat /\ s.width \in Nat /\ GoodState(s, state)
      /\ Stored(line, samples, t.x)
  BY StreamParts DEF Good, LineAt
<1>1. p \in Planes(s) /\ samples \in [1..s.width -> SampleRange(s, p)]
  BY <1>0, RowFacts
<1>2. i \in 1..s.width /\ i - 1 = t.x /\ i \in i..s.width
  BY <1>0
<1>3. line \in LineType(s, p)
  BY <1>0, <1>1, LineOf
<1>4. Stored(line, samples, i - 1)
  BY <1>0, <1>2
<1>5. \/ ~s.golomb /\ piece = SamplePiece(s, p, samples, i, state)
      \/ s.golomb /\ piece = SymbolPiece(s, p, samples, i, state, FALSE)
      \/ s.golomb /\ piece = RunPiece(s, p, samples, i, state)
  BY DEF PieceAt
<1>6. LineAt(s, t.row, piece.state) = piece.state.lines[p]
  BY DEF LineAt
<1>7. IsState(state)
  BY <1>0, <1>1, LineOf
<1> HIDE DEF p, samples, i, state, line
<1>20. \A a : a \in Seq(Codes(s)) => Len(a) \in Nat
  OBVIOUS
<1>8. CASE ~s.golomb /\ piece = SamplePiece(s, p, samples, i, state)
  <2> DEFINE symbol == SymbolFor(s, p, samples, i, state)
             C == [bank : 0..2, context : 0..(s.context_count - 1), value : Int]
  <2>1. /\ GoodState(s, piece.state)
        /\ piece.state.lines[p] = StoredAt(state.lines[p], i, samples[i])
        /\ piece.code = <<symbol>> /\ symbol \in C
    BY <1>0, <1>1, <1>2, <1>8, SampleGood, ZenonT(30)
  <2>2. Codes(s) = C
    BY <1>8 DEF Codes
  <2>3. piece.until = i
    BY <1>8 DEF SamplePiece
  <2>4. <<symbol>> \in Seq(Codes(s))
    <3> HIDE DEF symbol, C
    <3>1. symbol \in Codes(s)
      BY <2>1, <2>2
    <3>2. QED
      BY <3>1
  <2>5. Stored(piece.state.lines[p], samples, i)
    BY <1>1, <1>2, <1>3, <1>4, <2>1, StoredNext, ZenonT(30) DEF line
  <2>6. piece.until \in (t.x + 1)..s.width
    BY <1>2, <2>3 DEF i
  <2>7. QED
    BY <1>6, <1>20, <2>1, <2>3, <2>4, <2>5, <2>6 DEF samples
<1>9. CASE s.golomb /\ piece = SymbolPiece(s, p, samples, i, state, FALSE)
  <2>1. ASSUME NEW e \in BOOLEAN, e = FALSE
        PROVE  LET other == SymbolPiece(s, p, samples, i, state, e)
               IN /\ other.code \in Seq({0, 1}) /\ GoodState(s, other.state)
                  /\ other.state.lines[p] = StoredAt(state.lines[p], i, samples[i])
    BY <1>0, <1>1, <1>2, <1>9, <2>1, SymbolGood
  <2>2. /\ piece.code \in Seq({0, 1}) /\ GoodState(s, piece.state)
        /\ piece.state.lines[p] = StoredAt(state.lines[p], i, samples[i])
    BY <1>9, <2>1
  <2>3. piece.until = i
    <3>1. ASSUME NEW e \in BOOLEAN, e = FALSE
          PROVE  SymbolPiece(s, p, samples, i, state, e).until = i
      BY DEF SymbolPiece
    <3>2. QED
      BY <1>9, <3>1
  <2>4. Codes(s) = {0, 1}
    BY <1>9 DEF Codes
  <2>5. Stored(piece.state.lines[p], samples, i)
    BY <1>1, <1>2, <1>3, <1>4, <2>2, StoredNext DEF line
  <2>6. piece.until \in (t.x + 1)..s.width
    BY <1>2, <2>3 DEF i
  <2>7. QED
    BY <1>6, <1>20, <2>2, <2>3, <2>4, <2>5, <2>6 DEF samples
<1>10. CASE s.golomb /\ piece = RunPiece(s, p, samples, i, state)
  <2>1. /\ piece.code \in Seq({0, 1}) /\ piece.until \in i..s.width
        /\ GoodState(s, piece.state)
        /\ Stored(piece.state.lines[p], samples, piece.until)
    BY <1>0, <1>1, <1>2, <1>4, <1>10, RunGood DEF line
  <2>2. Codes(s) = {0, 1}
    BY <1>10 DEF Codes
  <2>3. QED
    BY <1>6, <1>20, <2>1, <2>2 DEF samples, i
<1>11. QED
  BY <1>5, <1>8, <1>9, <1>10

-----------------------------------------------------------------------------
(***************************************************************************)
(* The trace of the encoder behind the coded slice.                        *)
(***************************************************************************)
Trace(s, img, bits, N, tr) ==
  /\ N \in Nat
  /\ \A k \in 0..N : Good(s, img, tr[k])
  /\ \A k \in 0..N : k < N => Step(s, img, bits, tr[k], tr[k + 1])

IsNode(t, r, i, state) == t.row = r /\ t.x = i /\ t.state = state

Starts(tr, first) == IsNode(tr[0], 0, 0, first) /\ tr[0].position = 0

\* The encoder got from a first state to this one, and coded these bits.
Reached(s, img, bits, r, i, state, first) ==
  /\ bits \in Seq(Codes(s))
  /\ \E N, tr : /\ Trace(s, img, bits, N, tr) /\ Starts(tr, first)
                /\ IsNode(tr[N], r, i, state) /\ tr[N].position = Len(bits)

LEMMA HoldsLonger ==
  ASSUME NEW T, NEW bits \in Seq(T), NEW more \in Seq(T), NEW place \in Nat, NEW piece,
         Len(piece) \in Nat, Holds(bits, place, piece)
  PROVE  Holds(bits \o more, place, piece)
<1> DEFINE all == bits \o more
<1>1. /\ Len(bits) \in Nat /\ Len(more) \in Nat /\ Len(all) = Len(bits) + Len(more)
      /\ \A j \in 1..Len(bits) : all[j] = bits[j]
  BY Joined
<1>2. place + Len(piece) <= Len(bits) /\ \A j \in 1..Len(piece) : bits[place + j] = piece[j]
  BY DEF Holds
<1> HIDE DEF all
<1>3. place + Len(piece) <= Len(all)
  BY <1>1, <1>2
<1>4. ASSUME NEW j \in 1..Len(piece)
      PROVE  all[place + j] = piece[j]
  <2>1. place + j \in 1..Len(bits)
    BY <1>1, <1>2
  <2>2. QED
    BY <1>1, <1>2, <2>1
<1>5. QED
  BY <1>3, <1>4 DEF Holds, all

LEMMA HoldsLast ==
  ASSUME NEW T, NEW bits \in Seq(T), NEW more \in Seq(T)
  PROVE  Holds(bits \o more, Len(bits), more)
<1> DEFINE all == bits \o more
<1>1. /\ Len(bits) \in Nat /\ Len(more) \in Nat /\ Len(all) = Len(bits) + Len(more)
      /\ \A j \in 1..Len(more) : all[Len(bits) + j] = more[j]
  BY Joined
<1> HIDE DEF all
<1>2. QED
  BY <1>1 DEF Holds, all

LEMMA TraceLonger ==
  ASSUME NEW s \in StreamParameters, FitsContexts(s), NEW img \in Pictures(s),
         NEW bits \in Seq(Codes(s)), NEW more \in Seq(Codes(s)), NEW N, NEW tr,
         Trace(s, img, bits, N, tr)
  PROVE  Trace(s, img, bits \o more, N, tr)
<1>1. /\ N \in Nat /\ \A k \in 0..N : Good(s, img, tr[k])
      /\ \A k \in 0..N : k < N => Step(s, img, bits, tr[k], tr[k + 1])
  BY DEF Trace
<1>2. ASSUME NEW t, NEW u, Good(s, img, t), Step(s, img, bits, t, u)
      PROVE  Step(s, img, bits \o more, t, u)
  <2>1. CASE LineStep(s, t, u)
    BY <2>1 DEF Step
  <2>2. CASE PieceStep(s, img, bits, t, u)
    <3>1. PICK piece :
            /\ PieceAt(s, img, t, piece)
            /\ Holds(bits, t.position, piece.code)
            /\ u.x = piece.until /\ u.state = piece.state
            /\ u.position = t.position + Len(piece.code)
      BY <2>2 DEF PieceStep
    <3>2. t.row < Rows(s) /\ t.x < s.width /\ u.row = t.row
      BY <2>2 DEF PieceStep
    <3>3. Len(piece.code) \in Nat
      BY <1>2, <3>1, <3>2, PieceGood
    <3>4. t.position \in Nat
      BY <1>2 DEF Good
    <3>5. Holds(bits \o more, t.position, piece.code)
      <4> DEFINE place == t.position
                 code == piece.code
                 T == Codes(s)
      <4> HIDE DEF place, code, T
      <4>1. place \in Nat /\ Len(code) \in Nat /\ Holds(bits, place, code)
            /\ bits \in Seq(T) /\ more \in Seq(T)
        BY <3>1, <3>3, <3>4 DEF place, code, T
      <4>2. Holds(bits \o more, place, code)
        BY <4>1, HoldsLonger
      <4>3. QED
        BY <4>2 DEF place, code
    <3>6. PieceStep(s, img, bits \o more, t, u)
      BY <3>1, <3>2, <3>5 DEF PieceStep
    <3>7. QED
      BY <3>6 DEF Step
  <2>3. QED
    BY <1>2, <2>1, <2>2 DEF Step
<1>3. ASSUME NEW k \in 0..N, k < N
      PROVE  Step(s, img, bits \o more, tr[k], tr[k + 1])
  <2>1. Good(s, img, tr[k]) /\ Step(s, img, bits, tr[k], tr[k + 1])
    BY <1>1, <1>3
  <2>2. QED
    BY <1>2, <2>1
<1>4. QED
  BY <1>1, <1>3 DEF Trace

LEMMA TraceExtended ==
  ASSUME NEW s, NEW img, NEW bits, NEW N, NEW tr, Trace(s, img, bits, N, tr),
         NEW u, Good(s, img, u), Step(s, img, bits, tr[N], u)
  PROVE  \E M, new : /\ Trace(s, img, bits, M, new) /\ new[0] = tr[0] /\ new[M] = u
<1> DEFINE new == [k \in 0..(N + 1) |-> IF k = N + 1 THEN u ELSE tr[k]]
<1>1. /\ N \in Nat /\ \A k \in 0..N : Good(s, img, tr[k])
      /\ \A k \in 0..N : k < N => Step(s, img, bits, tr[k], tr[k + 1])
  BY DEF Trace
<1>2. new[N + 1] = u /\ \A k \in 0..N : new[k] = tr[k]
  BY <1>1
<1> HIDE DEF new
<1>3. ASSUME NEW k \in 0..(N + 1)
      PROVE  Good(s, img, new[k])
  <2>1. k = N + 1 \/ k \in 0..N
    BY <1>1
  <2>2. QED
    BY <1>1, <1>2, <2>1
<1>4. ASSUME NEW k \in 0..(N + 1), k < N + 1
      PROVE  Step(s, img, bits, new[k], new[k + 1])
  <2>1. k \in 0..N /\ new[k] = tr[k]
    BY <1>1, <1>2, <1>4
  <2>2. CASE k = N
    BY <1>2, <2>1, <2>2
  <2>3. CASE k # N
    <3>1. k + 1 \in 0..N /\ k < N
      BY <1>1, <2>1, <2>3
    <3>2. new[k + 1] = tr[k + 1]
      BY <1>2, <3>1
    <3>3. QED
      BY <1>1, <2>1, <3>1, <3>2
  <2>4. QED
    BY <2>2, <2>3
<1>5. N + 1 \in Nat /\ 0 \in 0..N
  BY <1>1
<1>6. Trace(s, img, bits, N + 1, new) /\ new[0] = tr[0]
  BY <1>2, <1>3, <1>4, <1>5 DEF Trace
<1>7. QED
  BY <1>2, <1>6

LEMMA ReachedGood ==
  ASSUME NEW s \in StreamParameters, NEW img, NEW bits, NEW r, NEW i, NEW state, NEW first,
         Reached(s, img, bits, r, i, state, first)
  PROVE  /\ r \in Nat /\ r <= Rows(s) /\ i \in Nat /\ i <= s.width
         /\ r = Rows(s) => i = 0
         /\ GoodState(s, state) /\ GoodState(s, first)
         /\ bits \in Seq(Codes(s))
<1>1. PICK N, tr : /\ Trace(s, img, bits, N, tr) /\ Starts(tr, first)
                   /\ IsNode(tr[N], r, i, state) /\ tr[N].position = Len(bits)
  BY DEF Reached
<1>2. N \in Nat /\ Good(s, img, tr[N]) /\ Good(s, img, tr[0])
  BY <1>1 DEF Trace
<1>3. tr[N].row = r /\ tr[N].x = i /\ tr[N].state = state /\ tr[0].state = first
  BY <1>1 DEF IsNode, Starts
<1>4. QED
  BY <1>2, <1>3 DEF Good, Reached

LEMMA ReachedStart ==
  ASSUME NEW s \in StreamParameters, NEW img \in Pictures(s), NEW first, GoodState(s, first)
  PROVE  Reached(s, img, <<>>, 0, 0, first, first)
<1> DEFINE t == [row |-> 0, x |-> 0, state |-> first, position |-> 0]
           tr == [k \in 0..0 |-> t]
<1>1. t.row = 0 /\ t.x = 0 /\ t.state = first /\ t.position = 0 /\ tr[0] = t
  OBVIOUS
<1>2. Rows(s) \in Nat /\ Rows(s) >= 1 /\ s.width \in Nat
  BY RowsAre, StreamParts
<1> HIDE DEF t, tr
<1>3. Stored(LineAt(s, t.row, t.state), RowSamples(s, img, t.row), t.x)
  BY <1>1 DEF Stored
<1>4. Good(s, img, t)
  BY <1>1, <1>2, <1>3 DEF Good
<1>5. Trace(s, img, <<>>, 0, tr)
  BY <1>1, <1>4 DEF Trace
<1>6. Starts(tr, first) /\ IsNode(tr[0], 0, 0, first) /\ tr[0].position = Len(<<>>)
  BY <1>1 DEF Starts, IsNode
<1>7. <<>> \in Seq(Codes(s))
  OBVIOUS
<1>8. QED
  BY <1>5, <1>6, <1>7 DEF Reached

LEMMA ReachedPiece ==
  ASSUME NEW s \in StreamParameters, FitsContexts(s), NEW img \in Pictures(s), NEW bits,
         NEW r, NEW i, NEW state, NEW first, Reached(s, img, bits, r, i, state, first),
         r < Rows(s), i < s.width,
         NEW t, IsNode(t, r, i, state), NEW piece, PieceAt(s, img, t, piece)
  PROVE  Reached(s, img, bits \o piece.code, r, piece.until, piece.state, first)
<1>1. PICK N, tr : /\ Trace(s, img, bits, N, tr) /\ Starts(tr, first)
                   /\ IsNode(tr[N], r, i, state) /\ tr[N].position = Len(bits)
  BY DEF Reached
<1> DEFINE last == tr[N]
           code == piece.code
           u == [row |-> r, x |-> piece.until, state |-> piece.state,
                 position |-> Len(bits) + Len(code)]
<1>2. N \in Nat /\ Good(s, img, last) /\ bits \in Seq(Codes(s)) /\ Len(bits) \in Nat
  BY <1>1 DEF Trace, Reached
<1>3. last.row = r /\ last.x = i /\ last.state = state /\ last.position = Len(bits)
  BY <1>1 DEF IsNode
<1>4. t.row = r /\ t.x = i /\ t.state = state
  BY DEF IsNode
<1>12. /\ u.row = r /\ u.x = piece.until /\ u.state = piece.state
       /\ u.position = Len(bits) + Len(code)
  OBVIOUS
<1> HIDE DEF last, u
<1>5. PieceAt(s, img, last, piece)
  BY <1>3, <1>4 DEF PieceAt, RunStart
<1>6. /\ code \in Seq(Codes(s)) /\ Len(code) \in Nat
      /\ piece.until \in (i + 1)..s.width
      /\ GoodState(s, piece.state)
      /\ Stored(LineAt(s, r, piece.state), RowSamples(s, img, r), piece.until)
  BY <1>2, <1>3, <1>5, PieceGood
<1> HIDE DEF code
<1>7. Trace(s, img, bits \o code, N, tr)
  BY <1>1, <1>2, <1>6, TraceLonger
<1>8. /\ bits \o code \in Seq(Codes(s)) /\ Len(bits \o code) = Len(bits) + Len(code)
      /\ Holds(bits \o code, Len(bits), code)
  <2> DEFINE T == Codes(s)
  <2>1. bits \in Seq(T) /\ code \in Seq(T)
    BY <1>2, <1>6
  <2> HIDE DEF T
  <2>2. bits \o code \in Seq(T) /\ Len(bits \o code) = Len(bits) + Len(code)
    BY <2>1, Joined
  <2>3. Holds(bits \o code, Len(bits), code)
    BY <2>1, HoldsLast
  <2>4. QED
    BY <2>2, <2>3 DEF T
<1>9. Good(s, img, u)
  <2>1. r \in Nat /\ i \in Nat /\ s.width \in Nat /\ Rows(s) \in Nat /\ r <= Rows(s)
    BY <1>2, <1>3, StreamParts, RowsAre DEF Good
  <2>2. piece.until \in Nat /\ piece.until <= s.width
    BY <1>6, <2>1
  <2>3. u.position \in Nat
    BY <1>2, <1>6, <1>12
  <2>4. QED
    BY <1>6, <1>12, <2>1, <2>2, <2>3 DEF Good
<1>10. Step(s, img, bits \o code, last, u)
  <2>1. Holds(bits \o code, last.position, piece.code) /\ u.position = last.position + Len(piece.code)
    BY <1>3, <1>8, <1>12 DEF code
  <2>2. PieceStep(s, img, bits \o code, last, u)
    BY <1>3, <1>5, <1>12, <2>1 DEF PieceStep
  <2>3. QED
    BY <2>2 DEF Step
<1>11. PICK M, new : Trace(s, img, bits \o code, M, new) /\ new[0] = tr[0] /\ new[M] = u
  BY <1>7, <1>9, <1>10, TraceExtended DEF last
<1>13. Starts(new, first)
  BY <1>1, <1>11 DEF Starts
<1>14. IsNode(new[M], r, piece.until, piece.state) /\ new[M].position = Len(bits \o code)
  BY <1>8, <1>11, <1>12 DEF IsNode
<1>15. QED
  BY <1>8, <1>11, <1>13, <1>14 DEF Reached, code

LEMMA ReachedLine ==
  ASSUME NEW s \in StreamParameters, NEW img \in Pictures(s), NEW bits,
         NEW r, NEW i, NEW state, NEW first, Reached(s, img, bits, r, i, state, first),
         r < Rows(s), i = s.width
  PROVE  Reached(s, img, bits, r + 1, 0,
                 Changed(state, RowPlane(s, r), SwapLines(LineAt(s, r, state)),
                         state.contexts, state.runs), first)
<1> DEFINE after == Changed(state, RowPlane(s, r), SwapLines(LineAt(s, r, state)),
                            state.contexts, state.runs)
<1>1. PICK N, tr : /\ Trace(s, img, bits, N, tr) /\ Starts(tr, first)
                   /\ IsNode(tr[N], r, i, state) /\ tr[N].position = Len(bits)
  BY DEF Reached
<1> DEFINE last == tr[N]
           u == [row |-> r + 1, x |-> 0, state |-> after, position |-> Len(bits)]
<1>2. N \in Nat /\ Good(s, img, last) /\ bits \in Seq(Codes(s)) /\ Len(bits) \in Nat
  BY <1>1 DEF Trace, Reached
<1>3. last.row = r /\ last.x = i /\ last.state = state /\ last.position = Len(bits)
  BY <1>1 DEF IsNode
<1>4. u.row = r + 1 /\ u.x = 0 /\ u.state = after /\ u.position = Len(bits)
  OBVIOUS
<1> HIDE DEF last, u
<1>5. r \in Nat /\ GoodState(s, state) /\ Rows(s) \in Nat /\ s.width \in Nat
  BY <1>2, <1>3, RowsAre, StreamParts DEF Good
<1>6. GoodState(s, after)
  <2> DEFINE p == RowPlane(s, r)
             line == state.lines[p]
  <2>1. p \in Planes(s)
    BY <1>5, RowFacts
  <2> HIDE DEF p
  <2>2. /\ line \in LineType(s, p) /\ GoodContexts(s, state.contexts)
        /\ state.runs \in [Planes(s) -> RunSet]
    BY <1>5, <2>1, LineOf
  <2> HIDE DEF line
  <2>3. SwapLines(line) \in LineType(s, p)
    BY <2>2, SwapType
  <2> DEFINE new == SwapLines(line)
  <2> HIDE DEF new
  <2>4. GoodState(s, Changed(state, p, new, state.contexts, state.runs))
    BY <1>5, <2>1, <2>2, <2>3, ChangedGood DEF new
  <2>5. QED
    BY <2>4 DEF LineAt, new, line, p
<1> HIDE DEF after
<1>7. Good(s, img, u)
  <2>1. u.row < Rows(s) => Stored(LineAt(s, u.row, u.state), RowSamples(s, img, u.row), u.x)
    BY <1>4 DEF Stored
  <2>2. r + 1 \in Nat /\ r + 1 <= Rows(s) /\ 0 \in Nat /\ 0 <= s.width
    BY <1>5
  <2>3. QED
    BY <1>2, <1>4, <1>6, <2>1, <2>2 DEF Good
<1>8. Step(s, img, bits, last, u)
  <2>1. LineStep(s, last, u)
    BY <1>3, <1>4 DEF LineStep, after
  <2>2. QED
    BY <2>1 DEF Step
<1>9. PICK M, new : Trace(s, img, bits, M, new) /\ new[0] = tr[0] /\ new[M] = u
  BY <1>1, <1>7, <1>8, TraceExtended DEF last
<1>10. Starts(new, first)
  BY <1>1, <1>9 DEF Starts
<1>11. IsNode(new[M], r + 1, 0, after) /\ new[M].position = Len(bits)
  BY <1>4, <1>9 DEF IsNode
<1>12. QED
  BY <1>2, <1>9, <1>10, <1>11 DEF Reached, after

-----------------------------------------------------------------------------
(***************************************************************************)
(* The decoder holds what the encoder holds.                               *)
(***************************************************************************)
(***************************************************************************)
(* The decoder's state against the encoder's: the planes of an RGB row     *)
(* that are done still wait for the others, and the rest is the same.      *)
(***************************************************************************)
SameLines(s, img, r, ours, theirs) ==
  /\ theirs = [p \in Planes(s) |-> theirs[p]]
  /\ \A p \in Planes(s) :
       /\ ~(s.rgb /\ p < RowPlane(s, r)) => theirs[p] = ours[p]
       /\ s.rgb /\ p < RowPlane(s, r) =>
            /\ theirs[p] \in LineType(s, p) /\ ours[p] = SwapLines(theirs[p])
            /\ theirs[p].current = CodedRow(s, img, p, RowLine(s, r))

Matches(s, img, r, ours, theirs) ==
  /\ IsState(theirs)
  /\ SameLines(s, img, r, ours.lines, theirs.lines)
  /\ theirs.contexts = ours.contexts /\ theirs.runs = ours.runs

LEMMA SamePut ==
  ASSUME NEW s, NEW img, NEW r, NEW ours, NEW theirs, SameLines(s, img, r, ours, theirs),
         NEW p, p = RowPlane(s, r), p \in Planes(s), p \in Nat,
         ours = [q \in Planes(s) |-> ours[q]], NEW line
  PROVE  /\ theirs[p] = ours[p]
         /\ SameLines(s, img, r, Put(ours, p, line), Put(theirs, p, line))
<1> DEFINE a == Put(ours, p, line)
           d == Put(theirs, p, line)
<1>1. theirs = [q \in Planes(s) |-> theirs[q]]
  BY DEF SameLines
<1>2. ASSUME NEW q \in Planes(s)
      PROVE  /\ ~(s.rgb /\ q < p) => theirs[q] = ours[q]
             /\ s.rgb /\ q < p =>
                  /\ theirs[q] \in LineType(s, q) /\ ours[q] = SwapLines(theirs[q])
                  /\ theirs[q].current = CodedRow(s, img, q, RowLine(s, r))
  BY DEF SameLines
<1>3. /\ a = [q \in Planes(s) |-> IF q = p THEN line ELSE ours[q]]
      /\ d = [q \in Planes(s) |-> IF q = p THEN line ELSE theirs[q]]
  BY <1>1 DEF Put
<1> HIDE DEF a, d
<1>4. ~(p < p)
  OBVIOUS
<1>5. theirs[p] = ours[p]
  BY <1>2, <1>4
<1>6. d = [q \in Planes(s) |-> d[q]] /\ a[p] = line /\ d[p] = line
      /\ \A q \in Planes(s) : q # p => a[q] = ours[q] /\ d[q] = theirs[q]
  BY <1>3
<1>7. ASSUME NEW q \in Planes(s)
      PROVE  /\ ~(s.rgb /\ q < p) => d[q] = a[q]
             /\ s.rgb /\ q < p =>
                  /\ d[q] \in LineType(s, q) /\ a[q] = SwapLines(d[q])
                  /\ d[q].current = CodedRow(s, img, q, RowLine(s, r))
  <2>1. CASE q = p
    BY <1>4, <1>6, <2>1
  <2>2. CASE q # p
    BY <1>2, <1>6, <2>2
  <2>3. QED
    BY <2>1, <2>2
<1>8. SameLines(s, img, r, a, d)
  BY <1>6, <1>7 DEF SameLines
<1>9. QED
  BY <1>5, <1>8 DEF a, d

LEMMA MatchesPut ==
  ASSUME NEW s \in StreamParameters, NEW img, NEW r \in Nat, r < Rows(s), NEW ours, NEW theirs,
         IsState(ours), ours.lines = [q \in Planes(s) |-> ours.lines[q]],
         Matches(s, img, r, ours, theirs),
         NEW p, p = RowPlane(s, r), NEW line, NEW contexts, NEW runs
  PROVE  /\ IsState(theirs) /\ theirs.lines[p] = ours.lines[p]
         /\ theirs.contexts = ours.contexts /\ theirs.runs = ours.runs
         /\ Matches(s, img, r, Changed(ours, p, line, contexts, runs),
                    Changed(theirs, p, line, contexts, runs))
<1> DEFINE a == Changed(ours, p, line, contexts, runs)
           d == Changed(theirs, p, line, contexts, runs)
<1>1. /\ IsState(theirs) /\ SameLines(s, img, r, ours.lines, theirs.lines)
      /\ theirs.contexts = ours.contexts /\ theirs.runs = ours.runs
  BY DEF Matches
<1>2. p \in Planes(s) /\ p \in Nat
  BY RowPlaces, PlanesAre
<1>3. /\ theirs.lines[p] = ours.lines[p]
      /\ SameLines(s, img, r, Put(ours.lines, p, line), Put(theirs.lines, p, line))
  <2> DEFINE A == ours.lines
             D == theirs.lines
  <2>1. SameLines(s, img, r, A, D) /\ A = [q \in Planes(s) |-> A[q]]
    BY <1>1
  <2> HIDE DEF A, D
  <2>2. D[p] = A[p] /\ SameLines(s, img, r, Put(A, p, line), Put(D, p, line))
    BY <1>2, <2>1, SamePut
  <2>3. QED
    BY <2>2 DEF A, D
<1>4. /\ a.lines = Put(ours.lines, p, line) /\ a.contexts = contexts /\ a.runs = runs
  BY ChangedParts
<1>5. /\ IsState(d) /\ d.lines = Put(theirs.lines, p, line) /\ d.contexts = contexts /\ d.runs = runs
  BY ChangedParts
<1> HIDE DEF a, d
<1>6. Matches(s, img, r, a, d)
  BY <1>3, <1>4, <1>5 DEF Matches
<1>7. QED
  BY <1>1, <1>3, <1>6 DEF a, d

LEMMA GoodLinesAre ==
  ASSUME NEW s, NEW state, GoodState(s, state)
  PROVE  IsState(state) /\ state.lines = [q \in Planes(s) |-> state.lines[q]]
  BY DEF GoodState, GoodLines

LEMMA ChangedAgain ==
  ASSUME NEW s, NEW state, state.lines = [q \in Planes(s) |-> state.lines[q]],
         NEW p \in Planes(s), NEW a, NEW b, NEW c, NEW d, NEW e, NEW f
  PROVE  Changed(Changed(state, p, a, b, c), p, d, e, f) = Changed(state, p, d, e, f)
<1> DEFINE L == state.lines
           P == Planes(s)
           first == Changed(state, p, a, b, c)
<1>1. first.lines = Put(L, p, a)
  BY ChangedParts
<1>2. L = [q \in P |-> L[q]] /\ p \in P
  OBVIOUS
<1> HIDE DEF L, P, first
<1>3. Put(Put(L, p, a), p, d) = Put(L, p, d)
  BY <1>2 DEF Put
<1>4. [first.lines EXCEPT ![p] = d] = [L EXCEPT ![p] = d]
  BY <1>1, <1>3 DEF Put
<1>5. Changed(first, p, d, e, f) = [lines |-> [first.lines EXCEPT ![p] = d], contexts |-> e, runs |-> f]
  BY DEF Changed
<1>6. Changed(state, p, d, e, f) = [lines |-> [L EXCEPT ![p] = d], contexts |-> e, runs |-> f]
  BY DEF Changed, L
<1>7. QED
  BY <1>4, <1>5, <1>6 DEF first

-----------------------------------------------------------------------------
(***************************************************************************)
(* The segments that a written run is read as.                             *)
(***************************************************************************)
\* Reading a run goes from full run to full run, and ends where the run ends.
Continues(segment, index, m, left, count, covered, place, w) ==
  /\ ~segment.interrupted
  /\ segment.run_index = index + (m + 1) /\ segment.position = place + (m + 1)
  /\ covered + segment.count = Covered(index, m + 1)
  /\ covered + segment.count = left =>
       /\ count = left /\ w.run_index = segment.run_index
       /\ segment.position = place + Len(w.bits)

Ends(segment, count, covered, place, w) ==
  /\ segment.interrupted
  /\ covered + segment.count = count
  /\ segment.run_index = w.run_index /\ segment.position = place + Len(w.bits)

LEMMA RunSegment ==
  ASSUME NEW index \in RunIndexes, NEW left \in Nat, left < RowLimit, NEW count \in 0..left,
         NEW w, NEW n \in Nat, IsRun(index, left, count, n, w),
         NEW m \in Nat, m <= n, NEW bits, Len(bits) \in Nat, NEW place \in Nat,
         Holds(bits, place, w.bits), NEW state, state.run_index = index + m,
         NEW covered, covered = Covered(index, m), covered < left
  PROVE  LET segment == ReadSegment(bits, place + m, state, left - covered)
         IN /\ covered \in Nat
            /\ SegmentThere(bits, place + m, state)
            /\ segment.pending = 0 /\ segment.count \in Nat /\ covered + segment.count <= count
            /\ segment.run_index \in RunIndexes
            /\ \/ m + 1 <= n /\ Continues(segment, index, m, left, count, covered, place, w)
               \/ Ends(segment, count, covered, place, w)
<1> DEFINE segment == ReadSegment(bits, place + m, state, left - covered)
           rem == left - covered
           here == place + m
<1>0. index \in Nat /\ index <= 40
  BY DEF RunIndexes
<1>1. n \in 0..(40 - index) /\ Covered(index, n) <= count /\ count < Covered(index, n + 1)
  BY DEF IsRun, FullRuns
<1>2. index + n <= 40 /\ index + m <= 40 /\ index + m \in RunIndexes /\ count \in Nat /\ count <= left
  BY <1>0, <1>1 DEF RunIndexes
<1>3. covered \in Nat
  BY <1>2, CoveredNext
<1>4. /\ Covered(index, m + 1) = covered + FullRun(index + m)
      /\ FullRun(index + m) \in Nat /\ FullRun(index + m) >= 1
  BY <1>2, CoveredNext
<1>5. place + Len(w.bits) <= Len(bits) /\ \A j \in 1..Len(w.bits) : bits[place + j] = w.bits[j]
  BY DEF Holds
<1>6. Len(w.bits) \in Nat
  BY DEF IsRun
<1>7. rem \in Nat /\ here \in Nat /\ state.run_index \in RunIndexes /\ rem >= 1
  BY <1>2, <1>3
<1> DEFINE long == Len(w.bits)
           all == Len(bits)
<1>21. long \in Nat /\ all \in Nat /\ place + long <= all
  BY <1>5, <1>6
<1>8. covered + (n - m) <= Covered(index, n)
  BY <1>2, CoveredGrows
<1>19. Covered(index, n) \in Nat
  BY <1>2, CoveredNext
<1>20. /\ RunEndsFull(index, left, count, n) => Len(w.bits) = n /\ w.run_index = index + n
       /\ ~RunEndsFull(index, left, count, n) =>
            /\ Len(w.bits) = n + 1 + Log2Run(index + n)
            /\ w.bits[n + 1] = 0
            /\ \A j \in 1..Log2Run(index + n) :
                 w.bits[n + 1 + j] = BitsOf(count - Covered(index, n), Log2Run(index + n))[j]
            /\ w.run_index = Lower(index + n)
       /\ \A j \in 1..n : w.bits[j] = 1
  BY DEF IsRun
<1>9. CASE m < n
  <2> DEFINE size == FullRun(index + m)
  <2>1. m + 1 \in 1..n /\ m + 1 <= n /\ m + 1 \in Nat
    BY <1>9
  <2>2. n <= Len(w.bits)
    <3>1. CASE RunEndsFull(index, left, count, n)
      BY <1>20, <3>1
    <3>2. CASE ~RunEndsFull(index, left, count, n)
      <4>1. index + n \in RunIndexes
        BY <1>0, <1>2 DEF RunIndexes
      <4>2. Log2Run(index + n) \in Nat
        BY <4>1, FullRunType
      <4>3. QED
        BY <1>20, <3>2, <4>2
    <3>3. QED
      BY <3>1, <3>2
  <2>3. bits[here + 1] = 1 /\ here + 1 <= Len(bits)
    <3>1. m + 1 \in 1..Len(w.bits)
      BY <1>6, <2>1, <2>2
    <3>2. bits[place + (m + 1)] = 1
      BY <1>5, <1>20, <2>1, <3>1
    <3>5. m + 1 <= long
      BY <1>21, <2>1, <2>2
    <3> HIDE DEF long, all
    <3>3. place + (m + 1) = here + 1 /\ here + 1 <= all
      BY <1>21, <3>5
    <3>4. QED
      BY <3>2, <3>3 DEF all
  <2>4. Covered(index, m + 1) + (n - (m + 1)) <= Covered(index, n)
    BY <1>2, <2>1, CoveredGrows
  <2>5. covered + size + (n - (m + 1)) <= count /\ size <= rem /\ size \in Nat
    BY <1>1, <1>2, <1>3, <1>4, <1>19, <2>1, <2>4, SMTT(30)
  <2> HIDE DEF size, here, rem
  <2>6. /\ SegmentThere(bits, here, state)
        /\ ReadSegment(bits, here, state, rem) =
             Segment(FullRun(state.run_index), 0, FALSE, state.run_index + 1, here + 1)
    <3>1. FullRun(state.run_index) <= rem
      BY <2>5 DEF size
    <3>2. QED
      BY <1>7, <2>3, <3>1, FullSegmentRead
  <2>7. segment = Segment(size, 0, FALSE, index + (m + 1), place + (m + 1))
    <3>1. state.run_index + 1 = index + (m + 1) /\ here + 1 = place + (m + 1)
      BY <1>0 DEF here
    <3>2. QED
      BY <2>6, <3>1 DEF size, rem, here
  <2> HIDE DEF segment
  <2>8. /\ segment.count = size /\ segment.pending = 0 /\ segment.interrupted = FALSE
        /\ segment.run_index = index + (m + 1) /\ segment.position = place + (m + 1)
    BY <2>7 DEF Segment
  <2>9. covered + segment.count <= count /\ covered + segment.count = Covered(index, m + 1)
    BY <1>2, <1>3, <1>4, <2>1, <2>5, <2>8, SMTT(30) DEF size
  <2>10. index + (m + 1) \in RunIndexes
    BY <1>0, <1>2, <2>1 DEF RunIndexes
  <2>11. ASSUME covered + segment.count = left
         PROVE  count = left /\ w.run_index = segment.run_index /\ segment.position = place + Len(w.bits)
    <3>1. count = left /\ m + 1 = n
      BY <1>2, <1>3, <2>1, <2>5, <2>8, <2>11, SMTT(30)
    <3>2. Covered(index, n) = count /\ n > 0
      BY <2>1, <2>9, <2>11, <3>1
    <3>3. RunEndsFull(index, left, count, n)
      BY <3>1, <3>2 DEF RunEndsFull
    <3>4. QED
      BY <1>20, <2>8, <3>1, <3>3
  <2>12. Continues(segment, index, m, left, count, covered, place, w)
    BY <2>8, <2>9, <2>11 DEF Continues
  <2>13. QED
    BY <1>3, <2>1, <2>5, <2>6, <2>8, <2>9, <2>10, <2>12 DEF segment, here
<1>10. CASE m = n
  <2> DEFINE width == Log2Run(index + m)
             rest == count - covered
  <2>1. ~RunEndsFull(index, left, count, n)
    BY <1>10 DEF RunEndsFull
  <2>2. /\ Len(w.bits) = m + 1 + width /\ w.bits[m + 1] = 0
        /\ \A j \in 1..width : w.bits[m + 1 + j] = BitsOf(rest, width)[j]
        /\ w.run_index = Lower(index + m)
    BY <1>10, <1>20, <2>1
  <2>3. width \in Nat
    BY <1>2, FullRunType
  <2>4. rest \in Nat /\ rest < FullRun(index + m) /\ rest <= rem /\ covered + rest = count
    BY <1>1, <1>2, <1>3, <1>4, <1>10
  <2> HIDE DEF width, rest, rem, here
  <2>5. bits[here + 1] = 0 /\ here + 1 + width <= Len(bits)
    <3>1. m + 1 \in 1..Len(w.bits)
      BY <1>6, <2>2, <2>3
    <3>2. bits[place + (m + 1)] = 0
      BY <1>5, <2>2, <3>1
    <3>5. long = m + 1 + width
      BY <2>2
    <3> HIDE DEF long, all
    <3>3. place + (m + 1) = here + 1 /\ here + 1 + width = place + long
      BY <1>21, <2>3, <3>5 DEF here
    <3>4. here + 1 + width <= all
      BY <1>21, <3>3
    <3>6. QED
      BY <3>2, <3>3, <3>4 DEF all
  <2>6. ASSUME NEW j \in 1..width
        PROVE  bits[here + 1 + j] = BitsOf(rest, width)[j]
    <3>4. long = m + 1 + width
      BY <2>2
    <3> HIDE DEF long
    <3>5. m + 1 + j \in 1..long /\ place + (m + 1 + j) = here + 1 + j
      BY <1>21, <2>3, <3>4 DEF here
    <3>1. m + 1 + j \in 1..Len(w.bits) /\ place + (m + 1 + j) = here + 1 + j
      BY <3>5 DEF long
    <3>2. bits[place + (m + 1 + j)] = w.bits[m + 1 + j]
      BY <1>5, <3>1
    <3>3. QED
      BY <2>2, <3>1, <3>2
  <2>7. Log2Run(state.run_index) = width
    BY DEF width
  <2>8. /\ SegmentThere(bits, here, state)
        /\ ReadSegment(bits, here, state, rem) =
             Segment(rest, 0, TRUE, Lower(state.run_index), here + 1 + width)
    <3>1. RestThere(bits, here + 1, rest, width)
      BY <2>6 DEF RestThere
    <3>2. rest < FullRun(state.run_index)
      BY <2>4
    <3>4. /\ here \in Nat /\ state.run_index \in RunIndexes /\ Len(bits) \in Nat
          /\ bits[here + 1] = 0 /\ rem \in Nat /\ rest \in Nat /\ rest <= rem
      BY <1>7, <2>4, <2>5
    <3>5. PartialAt(bits, here, state, rem, rest, width)
      BY <2>3, <2>5, <2>7, <3>1, <3>2, <3>4 DEF PartialAt
    <3>6. PartialRead(bits, here, state, rem, rest, width)
      BY <3>5, PartialIsRead
    <3>3. QED
      BY <3>6 DEF PartialRead
  <2>9. segment = Segment(rest, 0, TRUE, w.run_index, place + Len(w.bits))
    <3>1. here + 1 + width = place + Len(w.bits)
      BY <1>6, <2>2, <2>3 DEF here
    <3>2. QED
      BY <2>2, <2>7, <2>8, <3>1 DEF rem, here
  <2> HIDE DEF segment
  <2>10. /\ segment.count = rest /\ segment.pending = 0 /\ segment.interrupted = TRUE
         /\ segment.run_index = w.run_index /\ segment.position = place + Len(w.bits)
    BY <2>9 DEF Segment
  <2>11. w.run_index \in RunIndexes
    BY <1>2, <2>2, LowerType
  <2>12. Ends(segment, count, covered, place, w)
    BY <2>4, <2>10 DEF Ends
  <2>13. covered + segment.count <= count
    BY <1>2, <2>4, <2>10
  <2>14. QED
    BY <1>3, <2>4, <2>8, <2>10, <2>11, <2>12, <2>13 DEF segment, here
<1>11. QED
  BY <1>9, <1>10

-----------------------------------------------------------------------------
(***************************************************************************)
(* The decoder inside a run.                                               *)
(***************************************************************************)
\* What a segment does to the decoder's state.
Taken(s, p, i, count, index, d) ==
  Changed(d, p, Copied(s, d.lines[p], i + 1, count), d.contexts,
          Put(d.runs, RunBank(s, p), RunAt(index)))

IsTaken(d, s, p, from, count, r, v) ==
  [d EXCEPT !.lines[p] = Copied(s, @, from, count), !.runs[r] = v] =
    Changed(d, p, Copied(s, d.lines[p], from, count), d.contexts, Put(d.runs, r, v))

LEMMA TakenIs ==
  ASSUME NEW d, IsState(d), NEW s, NEW p, NEW from, NEW count, NEW r, NEW v
  PROVE  IsTaken(d, s, p, from, count, r, v)
<1> DEFINE line == Copied(s, d.lines[p], from, count)
           L == [d.lines EXCEPT ![p] = line]
           R == [d.runs EXCEPT ![r] = v]
<1>1. d = [lines |-> d.lines, contexts |-> d.contexts, runs |-> d.runs]
  BY DEF IsState
<1>2. [d EXCEPT !.lines[p] = Copied(s, @, from, count), !.runs[r] = v] =
        [d EXCEPT !.lines = L, !.runs = R]
  OBVIOUS
<1>3. Changed(d, p, line, d.contexts, Put(d.runs, r, v)) =
        [lines |-> L, contexts |-> d.contexts, runs |-> R]
  BY DEF Changed, Put
<1> HIDE DEF line, L, R
<1> DEFINE one == [d EXCEPT !.lines = L]
<1>6. one = [lines |-> L, contexts |-> d.contexts, runs |-> d.runs]
  BY <1>1
<1>7. [d EXCEPT !.lines = L, !.runs = R] = [one EXCEPT !.runs = R]
  OBVIOUS
<1>8. one.lines = L /\ one.contexts = d.contexts
  BY <1>6
<1> HIDE DEF one
<1>9. [one EXCEPT !.runs = R] = [lines |-> L, contexts |-> d.contexts, runs |-> R]
  BY <1>6
<1>4. [d EXCEPT !.lines = L, !.runs = R] = [lines |-> L, contexts |-> d.contexts, runs |-> R]
  BY <1>7, <1>9
<1>5. QED
  BY <1>2, <1>3, <1>4 DEF line, IsTaken

LEMMA PutTwice ==
  ASSUME NEW s, NEW runs \in [Planes(s) -> RunSet], NEW r \in Planes(s),
         NEW a \in RunIndexes, NEW b \in RunIndexes
  PROVE  /\ Put(PutIndex(runs, r, a), r, RunAt(b)) =
              PutIndex(runs, r, b)
         /\ PutIndex(runs, r, a)[r].run_index = a
<1> DEFINE v == RunAt(a)
           w == RunAt(b)
<1>1. /\ PutIndex(runs, r, a) = Put(runs, r, v)
      /\ PutIndex(runs, r, b) = Put(runs, r, w)
      /\ PutIndex(runs, r, a)[r] = v
      /\ v.run_index = a
  BY IndexPut
<1> HIDE DEF v, w
<1>3. [[runs EXCEPT ![r] = v] EXCEPT ![r] = w] = [runs EXCEPT ![r] = w]
  OBVIOUS
<1>4. QED
  BY <1>1, <1>3 DEF Put, w

LEMMA WithinStart ==
  ASSUME NEW s \in StreamParameters, NEW p \in Planes(s),
         NEW samples \in [1..s.width -> SampleRange(s, p)], NEW from \in Nat,
         NEW state, GoodState(s, state)
  PROVE  Within(s, p, samples, from, state, from - 1, IndexFor(s, p, state)) = state
<1> DEFINE line == state.lines[p]
           r == RunBank(s, p)
<1>1. /\ IsState(state) /\ line \in LineType(s, p) /\ state.runs \in [Planes(s) -> RunSet]
  BY LineOf
<1>2. r \in Planes(s)
  BY BankType
<1>3. StoredUntil(line, samples, from, from - 1) = line
  BY <1>1, UntilStart
<1>4. state.runs[r].run_index \in RunIndexes
  BY <1>1, <1>2 DEF RunSet
<1>5. PutIndex(state.runs, r, state.runs[r].run_index) = state.runs
  BY <1>1, <1>2, <1>4, IndexPut
<1>6. state.lines = [q \in Planes(s) |-> state.lines[q]]
  BY GoodLinesAre
<1>7. [state.lines EXCEPT ![p] = line] = state.lines
  <2> DEFINE L == state.lines
  <2>1. L = [q \in Planes(s) |-> L[q]]
    BY <1>6
  <2> HIDE DEF L
  <2>2. [L EXCEPT ![p] = L[p]] = L
    BY <2>1
  <2>3. QED
    BY <2>2 DEF L
<1>8. Within(s, p, samples, from, state, from - 1, IndexFor(s, p, state)) =
        Changed(state, p, line, state.contexts, state.runs)
  BY <1>3, <1>5 DEF Within, IndexFor
<1>9. QED
  BY <1>1, <1>7, <1>8 DEF Changed, IsState

LEMMA WithinMoved ==
  ASSUME NEW s \in StreamParameters, NEW img, NEW r \in Nat, r < Rows(s),
         NEW p \in Planes(s), p = RowPlane(s, r),
         NEW samples \in [1..s.width -> SampleRange(s, p)], NEW from,
         NEW state, GoodState(s, state), NEW i, NEW j,
         NEW a \in RunIndexes, NEW b \in RunIndexes,
         NEW d, Matches(s, img, r, Within(s, p, samples, from, state, i, a), d)
  PROVE  /\ IsState(d) /\ d.lines[p] = StoredUntil(state.lines[p], samples, from, i)
         /\ d.contexts = state.contexts /\ d.runs = PutIndex(state.runs, RunBank(s, p), a)
         /\ d.runs[RunBank(s, p)].run_index = a
         /\ d.runs[RunBank(s, p)].pending_count = 0
         /\ Matches(s, img, r, Within(s, p, samples, from, state, j, b),
                    Changed(d, p, StoredUntil(state.lines[p], samples, from, j), d.contexts,
                            Put(d.runs, RunBank(s, p), RunAt(b))))
<1> DEFINE R == RunBank(s, p)
           one == Within(s, p, samples, from, state, i, a)
           line == StoredUntil(state.lines[p], samples, from, i)
           next == StoredUntil(state.lines[p], samples, from, j)
           runs == PutIndex(state.runs, R, b)
<1>1. /\ GoodState(s, one) /\ one.lines[p] = line /\ one.contexts = state.contexts
      /\ one.runs = PutIndex(state.runs, R, a)
  BY WithinGood
<1>2. /\ IsState(state) /\ state.runs \in [Planes(s) -> RunSet] /\ R \in Planes(s)
  BY LineOf, BankType
<1>3. /\ Put(PutIndex(state.runs, R, a), R, RunAt(b)) = runs
  BY <1>2, PutTwice
<1>4. PutIndex(state.runs, R, a)[R] = RunAt(a) /\ RunAt(a).run_index = a /\ RunAt(a).pending_count = 0
  BY <1>2, IndexPut
<1>5. /\ IsState(one) /\ one.lines = [q \in Planes(s) |-> one.lines[q]]
  BY <1>1, GoodLinesAre
<1>6. state.lines = [q \in Planes(s) |-> state.lines[q]]
  BY GoodLinesAre
<1>7. one = Changed(state, p, line, state.contexts, PutIndex(state.runs, R, a))
  BY DEF Within
<1>8. Within(s, p, samples, from, state, j, b) = Changed(state, p, next, state.contexts, runs)
  BY DEF Within
<1>9. Matches(s, img, r, one, d)
  OBVIOUS
<1> HIDE DEF one, line, next, runs, R
<1>10. /\ IsState(d) /\ d.lines[p] = one.lines[p]
       /\ d.contexts = one.contexts /\ d.runs = one.runs
       /\ Matches(s, img, r, Changed(one, p, next, state.contexts, runs),
                  Changed(d, p, next, state.contexts, runs))
  BY <1>5, <1>9, MatchesPut
<1>11. Changed(one, p, next, state.contexts, runs) = Changed(state, p, next, state.contexts, runs)
  BY <1>6, <1>7, ChangedAgain
<1>12. Put(d.runs, R, RunAt(b)) = runs
  BY <1>1, <1>3, <1>10
<1>13. d.runs[R] = RunAt(a)
  BY <1>1, <1>4, <1>10
<1>14. d.runs[R].run_index = a /\ d.runs[R].pending_count = 0
  BY <1>4, <1>13
<1>15. QED
  BY <1>1, <1>8, <1>10, <1>11, <1>12, <1>14 DEF R, line, next

-----------------------------------------------------------------------------
(***************************************************************************)
(* Places of the decoder within a piece.                                   *)
(***************************************************************************)
\* The run that starts at a node of a trace.
IsRunning(s, t) == s.golomb /\ t.row < Rows(s) /\ t.x < s.width /\ RunStart(s, t)

NodeIndex(s, t) == IndexFor(s, RowPlane(s, t.row), t.state)

NodeEnd(s, img, t) ==
  EndFor(s, RowPlane(s, t.row), RowSamples(s, img, t.row), t.x + 1, t.state)

NodeRun(s, img, t) ==
  RunFor(s, RowPlane(s, t.row), RowSamples(s, img, t.row), t.x + 1, t.state)

NodeWithin(s, img, t, until, index) ==
  Within(s, RowPlane(s, t.row), RowSamples(s, img, t.row), t.x + 1, t.state, until, index)

NodeLine(s, img, t, until) ==
  StoredUntil(LineAt(s, t.row, t.state), RowSamples(s, img, t.row), t.x + 1, until)

NodeCounts(s, img, t, n) ==
  IsRun(NodeIndex(s, t), s.width - t.x, NodeEnd(s, img, t) - t.x, n, NodeRun(s, img, t))

LEMMA RunFacts ==
  ASSUME NEW s \in StreamParameters, NEW img \in Pictures(s), NEW t, Good(s, img, t), IsRunning(s, t)
  PROVE  /\ RowPlane(s, t.row) \in Planes(s)
         /\ RowSamples(s, img, t.row) \in [1..s.width -> SampleRange(s, RowPlane(s, t.row))]
         /\ t.x \in Nat /\ t.row \in Nat /\ t.position \in Nat
         /\ GoodState(s, t.state) /\ LineAt(s, t.row, t.state) \in LineType(s, RowPlane(s, t.row))
         /\ NodeIndex(s, t) \in RunIndexes /\ NodeEnd(s, img, t) \in t.x..s.width
         /\ \E n \in Nat : NodeCounts(s, img, t, n)
         /\ NodeRun(s, img, t).bits \in Seq({0, 1}) /\ NodeRun(s, img, t).run_index \in RunIndexes
         /\ Predicted(s, LineAt(s, t.row, t.state), RowSamples(s, img, t.row), t.x + 1, t.x + 1,
                      NodeEnd(s, img, t))
         /\ NodeEnd(s, img, t) < s.width =>
              RowSamples(s, img, t.row)[NodeEnd(s, img, t) + 1] #
                PredictionAt(s, NodeLine(s, img, t, NodeEnd(s, img, t)), NodeEnd(s, img, t) + 1)
<1> DEFINE p == RowPlane(s, t.row)
           samples == RowSamples(s, img, t.row)
           from == t.x + 1
           state == t.state
           end == EndFor(s, p, samples, from, state)
<1>1. t.row \in Nat /\ t.row < Rows(s) /\ t.x \in Nat /\ t.x < s.width /\ GoodState(s, state)
      /\ t.position \in Nat
  BY DEF Good, IsRunning
<1>2. p \in Planes(s) /\ samples \in [1..s.width -> SampleRange(s, p)]
  BY <1>1, RowFacts
<1>3. s.width \in Nat
  BY StreamParts
<1>4. from \in 1..s.width /\ from - 1 = t.x
  BY <1>1, <1>3
<1>5. s.width - from + 1 = s.width - t.x
  BY <1>1, <1>3
<1> HIDE DEF p, samples, from, state
<1>6. /\ IndexFor(s, p, state) \in RunIndexes /\ end \in (from - 1)..s.width
      /\ \E n \in Nat : IsRun(IndexFor(s, p, state), s.width - from + 1, end - from + 1, n,
                              RunFor(s, p, samples, from, state))
      /\ RunFor(s, p, samples, from, state).bits \in Seq({0, 1})
      /\ RunFor(s, p, samples, from, state).run_index \in RunIndexes
      /\ Predicted(s, state.lines[p], samples, from, from, end)
      /\ end < s.width =>
           samples[end + 1] # PredictionAt(s, StoredUntil(state.lines[p], samples, from, end), end + 1)
  BY <1>1, <1>2, <1>4, RunStarts
<1>7. end \in t.x..s.width
  BY <1>4, <1>6
<1>8. end - from + 1 = end - t.x
  BY <1>1, <1>7 DEF from
<1>9. state.lines[p] \in LineType(s, p)
  BY <1>1, <1>2, LineOf
<1>10. /\ NodeIndex(s, t) = IndexFor(s, p, state) /\ NodeEnd(s, img, t) = end
       /\ NodeRun(s, img, t) = RunFor(s, p, samples, from, state)
       /\ LineAt(s, t.row, t.state) = state.lines[p]
       /\ NodeLine(s, img, t, end) = StoredUntil(state.lines[p], samples, from, end)
  BY DEF p, samples, from, state, NodeIndex, NodeEnd, NodeRun, LineAt, NodeLine
<1> HIDE DEF end
<1>11. \E n \in Nat : NodeCounts(s, img, t, n)
  BY <1>5, <1>6, <1>8, <1>10 DEF NodeCounts
<1>12. QED
  BY <1>1, <1>2, <1>6, <1>7, <1>9, <1>10, <1>11 DEF p, samples, from, state

\* Where the decoder is: at a node, within a run that starts there, or behind one that a
\* sample interrupts.
AtNode(s, img, t, i, d, place) ==
  /\ i = t.x /\ place = t.position
  /\ Matches(s, img, t.row, t.state, d)

InRun(s, img, t, m, i, d, place) ==
  /\ IsRunning(s, t)
  /\ m \in Nat
  /\ \E n \in Nat : m <= n /\ NodeCounts(s, img, t, n)
  /\ i = t.x + Covered(NodeIndex(s, t), m) /\ place = t.position + m
  /\ Matches(s, img, t.row, NodeWithin(s, img, t, i, NodeIndex(s, t) + m), d)

BehindRun(s, img, t, i, d, place) ==
  /\ IsRunning(s, t)
  /\ i = NodeEnd(s, img, t) /\ i < s.width
  /\ place = t.position + Len(NodeRun(s, img, t).bits)
  /\ Matches(s, img, t.row, NodeWithin(s, img, t, i, NodeRun(s, img, t).run_index), d)

LEMMA RunEntered ==
  ASSUME NEW s \in StreamParameters, NEW img \in Pictures(s), NEW t, Good(s, img, t),
         IsRunning(s, t), NEW i, NEW d, NEW place, AtNode(s, img, t, i, d, place)
  PROVE  InRun(s, img, t, 0, i, d, place)
<1> DEFINE p == RowPlane(s, t.row)
           samples == RowSamples(s, img, t.row)
           from == t.x + 1
           index == NodeIndex(s, t)
<1>1. /\ p \in Planes(s) /\ samples \in [1..s.width -> SampleRange(s, p)]
      /\ t.x \in Nat /\ t.position \in Nat
      /\ GoodState(s, t.state) /\ index \in RunIndexes
      /\ \E n \in Nat : NodeCounts(s, img, t, n)
  BY RunFacts
<1>2. from \in Nat /\ from - 1 = t.x /\ index = IndexFor(s, p, t.state)
  BY <1>1 DEF NodeIndex
<1>3. index + 0 = index
  <2> HIDE DEF index
  <2>1. index \in 0..40
    BY <1>1 DEF RunIndexes
  <2>2. QED
    BY <2>1
<1>4. NodeWithin(s, img, t, t.x, index) = Within(s, p, samples, from, t.state, from - 1, IndexFor(s, p, t.state))
  BY <1>2 DEF NodeWithin
<1> HIDE DEF p, samples, from, index
<1>5. NodeWithin(s, img, t, t.x, index) = t.state
  BY <1>1, <1>2, <1>4, WithinStart
<1>6. Covered(index, 0) = 0
  BY <1>1, CoveredZero
<1>7. i = t.x /\ place = t.position /\ Matches(s, img, t.row, t.state, d)
  BY DEF AtNode
<1>8. i = t.x + Covered(index, 0) /\ place = t.position + 0
  BY <1>1, <1>6, <1>7
<1>9. Matches(s, img, t.row, NodeWithin(s, img, t, i, index + 0), d)
  BY <1>3, <1>5, <1>7
<1>10. \E n \in Nat : 0 <= n /\ NodeCounts(s, img, t, n)
  BY <1>1
<1>11. QED
  BY <1>8, <1>9, <1>10 DEF InRun, index

\* What a run piece is at a node.
LEMMA NodePiece ==
  ASSUME NEW s \in StreamParameters, NEW img \in Pictures(s), NEW t, Good(s, img, t),
         IsRunning(s, t), NEW piece, PieceAt(s, img, t, piece)
  PROVE  LET behind == NodeWithin(s, img, t, NodeEnd(s, img, t), NodeRun(s, img, t).run_index)
             symbol == SymbolPiece(s, RowPlane(s, t.row), RowSamples(s, img, t.row),
                                   NodeEnd(s, img, t) + 1, behind, TRUE)
         IN /\ NodeEnd(s, img, t) = s.width =>
                 /\ piece.code = NodeRun(s, img, t).bits
                 /\ piece.state = behind /\ piece.until = s.width
            /\ NodeEnd(s, img, t) # s.width =>
                 /\ piece.code = NodeRun(s, img, t).bits \o symbol.code
                 /\ piece.state = symbol.state
                 /\ piece.until = NodeEnd(s, img, t) + 1
<1> DEFINE p == RowPlane(s, t.row)
           samples == RowSamples(s, img, t.row)
           from == t.x + 1
           state == t.state
<1>1. piece = RunPiece(s, p, samples, from, state)
  BY DEF PieceAt, IsRunning
<1>2. IsState(state)
  BY GoodLinesAre DEF Good
<1>3. /\ NodeEnd(s, img, t) = EndFor(s, p, samples, from, state)
      /\ NodeRun(s, img, t) = RunFor(s, p, samples, from, state)
      /\ NodeWithin(s, img, t, NodeEnd(s, img, t), NodeRun(s, img, t).run_index) =
           Behind(s, p, samples, from, state)
  BY DEF NodeEnd, NodeRun, NodeWithin, Behind
<1> HIDE DEF p, samples, from, state
<1> DEFINE end == EndFor(s, p, samples, from, state)
           w == RunFor(s, p, samples, from, state)
           behind == Behind(s, p, samples, from, state)
<1>5. /\ end = s.width => piece.code = w.bits /\ piece.state = behind /\ piece.until = end
      /\ end # s.width =>
           /\ piece.code = w.bits \o SymbolPiece(s, p, samples, end + 1, behind, TRUE).code
           /\ piece.state = SymbolPiece(s, p, samples, end + 1, behind, TRUE).state
           /\ piece.until = end + 1
  <2>1. IsRunPiece(s, p, samples, from, state, piece)
    BY <1>1, <1>2, RunPieceParts
  <2>2. QED
    BY <2>1, Zenon DEF IsRunPiece
<1> HIDE DEF end, w, behind
<1>6. NodeEnd(s, img, t) = end /\ NodeRun(s, img, t) = w
      /\ NodeWithin(s, img, t, end, w.run_index) = behind
  BY <1>3 DEF end, w, behind
<1>4. QED
  BY <1>5, <1>6 DEF p, samples

\* What is written at a place begins with its first part.
LEMMA HoldsFirst ==
  ASSUME NEW T, NEW a \in Seq(T), NEW b \in Seq(T), NEW bits, NEW place \in Nat,
         Len(bits) \in Nat, Holds(bits, place, a \o b)
  PROVE  /\ Holds(bits, place, a) /\ Holds(bits, place + Len(a), b)
         /\ Len(a \o b) = Len(a) + Len(b)
<1> DEFINE la == Len(a)
           lb == Len(b)
           c == a \o b
           all == Len(bits)
<1>1. /\ la \in Nat /\ lb \in Nat /\ Len(c) = la + lb /\ all \in Nat
      /\ \A j \in 1..la : c[j] = a[j]
      /\ \A j \in 1..lb : c[la + j] = b[j]
  BY Joined
<1>2. place + Len(c) <= all /\ \A j \in 1..Len(c) : bits[place + j] = c[j]
  BY DEF Holds
<1> HIDE DEF la, lb, c, all
<1>3. place + la <= all /\ (place + la) + lb <= all
  BY <1>1, <1>2
<1>4. ASSUME NEW j \in 1..la
      PROVE  bits[place + j] = a[j]
  <2>1. j \in 1..Len(c)
    BY <1>1
  <2>2. QED
    BY <1>1, <1>2, <2>1
<1>5. ASSUME NEW j \in 1..lb
      PROVE  bits[(place + la) + j] = b[j]
  <2>1. la + j \in 1..Len(c) /\ place + (la + j) = (place + la) + j
    BY <1>1
  <2>2. bits[place + (la + j)] = c[la + j]
    BY <1>2, <2>1
  <2>3. QED
    BY <1>1, <2>1, <2>2
<1>6. QED
  BY <1>1, <1>3, <1>4, <1>5 DEF Holds, la, lb, c, all

-----------------------------------------------------------------------------
(***************************************************************************)
(* A segment takes the decoder from one place to the next.                 *)
(***************************************************************************)
\* Where a segment leaves the decoder.
SegmentEnds(s, img, t, m, i, segment, new) ==
  \/ /\ i + segment.count < s.width /\ ~segment.interrupted
     /\ InRun(s, img, t, m + 1, i + segment.count, new, segment.position)
  \/ /\ i + segment.count < s.width /\ segment.interrupted
     /\ BehindRun(s, img, t, i + segment.count, new, segment.position)
  \/ /\ i + segment.count = s.width /\ NodeEnd(s, img, t) = s.width
     /\ segment.position = t.position + Len(NodeRun(s, img, t).bits)
     /\ Matches(s, img, t.row,
                NodeWithin(s, img, t, NodeEnd(s, img, t), NodeRun(s, img, t).run_index), new)

SegmentFound(s, img, t, m, i, bits, place, state, segment, d) ==
  /\ IsState(d) /\ SegmentThere(bits, place, state)
  /\ state.pending_count = 0 /\ segment.pending = 0 /\ segment.count \in Nat
  /\ SegmentEnds(s, img, t, m, i, segment,
                 Taken(s, RowPlane(s, t.row), i, segment.count, segment.run_index, d))

LEMMA SegmentStep ==
  ASSUME NEW s \in StreamParameters, NEW img \in Pictures(s), NEW t, Good(s, img, t),
         NEW bits, Len(bits) \in Nat, Holds(bits, t.position, NodeRun(s, img, t).bits),
         NEW m, NEW i, NEW d, NEW place, InRun(s, img, t, m, i, d, place), i < s.width,
         NEW state, state = d.runs[RunBank(s, RowPlane(s, t.row))],
         NEW segment, segment = ReadSegment(bits, place, state, s.width - i)
  PROVE  SegmentFound(s, img, t, m, i, bits, place, state, segment, d)
<1> DEFINE p == RowPlane(s, t.row)
           samples == RowSamples(s, img, t.row)
           from == t.x + 1
           line == LineAt(s, t.row, t.state)
           index == NodeIndex(s, t)
           end == NodeEnd(s, img, t)
           w == NodeRun(s, img, t)
           left == s.width - t.x
           count == end - t.x
           covered == Covered(index, m)
           r == RunBank(s, p)
           a == index + m
           b == segment.run_index
           j == i + segment.count
           runs == Put(d.runs, r, RunAt(b))
<1>1. IsRunning(s, t) /\ m \in Nat /\ i = t.x + covered /\ place = t.position + m
      /\ Matches(s, img, t.row, NodeWithin(s, img, t, i, a), d)
  BY DEF InRun
<1>2. /\ p \in Planes(s) /\ samples \in [1..s.width -> SampleRange(s, p)]
      /\ t.x \in Nat /\ t.row \in Nat /\ t.position \in Nat
      /\ GoodState(s, t.state) /\ line \in LineType(s, p)
      /\ index \in RunIndexes /\ end \in t.x..s.width
      /\ w.bits \in Seq({0, 1}) /\ w.run_index \in RunIndexes
      /\ Predicted(s, line, samples, from, from, end)
  BY <1>1, RunFacts
<1>3. PICK n \in Nat : m <= n /\ IsRun(index, left, count, n, w)
  BY DEF InRun, NodeCounts
<1>4. s.width \in Nat /\ s.width < RowLimit /\ RowLimit \in Nat /\ t.x < s.width /\ t.row < Rows(s)
  BY <1>1, StreamParts, LongestRun DEF IsRunning
<1>5. line = t.state.lines[p]
  BY DEF LineAt
<1>6. NodeWithin(s, img, t, i, a) = Within(s, p, samples, from, t.state, i, a)
  BY DEF NodeWithin
<1> HIDE DEF p, samples, line, index, end, w, r
<1>7. index \in 0..40
  BY <1>2 DEF RunIndexes
<1>8. n \in 0..(40 - index)
  BY <1>3 DEF IsRun, FullRuns
<1>9. a \in RunIndexes /\ index + m <= 40
  BY <1>1, <1>3, <1>7, <1>8 DEF RunIndexes
<1>10. covered \in Nat
  BY <1>1, <1>2, <1>9, CoveredNext
<1>11. /\ left \in Nat /\ left < RowLimit /\ count \in 0..left /\ covered < left
       /\ left - covered = s.width - i
  <2> HIDE DEF covered
  <2>1. /\ t.x \in Int /\ s.width \in Int /\ end \in Int /\ covered \in Int
        /\ t.x <= end /\ end <= s.width /\ t.x < s.width /\ i = t.x + covered /\ t.x >= 0
    BY <1>1, <1>2, <1>4, <1>10
  <2>2. left \in Nat /\ left < RowLimit
    BY <1>2, <1>4
  <2>3. count \in 0..left
    BY <2>1
  <2>4. covered < left /\ left - covered = s.width - i
    BY <2>1
  <2>5. QED
    BY <2>2, <2>3, <2>4
<1>12. /\ IsState(d) /\ d.lines[p] = StoredUntil(line, samples, from, i)
       /\ state.run_index = a /\ state.pending_count = 0
  <2>1. p = RowPlane(s, t.row)
    BY DEF p
  <2>2. Matches(s, img, t.row, Within(s, p, samples, from, t.state, i, a), d)
    BY <1>1, <1>6
  <2>3. state = d.runs[RunBank(s, p)]
    BY DEF p
  <2> HIDE DEF a, from
  <2>4. /\ IsState(d) /\ d.lines[p] = StoredUntil(t.state.lines[p], samples, from, i)
        /\ d.runs[RunBank(s, p)].run_index = a /\ d.runs[RunBank(s, p)].pending_count = 0
    BY <1>2, <1>4, <1>9, <2>1, <2>2, WithinMoved
  <2>5. QED
    BY <1>5, <2>3, <2>4
<1>13. segment = ReadSegment(bits, t.position + m, state, left - covered)
  BY <1>1, <1>11
<1>14. Holds(bits, t.position, w.bits)
  BY DEF w
<1> HIDE DEF left, count, covered
<1>15. /\ SegmentThere(bits, t.position + m, state)
       /\ segment.pending = 0 /\ segment.count \in Nat /\ covered + segment.count <= count
       /\ segment.run_index \in RunIndexes
       /\ \/ m + 1 <= n /\ Continues(segment, index, m, left, count, covered, t.position, w)
          \/ Ends(segment, count, covered, t.position, w)
  <2>1. index \in RunIndexes /\ left \in Nat /\ left < RowLimit /\ count \in 0..left /\ n \in Nat
        /\ IsRun(index, left, count, n, w) /\ m \in Nat /\ m <= n /\ t.position \in Nat
        /\ state.run_index = index + m /\ covered = Covered(index, m) /\ covered < left
    BY <1>1, <1>2, <1>3, <1>11, <1>12 DEF covered
  <2>2. QED
    BY <1>13, <1>14, <2>1, RunSegment
<1>16. i \in Nat /\ t.x <= i /\ j \in Nat /\ j <= end /\ j <= s.width /\ end \in Nat
       /\ j = t.x + (covered + segment.count)
  <2>1. /\ t.x \in Nat /\ s.width \in Nat /\ end \in t.x..s.width /\ covered \in Nat
        /\ segment.count \in Nat /\ i = t.x + covered
    BY <1>1, <1>2, <1>4, <1>10, <1>15
  <2>2. covered + segment.count <= end - t.x
    BY <1>15 DEF count
  <2> DEFINE c == segment.count
  <2> HIDE DEF c
  <2>3. c \in Nat /\ covered + c <= end - t.x
    BY <2>1, <2>2 DEF c
  <2> HIDE DEF covered
  <2>6. i \in Nat /\ t.x <= i /\ end \in Nat
    BY <2>1
  <2>7. i + c = t.x + (covered + c)
    BY <2>1, <2>3
  <2>8. i + c \in Nat /\ i + c <= end /\ i + c <= s.width
    BY <2>1, <2>3, <2>7, SMTT(30)
  <2>4. /\ i \in Nat /\ t.x <= i /\ i + c \in Nat /\ i + c <= end /\ i + c <= s.width /\ end \in Nat
        /\ i + c = t.x + (covered + c)
    BY <2>6, <2>7, <2>8
  <2>5. QED
    BY <2>4 DEF c
<1>17. Copied(s, StoredUntil(line, samples, from, i), i + 1, segment.count) =
         StoredUntil(line, samples, from, j)
  <2>1. Predicted(s, line, samples, from, i + 1, i + segment.count)
    <3>1. \A k \in (i + 1)..(i + segment.count) : k \in from..end
      BY <1>2, <1>15, <1>16, SMTT(30)
    <3>2. QED
      BY <1>2, <3>1 DEF Predicted
  <2>2. from \in 1..s.width /\ from - 1 <= i /\ i + segment.count <= s.width
    BY <1>2, <1>4, <1>16, SMTT(30)
  <2> DEFINE c == segment.count
  <2>3. c \in Nat
    BY <1>15
  <2> HIDE DEF c, from
  <2>4. Predicted(s, line, samples, from, i + 1, i + c) /\ i + c <= s.width
    BY <2>1, <2>2 DEF c
  <2>5. CanCopy(s, p, line, samples, from, i, c)
    BY <1>2, <1>16, <2>2, <2>3, <2>4 DEF CanCopy
  <2>6. CopiesUntil(s, line, samples, from, i, c)
    BY <2>5, CopiedIs
  <2>7. QED
    BY <2>6 DEF c, CopiesUntil
<1> DEFINE new == Taken(s, p, i, segment.count, b, d)
<1>18. new = Changed(d, p, StoredUntil(line, samples, from, j), d.contexts, runs)
  BY <1>12, <1>17 DEF Taken, r
<1>19. Matches(s, img, t.row, Within(s, p, samples, from, t.state, j, b), new)
  <2>1. Matches(s, img, t.row, Within(s, p, samples, from, t.state, j, b),
                Changed(d, p, StoredUntil(t.state.lines[p], samples, from, j), d.contexts,
                        Put(d.runs, RunBank(s, p), RunAt(b))))
    <3> HIDE DEF j, b, a
    <3>1. p = RowPlane(s, t.row)
      BY DEF p
    <3>2. Matches(s, img, t.row, Within(s, p, samples, from, t.state, i, a), d)
      BY <1>1, <1>6
    <3>3. b \in RunIndexes
      BY <1>15 DEF b
    <3>4. /\ s \in StreamParameters /\ t.row \in Nat /\ t.row < Rows(s) /\ p \in Planes(s)
          /\ samples \in [1..s.width -> SampleRange(s, p)] /\ GoodState(s, t.state)
          /\ a \in RunIndexes
      BY <1>2, <1>4, <1>9
    <3> HIDE DEF p, samples, from
    <3>5. QED
      BY ONLY <3>1, <3>2, <3>3, <3>4, WithinMoved
  <2>2. QED
    BY <1>5, <1>18, <2>1 DEF r
<1>20. Within(s, p, samples, from, t.state, j, b) = NodeWithin(s, img, t, j, b)
  BY DEF NodeWithin, p, samples
<1> HIDE DEF new, j, b
<1>21. Matches(s, img, t.row, NodeWithin(s, img, t, j, b), new)
  BY <1>19, <1>20
<1>22. j = t.x + count => j = end
  BY <1>2, <1>16 DEF count
<1>23. j = s.width => covered + segment.count = left
  BY <1>2, <1>4, <1>10, <1>15, <1>16, SMTT(30) DEF left
<1>24. SegmentEnds(s, img, t, m, i, segment, new)
  <2>1. CASE m + 1 <= n /\ Continues(segment, index, m, left, count, covered, t.position, w)
    <3>1. /\ ~segment.interrupted /\ b = index + (m + 1) /\ segment.position = t.position + (m + 1)
          /\ covered + segment.count = Covered(index, m + 1)
          /\ covered + segment.count = left =>
               count = left /\ w.run_index = b /\ segment.position = t.position + Len(w.bits)
      BY <2>1 DEF Continues, b
    <3>2. CASE j < s.width
      <4>1. j = t.x + Covered(index, m + 1) /\ m + 1 \in Nat
        BY <1>1, <1>16, <3>1
      <4>2. \E k \in Nat : m + 1 <= k /\ NodeCounts(s, img, t, k)
        BY <1>3, <2>1 DEF NodeCounts, index, left, count, w, end
      <4>3. InRun(s, img, t, m + 1, j, new, segment.position)
        BY <1>1, <1>21, <3>1, <4>1, <4>2 DEF InRun, index
      <4>4. QED
        BY <3>1, <3>2, <4>3 DEF SegmentEnds, j
    <3>3. CASE j = s.width
      <4>1. count = left /\ w.run_index = b /\ segment.position = t.position + Len(w.bits)
        BY <1>23, <3>1, <3>3
      <4>2. end = s.width
        BY <1>2, <1>4, <4>1 DEF count, left
      <4>3. QED
        BY <1>21, <3>3, <4>1, <4>2 DEF SegmentEnds, j, end, w
    <3>4. QED
      BY <1>4, <1>16, <3>2, <3>3
  <2>2. CASE Ends(segment, count, covered, t.position, w)
    <3>1. /\ segment.interrupted /\ covered + segment.count = count
          /\ b = w.run_index /\ segment.position = t.position + Len(w.bits)
      BY <2>2 DEF Ends, b
    <3>2. j = end
      BY <1>16, <1>22, <3>1
    <3>3. CASE j < s.width
      <4>1. BehindRun(s, img, t, j, new, segment.position)
        BY <1>1, <1>21, <3>1, <3>2, <3>3 DEF BehindRun, end, w
      <4>2. QED
        BY <3>1, <3>3, <4>1 DEF SegmentEnds, j
    <3>4. CASE j = s.width
      BY <1>21, <3>1, <3>2, <3>4 DEF SegmentEnds, j, end, w
    <3>5. QED
      BY <1>4, <1>16, <3>3, <3>4
  <2>3. QED
    BY <1>15, <2>1, <2>2
<1>25. SegmentThere(bits, place, state)
  BY <1>1, <1>15
<1>26. QED
  BY <1>12, <1>15, <1>24, <1>25 DEF SegmentFound, new, p, b

-----------------------------------------------------------------------------
(***************************************************************************)
(* A symbol takes the decoder from one place to the next.                  *)
(***************************************************************************)
\* The context that a sample is found in, on the decoder's lines.
Found(s, d, p, i) == ContextAt(s, d.lines[p], i)

\* The difference that is read for a range coded sample, and the state behind it.
RangeDifference(s, d, p, i, symbol) ==
  IF symbol.bank = Bank(s, p) /\ symbol.context = Found(s, d, p, i).number
  THEN symbol.value ELSE symbol.value + 1

AfterSample(s, d, p, i, symbol) ==
  Decoded(s, d, p, i, Negated(Found(s, d, p, i), RangeDifference(s, d, p, i, symbol)))

LEMMA SampleStep ==
  ASSUME NEW s \in StreamParameters, FitsContexts(s), NEW img, NEW r \in Nat, r < Rows(s),
         NEW p \in Planes(s), p = RowPlane(s, r),
         NEW samples \in [1..s.width -> SampleRange(s, p)], NEW i \in 1..s.width,
         NEW state, GoodState(s, state), NEW d, Matches(s, img, r, state, d)
  PROVE  Matches(s, img, r, SamplePiece(s, p, samples, i, state).state,
                 AfterSample(s, d, p, i, SymbolFor(s, p, samples, i, state)))
<1>20. /\ SamplePiece(s, p, samples, i, state).code = <<SymbolFor(s, p, samples, i, state)>>
       /\ SamplePiece(s, p, samples, i, state).state =
            Changed(state, p, StoredAt(state.lines[p], i, samples[i]), state.contexts, state.runs)
  <2>1. IsState(state)
    BY GoodLinesAre
  <2>2. QED
    BY <2>1, SamplePieceIs
<1> DEFINE line == state.lines[p]
           n == ContextAt(s, line, i)
           guess == PredictionAt(s, line, i)
           symbol == SymbolFor(s, p, samples, i, state)
           v == samples[i]
           depth == CodedBits(s, p)
           L == StoredAt(line, i, v)
           piece == SamplePiece(s, p, samples, i, state)
<1>1. IsState(state) /\ state.lines = [q \in Planes(s) |-> state.lines[q]]
  BY GoodLinesAre
<1>2. /\ IsState(d) /\ d.lines[p] = line /\ d.contexts = state.contexts /\ d.runs = state.runs
      /\ Matches(s, img, r, Changed(state, p, L, state.contexts, state.runs),
                 Changed(d, p, L, state.contexts, state.runs))
  <2> HIDE DEF L
  <2>1. QED
    BY <1>1, MatchesPut
<1>3. /\ n.inverted \in BOOLEAN /\ guess \in Int /\ v \in SampleRange(s, p)
  BY SampleGood
<1>4. piece.state = Changed(state, p, L, state.contexts, state.runs)
  BY <1>20
<1>5. /\ symbol.bank = Bank(s, p) /\ symbol.context = n.number
      /\ symbol.value = Negated(n, SampleDifference(v, guess, depth))
  BY DEF SymbolFor, DifferenceFor
<1>6. Found(s, d, p, i) = n
  BY <1>2 DEF Found
<1> HIDE DEF line, n, symbol, v, L, piece
<1>7. RangeDifference(s, d, p, i, symbol) = symbol.value
  BY <1>5, <1>6 DEF RangeDifference
<1>8. Reconstructed(guess, Negated(n, symbol.value), depth) = v
  <2> HIDE DEF guess
  <2>1. QED
    BY <1>3, <1>5, RangeSample
<1>9. AfterSample(s, d, p, i, symbol) = Store(d, p, i, v)
  BY <1>2, <1>6, <1>7, <1>8 DEF AfterSample, Decoded
<1>10. Store(d, p, i, v) = Changed(d, p, L, state.contexts, state.runs)
  BY <1>2, StoreIs DEF L
<1>11. QED
  BY <1>2, <1>4, <1>9, <1>10 DEF piece, symbol

\* The codeword and the symbol that are read in the decoder's context of a sample.
FoundContext(s, d, p, i) == d.contexts[Bank(s, p)][Found(s, d, p, i).number]

FoundCode(s, d, p, i, bits, place) ==
  NextCode(bits, place, DeriveK(FoundContext(s, d, p, i)), CodedBits(s, p))

FoundSymbol(s, d, p, i, bits, place) ==
  ReadSymbol(FoundContext(s, d, p, i), FoundCode(s, d, p, i, bits, place), HalfOf(s, p))

FoundThere(s, d, p, i, bits, place) ==
  /\ ~Refused(FoundContext(s, d, p, i))
  /\ CodeThere(bits, place, DeriveK(FoundContext(s, d, p, i)), CodedBits(s, p))

AfterSymbol(s, d, p, i, bits, place, interrupts) ==
  Decoded(s, Adapt(d, Bank(s, p), Found(s, d, p, i).number,
                   FoundSymbol(s, d, p, i, bits, place).context),
          p, i, Negated(Found(s, d, p, i),
                        Returned(interrupts, FoundSymbol(s, d, p, i, bits, place).value)))

SymbolTaken(s, img, r, p, i, bits, place, interrupts, piece, d) ==
  /\ FoundThere(s, d, p, i, bits, place)
  /\ FoundCode(s, d, p, i, bits, place).position = place + Len(piece.code)
  /\ Matches(s, img, r, piece.state, AfterSymbol(s, d, p, i, bits, place, interrupts))

LEMMA SymbolStep ==
  ASSUME NEW s \in StreamParameters, FitsContexts(s), s.golomb,
         NEW img, NEW r \in Nat, r < Rows(s),
         NEW p \in Planes(s), p = RowPlane(s, r),
         NEW samples \in [1..s.width -> SampleRange(s, p)], NEW i \in 1..s.width,
         NEW state, GoodState(s, state), NEW interrupts \in BOOLEAN,
         interrupts => samples[i] # PredictionAt(s, state.lines[p], i),
         NEW bits, Len(bits) \in Nat, NEW place \in Nat,
         NEW piece, piece = SymbolPiece(s, p, samples, i, state, interrupts),
         Holds(bits, place, piece.code),
         NEW d, Matches(s, img, r, state, d)
  PROVE  SymbolTaken(s, img, r, p, i, bits, place, interrupts, piece, d)
<1> DEFINE line == state.lines[p]
           n == ContextAt(s, line, i)
           guess == PredictionAt(s, line, i)
           v == samples[i]
           depth == CodedBits(s, p)
           L == StoredAt(line, i, v)
           c == ContextFor(s, p, i, state)
           code == NextCode(bits, place, DeriveK(c), depth)
           read == ReadSymbol(c, code, HalfOf(s, p))
           C == PutContext(state.contexts, Bank(s, p), n.number, read.context)
<1>1. IsState(state) /\ state.lines = [q \in Planes(s) |-> state.lines[q]]
  BY GoodLinesAre
<1>2. /\ IsState(d) /\ d.lines[p] = line /\ d.contexts = state.contexts /\ d.runs = state.runs
      /\ Matches(s, img, r, Changed(state, p, L, C, state.runs), Changed(d, p, L, C, state.runs))
  <2> HIDE DEF L, C, line
  <2>1. /\ IsState(d) /\ d.lines[p] = state.lines[p]
        /\ d.contexts = state.contexts /\ d.runs = state.runs
        /\ Matches(s, img, r, Changed(state, p, L, C, state.runs), Changed(d, p, L, C, state.runs))
    BY <1>1, MatchesPut, SMTT(30)
  <2>2. QED
    BY <2>1 DEF line
<1>3. Holds(bits, place, SymbolPiece(s, p, samples, i, state, interrupts).code)
  OBVIOUS
<1>4. /\ ~Refused(c) /\ CodeThere(bits, place, DeriveK(c), depth)
      /\ code.position = place + Len(SymbolPiece(s, p, samples, i, state, interrupts).code)
      /\ SymbolPiece(s, p, samples, i, state, interrupts).state =
           Coded1(s, p, i, state, v, read.context)
      /\ Reconstructed(guess, Negated(n, Returned(interrupts, read.value)), depth) = v
  <2>1. IsRead(s, p, samples, i, state, interrupts, bits, place)
    BY <1>3, SymbolFound
  <2>2. QED
    BY <2>1, Zenon DEF IsRead
<1>5. Found(s, d, p, i) = n /\ FoundContext(s, d, p, i) = c
  BY <1>2 DEF Found, FoundContext, ContextFor
<1>6. Coded1(s, p, i, state, v, read.context) = Changed(state, p, L, C, state.runs)
  BY DEF Coded1
<1> HIDE DEF line, n, guess, v, depth, L, c, C
<1>7. FoundCode(s, d, p, i, bits, place) = code /\ FoundSymbol(s, d, p, i, bits, place) = read
  BY <1>5 DEF FoundCode, FoundSymbol, depth
<1>8. piece.state = Changed(state, p, L, C, state.runs) /\ code.position = place + Len(piece.code)
  BY <1>4, <1>6
<1> HIDE DEF code, read
<1> DEFINE adapted == Adapt(d, Bank(s, p), n.number, read.context)
<1>9. adapted.lines[p] = line
  <2>1. adapted = [lines |-> d.lines, contexts |-> [d.contexts EXCEPT ![Bank(s, p)][n.number] = read.context],
                   runs |-> d.runs]
    BY <1>2, AdaptParts
  <2> HIDE DEF adapted
  <2>2. adapted.lines = d.lines
    BY <2>1
  <2>3. QED
    BY <1>2, <2>2
<1> HIDE DEF adapted
<1>10. AfterSymbol(s, d, p, i, bits, place, interrupts) = Store(adapted, p, i, v)
  BY <1>4, <1>5, <1>7, <1>9 DEF AfterSymbol, Decoded, adapted, guess, depth
<1>11. Store(adapted, p, i, v) = Changed(d, p, L, C, state.runs)
  BY <1>2, StoreIs DEF adapted, L, C
<1>12. FoundThere(s, d, p, i, bits, place)
  BY <1>4, <1>5 DEF FoundThere, depth
<1>13. QED
  BY <1>2, <1>7, <1>8, <1>10, <1>11, <1>12 DEF SymbolTaken

-----------------------------------------------------------------------------
(***************************************************************************)
(* Samples and symbols, from node to node of the trace.                    *)
(***************************************************************************)
\* Where the decoder is, within what the encoder did at a node of its trace.
At(s, img, t, i, how, d, place) ==
  \/ how = "none" /\ AtNode(s, img, t, i, d, place)
  \/ how = "copying" /\ i < s.width /\ \E m : InRun(s, img, t, m, i, d, place)
  \/ how = "interrupted" /\ BehindRun(s, img, t, i, d, place)

Follows(s, img, bits, N, tr, r, i, how, d, place) ==
  /\ Trace(s, img, bits, N, tr) /\ tr[N].row = Rows(s)
  /\ \E n \in 0..N : tr[n].row = r /\ At(s, img, tr[n], i, how, d, place)

LEMMA NodeStep ==
  ASSUME NEW s \in StreamParameters, NEW img, NEW bits, NEW N, NEW tr, Trace(s, img, bits, N, tr),
         tr[N].row = Rows(s), NEW n \in 0..N, tr[n].row < Rows(s)
  PROVE  /\ n + 1 \in 0..N /\ Step(s, img, bits, tr[n], tr[n + 1])
         /\ Good(s, img, tr[n]) /\ Good(s, img, tr[n + 1])
<1>1. N \in Nat /\ \A k \in 0..N : Good(s, img, tr[k])
  BY DEF Trace
<1>2. Rows(s) \in Nat
  BY RowsAre
<1>3. n # N
  BY <1>2
<1>4. n < N /\ n + 1 \in 0..N
  BY <1>1, <1>3
<1>5. QED
  BY <1>1, <1>4 DEF Trace

LEMMA NodeFacts ==
  ASSUME NEW s \in StreamParameters, NEW img \in Pictures(s), NEW t, Good(s, img, t),
         t.row < Rows(s)
  PROVE  /\ t.row \in Nat /\ t.x \in Nat /\ t.x <= s.width /\ t.position \in Nat
         /\ GoodState(s, t.state) /\ s.width \in Nat
         /\ RowPlane(s, t.row) \in Planes(s)
         /\ RowSamples(s, img, t.row) \in [1..s.width -> SampleRange(s, RowPlane(s, t.row))]
<1>1. t.row \in Nat /\ t.x \in Nat /\ t.x <= s.width /\ t.position \in Nat /\ GoodState(s, t.state)
  BY DEF Good
<1>2. QED
  BY <1>1, RowFacts, StreamParts

\* At a node both sides have the same lines to predict from.
LEMMA SameFound ==
  ASSUME NEW s \in StreamParameters, NEW img \in Pictures(s), NEW t, Good(s, img, t),
         t.row < Rows(s), NEW i, NEW d, NEW place, AtNode(s, img, t, i, d, place)
  PROVE  Found(s, d, RowPlane(s, t.row), i + 1).number = 0 <=> RunStart(s, t)
<1> DEFINE p == RowPlane(s, t.row)
           lines == t.state.lines
<1>1. p \in Planes(s) /\ t.row \in Nat /\ GoodState(s, t.state)
  BY NodeFacts
<1>2. i = t.x /\ Matches(s, img, t.row, t.state, d)
  BY DEF AtNode
<1>3. IsState(t.state) /\ lines = [q \in Planes(s) |-> lines[q]]
  BY <1>1, GoodLinesAre
<1>4. p = RowPlane(s, t.row)
  OBVIOUS
<1> HIDE DEF p
<1>5. d.lines[p] = t.state.lines[p]
  BY <1>1, <1>2, <1>3, <1>4, MatchesPut
<1>6. QED
  BY <1>2, <1>4, <1>5 DEF Found, RunStart, LineAt

LEMMA RangeNode ==
  ASSUME NEW s \in StreamParameters, FitsContexts(s), ~s.golomb, NEW img \in Pictures(s),
         NEW bits, Len(bits) \in Nat, NEW t, Good(s, img, t), NEW u, Step(s, img, bits, t, u),
         t.row < Rows(s), NEW i, NEW d, NEW place, AtNode(s, img, t, i, d, place), i < s.width
  PROVE  /\ u.row = t.row
         /\ AtNode(s, img, u, i + 1, AfterSample(s, d, RowPlane(s, t.row), i + 1, bits[place + 1]),
                   place + 1)
<1> DEFINE p == RowPlane(s, t.row)
           samples == RowSamples(s, img, t.row)
           state == t.state
           j == i + 1
           it == SamplePiece(s, p, samples, j, state)
           symbol == SymbolFor(s, p, samples, j, state)
<1>1. /\ p \in Planes(s) /\ samples \in [1..s.width -> SampleRange(s, p)]
      /\ t.row \in Nat /\ t.x \in Nat /\ GoodState(s, state) /\ t.position \in Nat /\ s.width \in Nat
  BY NodeFacts
<1>2. i = t.x /\ place = t.position /\ Matches(s, img, t.row, state, d)
  BY DEF AtNode
<1>3. PieceStep(s, img, bits, t, u)
  BY <1>1, <1>2 DEF Step, LineStep
<1>4. PICK piece : /\ PieceAt(s, img, t, piece)
                   /\ Holds(bits, t.position, piece.code)
                   /\ u.x = piece.until /\ u.state = piece.state
                   /\ u.position = t.position + Len(piece.code)
  BY <1>3 DEF PieceStep
<1>5. u.row = t.row
  BY <1>3 DEF PieceStep
<1>6. piece = it
  BY <1>2, <1>4 DEF PieceAt
<1>7. j \in 1..s.width /\ j \in Nat
  BY <1>1, <1>2
<1>8. it.until = j
  BY DEF SamplePiece
<1>9. p = RowPlane(s, t.row)
  OBVIOUS
<1> HIDE DEF p, samples, state, j
<1>10. IsState(state)
  BY <1>1, GoodLinesAre
<1>11. it.code = <<symbol>>
  BY <1>1, <1>7, <1>10, SamplePieceIs
<1>12. Matches(s, img, t.row, it.state, AfterSample(s, d, p, j, symbol))
  BY <1>1, <1>2, <1>7, <1>9, SampleStep
<1> HIDE DEF it, symbol
<1>13. Len(piece.code) = 1 /\ piece.code[1] = symbol
  BY <1>6, <1>11
<1>14. bits[place + 1] = symbol
  BY <1>2, <1>4, <1>13 DEF Holds
<1>15. u.x = j /\ u.position = place + 1 /\ u.state = it.state
  BY <1>2, <1>4, <1>6, <1>8, <1>13
<1>16. AtNode(s, img, u, j, AfterSample(s, d, p, j, symbol), place + 1)
  BY <1>5, <1>12, <1>15 DEF AtNode
<1>17. QED
  BY <1>5, <1>14, <1>16 DEF j, p

LEMMA ScalarNode ==
  ASSUME NEW s \in StreamParameters, FitsContexts(s), s.golomb, NEW img \in Pictures(s),
         NEW bits, Len(bits) \in Nat, NEW t, Good(s, img, t), NEW u, Step(s, img, bits, t, u),
         t.row < Rows(s), NEW i, NEW d, NEW place, AtNode(s, img, t, i, d, place), i < s.width,
         ~RunStart(s, t)
  PROVE  /\ u.row = t.row
         /\ FoundThere(s, d, RowPlane(s, t.row), i + 1, bits, place)
         /\ AtNode(s, img, u, i + 1,
                   AfterSymbol(s, d, RowPlane(s, t.row), i + 1, bits, place, FALSE),
                   FoundCode(s, d, RowPlane(s, t.row), i + 1, bits, place).position)
<1> DEFINE p == RowPlane(s, t.row)
           samples == RowSamples(s, img, t.row)
           state == t.state
           j == i + 1
<1>1. /\ p \in Planes(s) /\ samples \in [1..s.width -> SampleRange(s, p)]
      /\ t.row \in Nat /\ t.x \in Nat /\ GoodState(s, state) /\ t.position \in Nat /\ s.width \in Nat
  BY NodeFacts
<1>2. i = t.x /\ place = t.position /\ Matches(s, img, t.row, state, d)
  BY DEF AtNode
<1>3. PieceStep(s, img, bits, t, u)
  BY <1>1, <1>2 DEF Step, LineStep
<1>4. PICK piece : /\ PieceAt(s, img, t, piece)
                   /\ Holds(bits, t.position, piece.code)
                   /\ u.x = piece.until /\ u.state = piece.state
                   /\ u.position = t.position + Len(piece.code)
  BY <1>3 DEF PieceStep
<1>5. u.row = t.row
  BY <1>3 DEF PieceStep
<1>6. piece = SymbolPiece(s, p, samples, j, state, FALSE)
  BY <1>2, <1>4 DEF PieceAt
<1>7. j \in 1..s.width
  BY <1>1, <1>2
<1>8. piece.until = j
  BY <1>6 DEF SymbolPiece
<1>9. p = RowPlane(s, t.row)
  OBVIOUS
<1> DEFINE no == FALSE
<1>10. no \in BOOLEAN /\ no = FALSE /\ ~no
  OBVIOUS
<1> HIDE DEF p, samples, state, j, no
<1>11. piece = SymbolPiece(s, p, samples, j, state, no) /\ place \in Nat /\ Holds(bits, place, piece.code)
  BY <1>1, <1>2, <1>4, <1>6, <1>10
<1>12. no => samples[j] # PredictionAt(s, state.lines[p], j)
  BY <1>10
<1>13. SymbolTaken(s, img, t.row, p, j, bits, place, no, piece, d)
  BY <1>1, <1>2, <1>7, <1>9, <1>10, <1>11, <1>12, SymbolStep
<1>14. /\ FoundThere(s, d, p, j, bits, place)
       /\ FoundCode(s, d, p, j, bits, place).position = place + Len(piece.code)
       /\ Matches(s, img, t.row, piece.state, AfterSymbol(s, d, p, j, bits, place, no))
  BY <1>13 DEF SymbolTaken
<1>15. u.x = j /\ u.position = FoundCode(s, d, p, j, bits, place).position
  BY <1>2, <1>4, <1>8, <1>14
<1>16. AtNode(s, img, u, j, AfterSymbol(s, d, p, j, bits, place, no),
              FoundCode(s, d, p, j, bits, place).position)
  BY <1>4, <1>5, <1>14, <1>15 DEF AtNode
<1>17. QED
  BY <1>5, <1>14, <1>16 DEF j, p, no

-----------------------------------------------------------------------------
(***************************************************************************)
(* Runs, from node to node of the trace.                                   *)
(***************************************************************************)
\* The step of the encoder's trace in which a run was written.
IsRunStep(s, img, bits, t, u) ==
  LET end == NodeEnd(s, img, t)
      run_bits == NodeRun(s, img, t).bits
      behind == NodeWithin(s, img, t, end, NodeRun(s, img, t).run_index)
      symbol == SymbolPiece(s, RowPlane(s, t.row), RowSamples(s, img, t.row), end + 1,
                            behind, TRUE)
  IN /\ u.row = t.row /\ Holds(bits, t.position, run_bits)
     /\ GoodState(s, behind)
     /\ end = s.width => /\ u.x = s.width /\ u.state = behind
                         /\ u.position = t.position + Len(run_bits)
     /\ end < s.width =>
          /\ u.x = end + 1 /\ u.state = symbol.state
          /\ Holds(bits, t.position + Len(run_bits), symbol.code)
          /\ u.position = (t.position + Len(run_bits)) + Len(symbol.code)
          /\ RowSamples(s, img, t.row)[end + 1] #
               PredictionAt(s, behind.lines[RowPlane(s, t.row)], end + 1)

LEMMA RunStep ==
  ASSUME NEW s \in StreamParameters, FitsContexts(s), NEW img \in Pictures(s),
         NEW bits, Len(bits) \in Nat, NEW t, Good(s, img, t), NEW u, Step(s, img, bits, t, u),
         IsRunning(s, t)
  PROVE  IsRunStep(s, img, bits, t, u)
<1> DEFINE p == RowPlane(s, t.row)
           samples == RowSamples(s, img, t.row)
           end == NodeEnd(s, img, t)
           w == NodeRun(s, img, t)
           behind == NodeWithin(s, img, t, end, w.run_index)
           symbol == SymbolPiece(s, p, samples, end + 1, behind, TRUE)
<1>1. /\ p \in Planes(s) /\ samples \in [1..s.width -> SampleRange(s, p)]
      /\ t.x \in Nat /\ t.row \in Nat /\ t.position \in Nat
      /\ GoodState(s, t.state) /\ LineAt(s, t.row, t.state) \in LineType(s, p)
      /\ end \in t.x..s.width
      /\ w.bits \in Seq({0, 1}) /\ w.run_index \in RunIndexes
      /\ end < s.width => samples[end + 1] # PredictionAt(s, NodeLine(s, img, t, end), end + 1)
  BY RunFacts
<1>2. s.width \in Nat /\ t.x < s.width /\ t.row < Rows(s) /\ s.golomb
  BY StreamParts DEF IsRunning
<1>3. PieceStep(s, img, bits, t, u)
  BY <1>1, <1>2 DEF Step, LineStep
<1>4. PICK piece : /\ PieceAt(s, img, t, piece)
                   /\ Holds(bits, t.position, piece.code)
                   /\ u.x = piece.until /\ u.state = piece.state
                   /\ u.position = t.position + Len(piece.code)
  BY <1>3 DEF PieceStep
<1>5. u.row = t.row
  BY <1>3 DEF PieceStep
<1>6. /\ end = s.width => piece.code = w.bits /\ piece.state = behind /\ piece.until = s.width
      /\ end # s.width => /\ piece.code = w.bits \o symbol.code
                          /\ piece.state = symbol.state /\ piece.until = end + 1
  BY <1>4, NodePiece
<1>7. NodeWithin(s, img, t, end, w.run_index) =
        Within(s, p, samples, t.x + 1, t.state, end, w.run_index)
  BY DEF NodeWithin
<1>8. NodeLine(s, img, t, end) = StoredUntil(t.state.lines[p], samples, t.x + 1, end)
  BY DEF NodeLine, LineAt
<1> HIDE DEF p, samples, end, w
<1>9. /\ GoodState(s, behind)
      /\ behind.lines[p] = StoredUntil(t.state.lines[p], samples, t.x + 1, end)
  <2> DEFINE from == t.x + 1
             index == w.run_index
  <2>1. index \in RunIndexes
    BY <1>1
  <2> HIDE DEF from, index
  <2>2. /\ GoodState(s, Within(s, p, samples, from, t.state, end, index))
        /\ Within(s, p, samples, from, t.state, end, index).lines[p] =
             StoredUntil(t.state.lines[p], samples, from, end)
    BY <1>1, <2>1, WithinGood, SMTT(30)
  <2>3. QED
    BY <1>7, <2>2 DEF from, index
<1> HIDE DEF behind, symbol
<1>14. end \in Int /\ end <= s.width
  BY <1>1, <1>2
<1>10. CASE end = s.width
  <2>1. piece.code = w.bits /\ piece.state = behind /\ piece.until = s.width
    BY <1>6, <1>10
  <2>2. ~(end < s.width)
    BY <1>2, <1>10
  <2>3. /\ u.row = t.row /\ Holds(bits, t.position, w.bits) /\ GoodState(s, behind)
        /\ u.x = s.width /\ u.state = behind /\ u.position = t.position + Len(w.bits)
    BY <1>4, <1>5, <1>9, <2>1
  <2>4. QED
    BY <2>2, <2>3, Zenon DEF IsRunStep, p, samples, end, w, behind
<1>11. CASE end < s.width
  <2>1. piece.code = w.bits \o symbol.code /\ piece.state = symbol.state /\ piece.until = end + 1
    <3>1. end # s.width
      BY <1>2, <1>11
    <3>2. QED
      BY <1>6, <3>1
  <2>2. samples[end + 1] # PredictionAt(s, behind.lines[p], end + 1)
    BY <1>1, <1>8, <1>9, <1>11
  <2> DEFINE i == end + 1
             yes == TRUE
  <2>3. i \in 1..s.width
    BY <1>1, <1>2, <1>11
  <2>4. yes \in BOOLEAN /\ samples[i] # PredictionAt(s, behind.lines[p], i)
    BY <2>2
  <2>5. symbol = SymbolPiece(s, p, samples, i, behind, yes)
    BY DEF symbol
  <2> HIDE DEF i, yes
  <2>6. symbol.code \in Seq({0, 1})
    BY <1>1, <1>2, <1>9, <2>3, <2>4, <2>5, SymbolGood
  <2>7. /\ Holds(bits, t.position, w.bits) /\ Holds(bits, t.position + Len(w.bits), symbol.code)
        /\ Len(w.bits \o symbol.code) = Len(w.bits) + Len(symbol.code)
    BY <1>1, <1>4, <2>1, <2>6, HoldsFirst
  <2>8. Len(w.bits) \in Nat /\ Len(symbol.code) \in Nat
    BY <1>1, <2>6
  <2> DEFINE a == Len(w.bits)
             b == Len(symbol.code)
             c == Len(piece.code)
  <2>9. a \in Nat /\ b \in Nat /\ c = a + b
    BY <2>1, <2>7, <2>8
  <2> HIDE DEF a, b, c
  <2>10. t.position + c = (t.position + a) + b
    BY <1>1, <2>9
  <2>11. u.position = (t.position + Len(w.bits)) + Len(symbol.code)
    BY <1>4, <2>10 DEF a, b, c
  <2>12. end # s.width
    BY <1>2, <1>11
  <2>13. QED
    <3>1. /\ u.row = t.row /\ Holds(bits, t.position, w.bits) /\ GoodState(s, behind)
          /\ u.x = end + 1 /\ u.state = symbol.state
          /\ Holds(bits, t.position + Len(w.bits), symbol.code)
          /\ u.position = (t.position + Len(w.bits)) + Len(symbol.code)
          /\ samples[end + 1] # PredictionAt(s, behind.lines[p], end + 1)
      BY <1>4, <1>5, <1>9, <2>1, <2>2, <2>7, <2>11
    <3>2. QED
      BY <2>12, <3>1, Zenon DEF IsRunStep, p, samples, end, w, behind, symbol
<1>12. QED
  BY <1>2, <1>14, <1>10, <1>11

LEMMA InterruptNode ==
  ASSUME NEW s \in StreamParameters, FitsContexts(s), NEW img \in Pictures(s),
         NEW bits, Len(bits) \in Nat, NEW t, Good(s, img, t), NEW u, Step(s, img, bits, t, u),
         NEW i, NEW d, NEW place, BehindRun(s, img, t, i, d, place)
  PROVE  /\ u.row = t.row
         /\ FoundThere(s, d, RowPlane(s, t.row), i + 1, bits, place)
         /\ AtNode(s, img, u, i + 1,
                   AfterSymbol(s, d, RowPlane(s, t.row), i + 1, bits, place, TRUE),
                   FoundCode(s, d, RowPlane(s, t.row), i + 1, bits, place).position)
<1> DEFINE p == RowPlane(s, t.row)
           samples == RowSamples(s, img, t.row)
           end == NodeEnd(s, img, t)
           w == NodeRun(s, img, t)
           behind == NodeWithin(s, img, t, end, w.run_index)
           symbol == SymbolPiece(s, p, samples, end + 1, behind, TRUE)
           j == i + 1
           yes == TRUE
<1>1. /\ IsRunning(s, t) /\ i = end /\ i < s.width /\ place = t.position + Len(w.bits)
      /\ Matches(s, img, t.row, NodeWithin(s, img, t, i, w.run_index), d)
  BY DEF BehindRun
<1>2. /\ p \in Planes(s) /\ samples \in [1..s.width -> SampleRange(s, p)]
      /\ t.x \in Nat /\ t.row \in Nat /\ t.position \in Nat
      /\ end \in t.x..s.width /\ w.bits \in Seq({0, 1})
  BY <1>1, RunFacts
<1>3. s.width \in Nat /\ t.row < Rows(s) /\ s.golomb
  BY <1>1, StreamParts DEF IsRunning
<1>4. /\ u.row = t.row /\ GoodState(s, behind)
      /\ end < s.width =>
           /\ u.x = end + 1 /\ u.state = symbol.state
           /\ Holds(bits, t.position + Len(w.bits), symbol.code)
           /\ u.position = (t.position + Len(w.bits)) + Len(symbol.code)
           /\ samples[end + 1] # PredictionAt(s, behind.lines[p], end + 1)
  <2>1. IsRunStep(s, img, bits, t, u)
    BY <1>1, RunStep
  <2>2. QED
    BY <2>1, Zenon DEF IsRunStep
<1>5. symbol = SymbolPiece(s, p, samples, j, behind, yes) /\ yes \in BOOLEAN /\ yes = TRUE
  BY <1>1
<1>6. j \in 1..s.width
  BY <1>1, <1>2, <1>3
<1>7. p = RowPlane(s, t.row)
  OBVIOUS
<1> HIDE DEF p, samples, end, w
<1>8. Matches(s, img, t.row, behind, d)
  BY <1>1
<1> HIDE DEF behind, symbol
<1>9. /\ u.x = j /\ u.state = symbol.state /\ Holds(bits, place, symbol.code)
      /\ u.position = place + Len(symbol.code)
      /\ samples[j] # PredictionAt(s, behind.lines[p], j)
  BY <1>1, <1>4
<1> HIDE DEF j, yes
<1>10. place \in Nat
  <2>1. Len(w.bits) \in Nat
    BY <1>2
  <2>2. QED
    BY <1>1, <1>2, <2>1
<1>11. SymbolTaken(s, img, t.row, p, j, bits, place, yes, symbol, d)
  BY <1>2, <1>3, <1>4, <1>5, <1>6, <1>7, <1>8, <1>9, <1>10, SymbolStep
<1>12. /\ FoundThere(s, d, p, j, bits, place)
       /\ FoundCode(s, d, p, j, bits, place).position = place + Len(symbol.code)
       /\ Matches(s, img, t.row, symbol.state, AfterSymbol(s, d, p, j, bits, place, yes))
  BY <1>11 DEF SymbolTaken
<1>13. AtNode(s, img, u, j, AfterSymbol(s, d, p, j, bits, place, yes),
              FoundCode(s, d, p, j, bits, place).position)
  BY <1>4, <1>9, <1>12 DEF AtNode
<1>14. QED
  BY <1>4, <1>12, <1>13 DEF j, p, yes

\* What the decoder is in after a segment.
HowBehind(s, i, segment) ==
  IF i + segment.count = s.width THEN "none"
  ELSE IF segment.interrupted THEN "interrupted" ELSE "copying"

SegmentTaken(s, img, bits, t, u, i, d, place) ==
  LET p == RowPlane(s, t.row)
      state == d.runs[RunBank(s, p)]
      segment == ReadSegment(bits, place, state, s.width - i)
  IN /\ IsState(d) /\ SegmentThere(bits, place, state)
     /\ state.pending_count = 0 /\ segment.pending = 0 /\ segment.count \in Nat
     /\ u.row = t.row
     /\ \E v \in {t, u} : At(s, img, v, i + segment.count, HowBehind(s, i, segment),
                             Taken(s, p, i, segment.count, segment.run_index, d), segment.position)

LEMMA SegmentNode ==
  ASSUME NEW s \in StreamParameters, FitsContexts(s), NEW img \in Pictures(s),
         NEW bits, Len(bits) \in Nat, NEW t, Good(s, img, t), NEW u, Step(s, img, bits, t, u),
         NEW m, NEW i, NEW d, NEW place, InRun(s, img, t, m, i, d, place), i < s.width
  PROVE  SegmentTaken(s, img, bits, t, u, i, d, place)
<1> DEFINE p == RowPlane(s, t.row)
           state == d.runs[RunBank(s, p)]
           segment == ReadSegment(bits, place, state, s.width - i)
           j == i + segment.count
           end == NodeEnd(s, img, t)
           w == NodeRun(s, img, t)
           behind == NodeWithin(s, img, t, end, w.run_index)
           new == Taken(s, p, i, segment.count, segment.run_index, d)
           how == HowBehind(s, i, segment)
<1>1. IsRunning(s, t)
  BY DEF InRun
<1>2. /\ u.row = t.row /\ Holds(bits, t.position, w.bits)
      /\ end = s.width => u.x = s.width /\ u.state = behind /\ u.position = t.position + Len(w.bits)
  <2>1. IsRunStep(s, img, bits, t, u)
    BY <1>1, RunStep
  <2>2. QED
    BY <2>1, Zenon DEF IsRunStep
<1>3. SegmentFound(s, img, t, m, i, bits, place, state, segment, d)
  BY <1>2, SegmentStep
<1>4. /\ IsState(d) /\ SegmentThere(bits, place, state)
      /\ state.pending_count = 0 /\ segment.pending = 0 /\ segment.count \in Nat
      /\ SegmentEnds(s, img, t, m, i, segment, new)
  BY <1>3 DEF SegmentFound
<1>5. how = IF j = s.width THEN "none"
            ELSE IF segment.interrupted THEN "interrupted" ELSE "copying"
  BY DEF HowBehind
<1>6. s.width \in Nat
  BY StreamParts
<1> HIDE DEF p, state, segment, end, w, behind, new, how
<1>7. \/ /\ j < s.width /\ ~segment.interrupted
         /\ InRun(s, img, t, m + 1, j, new, segment.position)
      \/ /\ j < s.width /\ segment.interrupted
         /\ BehindRun(s, img, t, j, new, segment.position)
      \/ /\ j = s.width /\ end = s.width
         /\ segment.position = t.position + Len(w.bits)
         /\ Matches(s, img, t.row, behind, new)
  BY <1>4 DEF SegmentEnds, end, w, behind
<1> HIDE DEF j
<1>8. \E v \in {t, u} : At(s, img, v, j, how, new, segment.position)
  <2>1. CASE /\ j < s.width /\ ~segment.interrupted
             /\ InRun(s, img, t, m + 1, j, new, segment.position)
    <3>1. how = "copying"
      BY <1>5, <1>6, <2>1
    <3>2. At(s, img, t, j, how, new, segment.position)
      BY <2>1, <3>1 DEF At
    <3>3. QED
      BY <3>2
  <2>2. CASE /\ j < s.width /\ segment.interrupted
             /\ BehindRun(s, img, t, j, new, segment.position)
    <3>1. how = "interrupted"
      BY <1>5, <1>6, <2>2
    <3>2. At(s, img, t, j, how, new, segment.position)
      BY <2>2, <3>1 DEF At
    <3>3. QED
      BY <3>2
  <2>3. CASE /\ j = s.width /\ end = s.width
             /\ segment.position = t.position + Len(w.bits)
             /\ Matches(s, img, t.row, behind, new)
    <3>1. how = "none"
      BY <1>5, <2>3
    <3>2. AtNode(s, img, u, j, new, segment.position)
      BY <1>2, <2>3 DEF AtNode
    <3>3. At(s, img, u, j, how, new, segment.position)
      BY <3>1, <3>2 DEF At
    <3>4. QED
      BY <3>3
  <2>4. QED
    BY <1>7, <2>1, <2>2, <2>3
<1>9. QED
  BY <1>2, <1>4, <1>8 DEF SegmentTaken, p, state, segment, j, new, how

-----------------------------------------------------------------------------
(***************************************************************************)
(* The rows that are stored when some are coded.                           *)
(***************************************************************************)
\* The planes whose line ends with a row.
LineDone(s, r, q) ==
  (~s.rgb \/ RowPlane(s, r) = Cardinality(Planes(s))) /\ (q = RowPlane(s, r) \/ s.rgb)

\* The rows of a plane that are there before a row.
RowsOut(s, r, q) ==
  IF s.rgb \/ q = RowPlane(s, r) THEN RowLine(s, r) - 1
  ELSE IF q < RowPlane(s, r) THEN s.height ELSE 0

LEMMA RgbRow ==
  ASSUME NEW s \in StreamParameters, s.rgb, NEW r \in Nat
  PROVE  /\ RowPlane(s, r) \in 1..PlaneCount(s) /\ RowLine(s, r) \in Nat /\ RowLine(s, r) >= 1
         /\ RowPlane(s, r) = PlaneCount(s) =>
              RowPlane(s, r + 1) = 1 /\ RowLine(s, r + 1) = RowLine(s, r) + 1
         /\ RowPlane(s, r) # PlaneCount(s) =>
              RowPlane(s, r + 1) = RowPlane(s, r) + 1 /\ RowLine(s, r + 1) = RowLine(s, r)
<1> DEFINE n == PlaneCount(s)
<1>1. n \in Nat /\ n > 0 /\ Cardinality(Planes(s)) = n
  BY PlanesAre
<1>2. RowPlane(s, r) = (r % n) + 1 /\ RowLine(s, r) = (r \div n) + 1
  BY <1>1 DEF RowPlane, RowLine
<1>3. RowPlane(s, r + 1) = ((r + 1) % n) + 1 /\ RowLine(s, r + 1) = ((r + 1) \div n) + 1
  BY <1>1 DEF RowPlane, RowLine
<1> HIDE DEF n
<1>4. /\ r \div n \in Nat /\ r % n \in 0..(n - 1)
      /\ r % n = n - 1 => (r + 1) % n = 0 /\ (r + 1) \div n = (r \div n) + 1
      /\ r % n # n - 1 => (r + 1) % n = (r % n) + 1 /\ (r + 1) \div n = r \div n
  BY <1>1, Quotients
<1> DEFINE a == r % n
           b == r \div n
           c == (r + 1) % n
           e == (r + 1) \div n
<1> HIDE DEF a, b, c, e
<1>5. /\ b \in Nat /\ a \in 0..(n - 1)
      /\ a = n - 1 => c = 0 /\ e = b + 1
      /\ a # n - 1 => c = a + 1 /\ e = b
  BY <1>4 DEF a, b, c, e
<1>6. /\ a + 1 \in 1..n /\ b + 1 \in Nat /\ b + 1 >= 1
      /\ a + 1 = n => c + 1 = 1 /\ e + 1 = (b + 1) + 1
      /\ a + 1 # n => c + 1 = (a + 1) + 1 /\ e + 1 = b + 1
  BY <1>1, <1>5
<1>7. QED
  BY <1>2, <1>3, <1>6 DEF a, b, c, e, n

LEMMA PlanarRow ==
  ASSUME NEW s \in StreamParameters, ~s.rgb, NEW r \in Nat
  PROVE  /\ RowPlane(s, r) \in Nat /\ RowLine(s, r) \in 1..s.height
         /\ RowLine(s, r) = s.height => RowPlane(s, r + 1) = RowPlane(s, r) + 1 /\ RowLine(s, r + 1) = 1
         /\ RowLine(s, r) # s.height =>
              RowPlane(s, r + 1) = RowPlane(s, r) /\ RowLine(s, r + 1) = RowLine(s, r) + 1
<1> DEFINE n == s.height
<1>1. n \in Nat /\ n > 0
  BY StreamParts
<1>2. RowPlane(s, r) = (r \div n) + 1 /\ RowLine(s, r) = (r % n) + 1
  BY DEF RowPlane, RowLine
<1>3. RowPlane(s, r + 1) = ((r + 1) \div n) + 1 /\ RowLine(s, r + 1) = ((r + 1) % n) + 1
  BY DEF RowPlane, RowLine
<1> HIDE DEF n
<1>4. /\ r \div n \in Nat /\ r % n \in 0..(n - 1)
      /\ r % n = n - 1 => (r + 1) % n = 0 /\ (r + 1) \div n = (r \div n) + 1
      /\ r % n # n - 1 => (r + 1) % n = (r % n) + 1 /\ (r + 1) \div n = r \div n
  BY <1>1, Quotients
<1> DEFINE a == r % n
           b == r \div n
           c == (r + 1) % n
           e == (r + 1) \div n
<1> HIDE DEF a, b, c, e
<1>5. /\ b \in Nat /\ a \in 0..(n - 1)
      /\ a = n - 1 => c = 0 /\ e = b + 1
      /\ a # n - 1 => c = a + 1 /\ e = b
  BY <1>4 DEF a, b, c, e
<1>6. /\ b + 1 \in Nat /\ a + 1 \in 1..n
      /\ a + 1 = n => e + 1 = (b + 1) + 1 /\ c + 1 = 1
      /\ a + 1 # n => e + 1 = b + 1 /\ c + 1 = (a + 1) + 1
  BY <1>1, <1>5
<1>7. QED
  BY <1>2, <1>3, <1>6 DEF a, b, c, e, n

LEMMA RowsOutNext ==
  ASSUME NEW s \in StreamParameters, NEW r \in Nat, NEW q \in Planes(s)
  PROVE  /\ LineDone(s, r, q) =>
              RowsOut(s, r, q) = RowLine(s, r) - 1 /\ RowsOut(s, r + 1, q) = RowLine(s, r)
         /\ ~LineDone(s, r, q) => RowsOut(s, r + 1, q) = RowsOut(s, r, q)
<1>1. q \in Nat /\ q >= 1 /\ Cardinality(Planes(s)) = PlaneCount(s) /\ PlaneCount(s) \in Nat
  BY PlanesAre
<1>2. CASE s.rgb
  <2>1. RowsOut(s, r, q) = RowLine(s, r) - 1 /\ RowsOut(s, r + 1, q) = RowLine(s, r + 1) - 1
    BY <1>2 DEF RowsOut
  <2>2. LineDone(s, r, q) <=> RowPlane(s, r) = PlaneCount(s)
    BY <1>1, <1>2 DEF LineDone
  <2>3. /\ RowLine(s, r) \in Nat
        /\ RowPlane(s, r) = PlaneCount(s) => RowLine(s, r + 1) = RowLine(s, r) + 1
        /\ RowPlane(s, r) # PlaneCount(s) => RowLine(s, r + 1) = RowLine(s, r)
    BY <1>2, RgbRow
  <2>4. QED
    BY <2>1, <2>2, <2>3
<1>3. CASE ~s.rgb
  <2> DEFINE p == RowPlane(s, r)
             l == RowLine(s, r)
             p2 == RowPlane(s, r + 1)
             l2 == RowLine(s, r + 1)
             h == s.height
  <2>1. /\ RowsOut(s, r, q) = IF q = p THEN l - 1 ELSE IF q < p THEN h ELSE 0
        /\ RowsOut(s, r + 1, q) = IF q = p2 THEN l2 - 1 ELSE IF q < p2 THEN h ELSE 0
    BY <1>3 DEF RowsOut
  <2>2. LineDone(s, r, q) <=> q = p
    BY <1>3 DEF LineDone
  <2>3. /\ p \in Nat /\ l \in 1..h /\ h \in Nat
        /\ l = h => p2 = p + 1 /\ l2 = 1
        /\ l # h => p2 = p /\ l2 = l + 1
    BY <1>3, PlanarRow, StreamParts
  <2> HIDE DEF p, l, p2, l2, h
  <2>4. CASE q = p
    <3>1. RowsOut(s, r, q) = l - 1
      BY <2>1, <2>4
    <3>2. RowsOut(s, r + 1, q) = l
      <4>1. CASE l = h
        BY <1>1, <2>1, <2>3, <2>4, <4>1
      <4>2. CASE l # h
        BY <1>1, <2>1, <2>3, <2>4, <4>2
      <4>3. QED
        BY <4>1, <4>2
    <3>3. QED
      BY <2>2, <2>4, <3>1, <3>2 DEF l
  <2>5. CASE q # p
    <3>1. RowsOut(s, r, q) = IF q < p THEN h ELSE 0
      BY <2>1, <2>5
    <3>2. RowsOut(s, r + 1, q) = IF q < p THEN h ELSE 0
      <4>1. CASE l = h
        <5>1. l2 - 1 = 0 /\ p2 = p + 1
          BY <2>3, <4>1
        <5>2. CASE q = p2
          BY <1>1, <2>1, <2>3, <5>1, <5>2
        <5>3. CASE q # p2
          <6>1. q < p2 <=> q < p
            BY <1>1, <2>3, <2>5, <5>1
          <6>2. QED
            BY <2>1, <5>3, <6>1
        <5>4. QED
          BY <5>2, <5>3
      <4>2. CASE l # h
        BY <2>1, <2>3, <2>5, <4>2
      <4>3. QED
        BY <4>1, <4>2
    <3>3. QED
      BY <2>2, <2>5, <3>1, <3>2
  <2>6. QED
    BY <2>4, <2>5
<1>4. QED
  BY <1>2, <1>3

LEMMA RowsOutEnds ==
  ASSUME NEW s \in StreamParameters, NEW q \in Planes(s)
  PROVE  RowsOut(s, 0, q) = 0 /\ RowsOut(s, Rows(s), q) = s.height
<1> DEFINE n == PlaneCount(s)
           h == s.height
<1>1. /\ q \in 1..n /\ n \in Nat /\ n >= 1 /\ Cardinality(Planes(s)) = n
      /\ h \in Nat /\ h >= 1 /\ Rows(s) = h * n
  <2>1. /\ Planes(s) = 1..n /\ Cardinality(Planes(s)) = n /\ n \in 1..4
    BY PlanesAre
  <2>2. h \in Nat /\ h >= 1
    BY StreamParts
  <2>3. Rows(s) = h * n
    BY RowsAre
  <2> HIDE DEF n, h
  <2>4. q \in 1..n /\ n \in Nat /\ n >= 1
    BY <2>1
  <2>5. QED
    BY <2>1, <2>2, <2>3, <2>4
<1>2. /\ RowPlane(s, 0) = IF s.rgb THEN (0 % n) + 1 ELSE (0 \div h) + 1
      /\ RowLine(s, 0) = IF s.rgb THEN (0 \div n) + 1 ELSE (0 % h) + 1
      /\ RowPlane(s, Rows(s)) = IF s.rgb THEN ((h * n) % n) + 1 ELSE ((h * n) \div h) + 1
      /\ RowLine(s, Rows(s)) = IF s.rgb THEN ((h * n) \div n) + 1 ELSE ((h * n) % h) + 1
  BY <1>1 DEF RowPlane, RowLine
<1>9. h = s.height
  OBVIOUS
<1> HIDE DEF n, h
<1>3. 0 % n = 0 /\ 0 \div n = 0 /\ 0 % h = 0 /\ 0 \div h = 0
  BY <1>1
<1>4. (h * n) % n = 0 /\ (h * n) \div n = h
  <2> DEFINE T == h * n
  <2>1. T \in Nat
    BY <1>1
  <2>2. /\ T \div n \in Nat /\ T % n \in 0..(n - 1) /\ T = n * (T \div n) + (T % n)
    BY <1>1, <2>1, Quotients
  <2>3. T = n * h
    BY <1>1
  <2> DEFINE a == T \div n
             b == T % n
  <2> HIDE DEF a, b, T
  <2>4. a \in Nat /\ b \in 0..(n - 1) /\ n * h = n * a + b
    BY <2>2, <2>3 DEF a, b
  <2>5. a = h
    <3>1. a < h => n * (a + 1) <= n * h
      BY <1>1, <2>4
    <3>2. a > h => n * (h + 1) <= n * a
      BY <1>1, <2>4
    <3>3. n * (a + 1) = n * a + n /\ n * (h + 1) = n * h + n
      BY <1>1, <2>4
    <3>4. QED
      BY <1>1, <2>4, <3>1, <3>2, <3>3
  <2>6. b = 0
    BY <1>1, <2>4, <2>5
  <2>7. QED
    BY <2>5, <2>6 DEF a, b, T
<1>5. (h * n) % h = 0 /\ (h * n) \div h = n
  <2> DEFINE T == h * n
  <2>1. T \in Nat
    BY <1>1
  <2>2. /\ T \div h \in Nat /\ T % h \in 0..(h - 1) /\ T = h * (T \div h) + (T % h)
    BY <1>1, <2>1, Quotients
  <2> DEFINE a == T \div h
             b == T % h
  <2>8. T = h * n
    OBVIOUS
  <2> HIDE DEF a, b, T
  <2>4. a \in Nat /\ b \in 0..(h - 1) /\ h * n = h * a + b
    BY <2>2, <2>8 DEF a, b
  <2>5. a = n
    <3>1. a < n => h * (a + 1) <= h * n
      BY <1>1, <2>4
    <3>2. a > n => h * (n + 1) <= h * a
      BY <1>1, <2>4
    <3>3. h * (a + 1) = h * a + h /\ h * (n + 1) = h * n + h
      BY <1>1, <2>4
    <3>4. QED
      BY <1>1, <2>4, <3>1, <3>2, <3>3
  <2>6. b = 0
    BY <1>1, <2>4, <2>5
  <2>7. QED
    BY <2>5, <2>6 DEF a, b, T
<1> DEFINE T == Rows(s)
<1> HIDE DEF T
<1>6. CASE s.rgb
  <2>1. RowLine(s, 0) = 1 /\ RowLine(s, T) = h + 1
    BY <1>2, <1>3, <1>4, <1>6 DEF T
  <2>2. RowsOut(s, 0, q) = 1 - 1 /\ RowsOut(s, T, q) = (h + 1) - 1
    BY <1>6, <2>1 DEF RowsOut
  <2>3. QED
    BY <1>1, <1>9, <2>2 DEF T
<1>7. CASE ~s.rgb
  <2>1. RowPlane(s, 0) = 1 /\ RowLine(s, 0) = 1 /\ RowPlane(s, T) = n + 1
    BY <1>2, <1>3, <1>5, <1>7 DEF T
  <2>2. RowsOut(s, 0, q) = IF q = 1 THEN 1 - 1 ELSE IF q < 1 THEN h ELSE 0
    BY <1>7, <1>9, <2>1 DEF RowsOut
  <2>3. RowsOut(s, T, q) = IF q = n + 1 THEN RowLine(s, T) - 1 ELSE IF q < n + 1 THEN h ELSE 0
    BY <1>7, <1>9, <2>1 DEF RowsOut
  <2>4. q # n + 1 /\ q < n + 1 /\ ~(q < 1)
    BY <1>1
  <2>5. QED
    BY <1>9, <2>2, <2>3, <2>4 DEF T
<1>8. QED
  BY <1>6, <1>7

-----------------------------------------------------------------------------
(***************************************************************************)
(* A row ends on both sides.                                               *)
(***************************************************************************)
AfterLine(s, r, d) ==
  [lines |-> [q \in Planes(s) |-> IF LineDone(s, r, q) THEN SwapLines(d.lines[q]) ELSE d.lines[q]],
   contexts |-> d.contexts, runs |-> d.runs]

\* At the end of a row both sides hold its samples; the decoder swaps the lines of RGB
\* behind the last plane.
LineHeld(s, img, r, ours, theirs) ==
  LET p == RowPlane(s, r)
  IN /\ theirs[p] = ours[p] /\ ours[p] \in LineType(s, p)
     /\ ours[p].current = CodedRow(s, img, p, RowLine(s, r))
     /\ SameLines(s, img, r, ours, theirs)
     /\ ours = [q \in Planes(s) |-> ours[q]]

LEMMA LinesHeld ==
  ASSUME NEW s \in StreamParameters, NEW img \in Pictures(s), NEW t, Good(s, img, t),
         t.row < Rows(s), t.x = s.width, NEW d, Matches(s, img, t.row, t.state, d)
  PROVE  LineHeld(s, img, t.row, t.state.lines, d.lines)
<1> DEFINE p == RowPlane(s, t.row)
           samples == RowSamples(s, img, t.row)
           ours == t.state.lines
           theirs == d.lines
<1>1. /\ p \in Planes(s) /\ samples \in [1..s.width -> SampleRange(s, p)]
      /\ t.row \in Nat /\ GoodState(s, t.state) /\ s.width \in Nat
  BY NodeFacts
<1>2. Stored(ours[p], samples, s.width)
  BY DEF Good, LineAt
<1>3. IsState(t.state) /\ ours = [q \in Planes(s) |-> ours[q]]
  BY <1>1, GoodLinesAre
<1>4. ours[p] \in LineType(s, p)
  BY <1>1, LineOf
<1>5. p = RowPlane(s, t.row)
  OBVIOUS
<1>6. samples = CodedRow(s, img, p, RowLine(s, t.row))
  BY DEF RowSamples
<1>7. SameLines(s, img, t.row, ours, theirs)
  BY DEF Matches
<1> HIDE DEF p, samples, ours, theirs
<1>8. theirs[p] = ours[p]
  BY <1>1, <1>3, <1>5, MatchesPut, SMTT(30) DEF ours, theirs
<1>9. ours[p].current = samples
  <2>1. ours[p].current \in [1..s.width -> SampleRange(s, p)]
    BY <1>4, LineParts
  <2>2. \A i \in 1..s.width : ours[p].current[i] = samples[i]
    BY <1>2 DEF Stored
  <2>3. QED
    BY <1>1, <2>1, <2>2
<1>10. QED
  BY <1>3, <1>4, <1>6, <1>7, <1>8, <1>9 DEF LineHeld, p, ours, theirs

LEMMA RowsHeld ==
  ASSUME NEW s \in StreamParameters, NEW img \in Pictures(s), NEW r \in Nat, r < Rows(s),
         NEW ours, NEW theirs, LineHeld(s, img, r, ours, theirs), NEW q \in Planes(s),
         LineDone(s, r, q)
  PROVE  RowOf(s, theirs, q) = img[q][RowLine(s, r)]
<1> DEFINE p == RowPlane(s, r)
           l == RowLine(s, r)
<1>1. /\ theirs[p] = ours[p] /\ ours[p].current = CodedRow(s, img, p, l)
      /\ SameLines(s, img, r, ours, theirs)
  BY DEF LineHeld
<1>2. l \in 1..s.height
  BY RowFacts
<1>3. Planes(s) = 1..PlaneCount(s) /\ Cardinality(Planes(s)) = PlaneCount(s) /\ PlaneCount(s) \in Nat
  BY PlanesAre
<1>4. CASE ~s.rgb
  <2>1. q = p
    BY <1>4 DEF LineDone
  <2> HIDE DEF p, l
  <2>2. theirs[q].current = CodedRow(s, img, q, l)
    BY <1>1, <2>1
  <2>3. RowOf(s, theirs, q) = img[q][l]
    BY <1>2, <1>4, <2>2, RowBack
  <2>4. QED
    BY <2>3 DEF l
<1>5. CASE s.rgb
  <2>1. p = PlaneCount(s)
    BY <1>3, <1>5 DEF LineDone
  <2>2. ASSUME NEW v \in Planes(s)
        PROVE  theirs[v].current = CodedRow(s, img, v, l)
    <3>1. CASE v = p
      BY <1>1, <3>1
    <3>2. CASE v # p
      <4>1. v < p
        BY <1>3, <2>1, <3>2
      <4>2. QED
        BY <1>1, <1>5, <4>1 DEF SameLines
    <3>3. QED
      BY <3>1, <3>2
  <2> HIDE DEF p, l
  <2>3. RowOf(s, theirs, q) = img[q][l]
    BY <1>2, <2>2, RowBack
  <2>4. QED
    BY <2>3 DEF l
<1>6. QED
  BY <1>4, <1>5

LEMMA LinesSwapped ==
  ASSUME NEW s \in StreamParameters, NEW img \in Pictures(s), NEW r \in Nat, r < Rows(s),
         NEW ours, NEW theirs, LineHeld(s, img, r, ours, theirs)
  PROVE  SameLines(s, img, r + 1, Put(ours, RowPlane(s, r), SwapLines(ours[RowPlane(s, r)])),
                   [q \in Planes(s) |-> IF LineDone(s, r, q) THEN SwapLines(theirs[q]) ELSE theirs[q]])
<1> DEFINE p == RowPlane(s, r)
           l == RowLine(s, r)
           new == Put(ours, p, SwapLines(ours[p]))
           after == [q \in Planes(s) |-> IF LineDone(s, r, q) THEN SwapLines(theirs[q]) ELSE theirs[q]]
<1>1. /\ theirs[p] = ours[p] /\ ours[p] \in LineType(s, p)
      /\ ours[p].current = CodedRow(s, img, p, l)
      /\ SameLines(s, img, r, ours, theirs)
      /\ ours = [q \in Planes(s) |-> ours[q]]
  BY DEF LineHeld
<1>2. Planes(s) = 1..PlaneCount(s) /\ Cardinality(Planes(s)) = PlaneCount(s) /\ PlaneCount(s) \in Nat
  BY PlanesAre
<1>3. p \in Planes(s)
  BY RowFacts
<1>4. \A q \in Planes(s) : new[q] = IF q = p THEN SwapLines(ours[p]) ELSE ours[q]
  BY <1>1, <1>3 DEF Put
<1>5. \A q \in Planes(s) : after[q] = IF LineDone(s, r, q) THEN SwapLines(theirs[q]) ELSE theirs[q]
  OBVIOUS
<1>6. after = [q \in Planes(s) |-> after[q]]
  OBVIOUS
<1>7. /\ \A q \in Planes(s) : ~(s.rgb /\ q < p) => theirs[q] = ours[q]
      /\ \A q \in Planes(s) : s.rgb /\ q < p =>
           /\ theirs[q] \in LineType(s, q) /\ ours[q] = SwapLines(theirs[q])
           /\ theirs[q].current = CodedRow(s, img, q, l)
  BY <1>1 DEF SameLines
<1>8. \A q \in Planes(s) : q \in Int
  BY <1>2
<1> HIDE DEF new, after
<1>9. CASE ~s.rgb
  <2>1. \A q \in Planes(s) : after[q] = new[q]
    BY <1>1, <1>4, <1>5, <1>7, <1>9 DEF LineDone
  <2>2. QED
    BY <1>6, <1>9, <2>1 DEF SameLines, new, after
<1>10. CASE s.rgb /\ p = PlaneCount(s)
  <2>1. RowPlane(s, r + 1) = 1
    BY <1>10, RgbRow
  <2>2. \A q \in Planes(s) : LineDone(s, r, q) /\ ~(q < 1)
    BY <1>2, <1>10 DEF LineDone
  <2>3. ASSUME NEW q \in Planes(s)
        PROVE  after[q] = new[q]
    <3>1. after[q] = SwapLines(theirs[q])
      BY <1>5, <2>2
    <3>2. CASE q = p
      BY <1>1, <1>4, <3>1, <3>2
    <3>3. CASE q # p
      <4>1. q < p /\ new[q] = ours[q]
        BY <1>2, <1>4, <1>10, <3>3
      <4>2. QED
        BY <1>7, <1>10, <3>1, <4>1
    <3>4. QED
      BY <3>2, <3>3
  <2>4. QED
    BY <1>6, <2>1, <2>2, <2>3 DEF SameLines, new, after
<1>11. CASE s.rgb /\ p # PlaneCount(s)
  <2>1. RowPlane(s, r + 1) = p + 1 /\ RowLine(s, r + 1) = l /\ p \in Int
    BY <1>3, <1>8, <1>11, RgbRow
  <2>2. \A q \in Planes(s) : after[q] = theirs[q]
    BY <1>2, <1>5, <1>11 DEF LineDone
  <2> HIDE DEF p, l
  <2>3. ASSUME NEW q \in Planes(s), ~(q < p + 1)
        PROVE  after[q] = new[q]
    <3>1. q # p /\ ~(q < p)
      BY <1>8, <2>1, <2>3
    <3>2. QED
      BY <1>4, <1>7, <2>2, <3>1
  <2>4. ASSUME NEW q \in Planes(s), q < p + 1
        PROVE  /\ after[q] \in LineType(s, q) /\ new[q] = SwapLines(after[q])
               /\ after[q].current = CodedRow(s, img, q, l)
    <3>1. CASE q = p
      BY <1>1, <1>4, <2>2, <3>1
    <3>2. CASE q # p
      <4>1. q < p
        BY <1>8, <2>1, <2>4, <3>2
      <4>2. QED
        BY <1>4, <1>7, <1>11, <2>2, <3>2, <4>1
    <3>3. QED
      BY <3>1, <3>2
  <2>5. SameLines(s, img, r + 1, new, after)
    BY <1>6, <1>11, <2>1, <2>3, <2>4 DEF SameLines
  <2>6. QED
    BY <2>5 DEF new, after, p
<1>12. QED
  BY <1>9, <1>10, <1>11

LEMMA LineNode ==
  ASSUME NEW s \in StreamParameters, NEW img \in Pictures(s), NEW t, Good(s, img, t),
         NEW u, NEW bits, Step(s, img, bits, t, u),
         t.row < Rows(s), NEW i, NEW d, NEW place, AtNode(s, img, t, i, d, place), i = s.width
  PROVE  /\ u.row = t.row + 1
         /\ AtNode(s, img, u, 0, AfterLine(s, t.row, d), place)
         /\ \A q \in Planes(s) :
              LineDone(s, t.row, q) => RowOf(s, d.lines, q) = img[q][RowLine(s, t.row)]
<1> DEFINE p == RowPlane(s, t.row)
           ours == t.state.lines
           r == t.row
           after == [q \in Planes(s) |-> IF LineDone(s, r, q) THEN SwapLines(d.lines[q]) ELSE d.lines[q]]
           new == Changed(t.state, p, SwapLines(ours[p]), t.state.contexts, t.state.runs)
<1>1. i = t.x /\ place = t.position /\ Matches(s, img, r, t.state, d)
  BY DEF AtNode
<1>2. s.width \in Nat /\ r \in Nat
  BY NodeFacts
<1>3. LineStep(s, t, u)
  BY <1>1, <1>2 DEF Step, PieceStep
<1>4. u.row = r + 1 /\ u.x = 0 /\ u.position = place /\ u.state = new
  BY <1>1, <1>3 DEF LineStep, LineAt
<1>5. LineHeld(s, img, r, ours, d.lines)
  BY <1>1, LinesHeld
<1>6. SameLines(s, img, r + 1, Put(ours, p, SwapLines(ours[p])), after)
  BY <1>2, <1>5, LinesSwapped
<1>7. new.lines = Put(ours, p, SwapLines(ours[p])) /\ new.contexts = t.state.contexts
      /\ new.runs = t.state.runs
  BY ChangedParts
<1>8. d.contexts = t.state.contexts /\ d.runs = t.state.runs
  BY <1>1 DEF Matches
<1>9. AfterLine(s, r, d) = [lines |-> after, contexts |-> d.contexts, runs |-> d.runs]
  BY DEF AfterLine
<1>10. ASSUME NEW q \in Planes(s), LineDone(s, r, q)
       PROVE  RowOf(s, d.lines, q) = img[q][RowLine(s, r)]
  BY <1>2, <1>5, <1>10, RowsHeld
<1> HIDE DEF after, new, ours
<1>11. /\ IsState(AfterLine(s, r, d)) /\ AfterLine(s, r, d).lines = after
       /\ AfterLine(s, r, d).contexts = d.contexts /\ AfterLine(s, r, d).runs = d.runs
  BY <1>9, StateParts
<1>12. Matches(s, img, r + 1, new, AfterLine(s, r, d))
  BY <1>6, <1>7, <1>8, <1>11 DEF Matches
<1>13. AtNode(s, img, u, 0, AfterLine(s, r, d), place)
  BY <1>4, <1>12 DEF AtNode
<1>14. QED
  BY <1>4, <1>10, <1>13

-----------------------------------------------------------------------------
(***************************************************************************)
(* The decoder follows the trace of the encoder.                           *)
(***************************************************************************)
LEMMA FollowsNone ==
  ASSUME NEW s \in StreamParameters, NEW img \in Pictures(s), NEW bits, NEW N, NEW tr,
         NEW r, NEW i, NEW d, NEW place, Follows(s, img, bits, N, tr, r, i, "none", d, place)
  PROVE  /\ IsState(d) /\ d.runs \in [Planes(s) -> RunSet] /\ GoodContexts(s, d.contexts)
         /\ \E n \in 0..N : /\ tr[n].row = r /\ AtNode(s, img, tr[n], i, d, place)
                            /\ Good(s, img, tr[n])
<1>1. PICK n \in 0..N : tr[n].row = r /\ At(s, img, tr[n], i, "none", d, place)
  BY DEF Follows
<1>2. AtNode(s, img, tr[n], i, d, place)
  BY <1>1 DEF At
<1>3. Good(s, img, tr[n])
  BY DEF Follows, Trace
<1>4. GoodState(s, tr[n].state)
  BY <1>3 DEF Good
<1>5. d.runs = tr[n].state.runs /\ d.contexts = tr[n].state.contexts /\ IsState(d)
  BY <1>2 DEF AtNode, Matches
<1>6. tr[n].state.runs \in [Planes(s) -> RunSet] /\ GoodContexts(s, tr[n].state.contexts)
  BY <1>4 DEF GoodState
<1>7. QED
  BY <1>1, <1>2, <1>3, <1>5, <1>6

LEMMA FollowsSample ==
  ASSUME NEW s \in StreamParameters, FitsContexts(s), ~s.golomb, NEW img \in Pictures(s),
         NEW bits, Len(bits) \in Nat, NEW N, NEW tr, NEW r, r < Rows(s), NEW i, i < s.width,
         NEW d, NEW place, Follows(s, img, bits, N, tr, r, i, "none", d, place)
  PROVE  Follows(s, img, bits, N, tr, r, i + 1, "none",
                 AfterSample(s, d, RowPlane(s, r), i + 1, bits[place + 1]), place + 1)
<1>1. PICK n \in 0..N : tr[n].row = r /\ AtNode(s, img, tr[n], i, d, place)
  BY FollowsNone
<1>2. Trace(s, img, bits, N, tr) /\ tr[N].row = Rows(s)
  BY DEF Follows
<1>3. /\ n + 1 \in 0..N /\ Step(s, img, bits, tr[n], tr[n + 1])
      /\ Good(s, img, tr[n]) /\ Good(s, img, tr[n + 1])
  BY <1>1, <1>2, NodeStep
<1> DEFINE t == tr[n]
           u == tr[n + 1]
           new == AfterSample(s, d, RowPlane(s, r), i + 1, bits[place + 1])
<1>4. /\ t.row = r /\ AtNode(s, img, t, i, d, place) /\ Good(s, img, t) /\ Step(s, img, bits, t, u)
  BY <1>1, <1>3
<1> HIDE DEF t, u
<1>5. u.row = t.row /\ AtNode(s, img, u, i + 1, AfterSample(s, d, RowPlane(s, t.row), i + 1, bits[place + 1]),
                   place + 1)
  BY <1>4, RangeNode
<1>6. u.row = r /\ At(s, img, u, i + 1, "none", new, place + 1)
  BY <1>4, <1>5 DEF At
<1>7. QED
  BY <1>2, <1>3, <1>6 DEF Follows, u

LEMMA FollowsScalar ==
  ASSUME NEW s \in StreamParameters, FitsContexts(s), s.golomb, NEW img \in Pictures(s),
         NEW bits, Len(bits) \in Nat, NEW N, NEW tr, NEW r, r < Rows(s), NEW i, i < s.width,
         NEW d, NEW place, Follows(s, img, bits, N, tr, r, i, "none", d, place),
         NEW p, p = RowPlane(s, r), NEW j, j = i + 1, Found(s, d, p, j).number # 0
  PROVE  /\ FoundThere(s, d, p, j, bits, place)
         /\ Follows(s, img, bits, N, tr, r, j, "none", AfterSymbol(s, d, p, j, bits, place, FALSE),
                    FoundCode(s, d, p, j, bits, place).position)
<1>1. PICK n \in 0..N : tr[n].row = r /\ AtNode(s, img, tr[n], i, d, place)
  BY FollowsNone
<1>2. Trace(s, img, bits, N, tr) /\ tr[N].row = Rows(s)
  BY DEF Follows
<1>3. /\ n + 1 \in 0..N /\ Step(s, img, bits, tr[n], tr[n + 1])
      /\ Good(s, img, tr[n]) /\ Good(s, img, tr[n + 1])
  BY <1>1, <1>2, NodeStep
<1> DEFINE t == tr[n]
           u == tr[n + 1]
           new == AfterSymbol(s, d, p, j, bits, place, FALSE)
           next == FoundCode(s, d, p, j, bits, place).position
<1>4. /\ t.row = r /\ AtNode(s, img, t, i, d, place) /\ Good(s, img, t) /\ Step(s, img, bits, t, u)
  BY <1>1, <1>3
<1> HIDE DEF t, u
<1>5. ~RunStart(s, t)
  <2>1. Found(s, d, RowPlane(s, t.row), i + 1).number = 0 <=> RunStart(s, t)
    BY <1>4, SameFound
  <2>2. QED
    BY <1>4, <2>1
<1>6. /\ u.row = t.row
      /\ FoundThere(s, d, RowPlane(s, t.row), i + 1, bits, place)
      /\ AtNode(s, img, u, i + 1,
                AfterSymbol(s, d, RowPlane(s, t.row), i + 1, bits, place, FALSE),
                FoundCode(s, d, RowPlane(s, t.row), i + 1, bits, place).position)
  BY <1>4, <1>5, ScalarNode
<1>7. u.row = r /\ FoundThere(s, d, p, j, bits, place) /\ At(s, img, u, j, "none", new, next)
  BY <1>4, <1>6 DEF At
<1>8. QED
  BY <1>2, <1>3, <1>7 DEF Follows, u

LEMMA FollowsInterruption ==
  ASSUME NEW s \in StreamParameters, FitsContexts(s), NEW img \in Pictures(s),
         NEW bits, Len(bits) \in Nat, NEW N, NEW tr, NEW r, r < Rows(s), NEW i,
         NEW d, NEW place, Follows(s, img, bits, N, tr, r, i, "interrupted", d, place),
         NEW p, p = RowPlane(s, r), NEW j, j = i + 1
  PROVE  /\ FoundThere(s, d, p, j, bits, place)
         /\ Follows(s, img, bits, N, tr, r, j, "none", AfterSymbol(s, d, p, j, bits, place, TRUE),
                    FoundCode(s, d, p, j, bits, place).position)
<1>1. PICK n \in 0..N : tr[n].row = r /\ At(s, img, tr[n], i, "interrupted", d, place)
  BY DEF Follows
<1>2. Trace(s, img, bits, N, tr) /\ tr[N].row = Rows(s)
  BY DEF Follows
<1>3. /\ n + 1 \in 0..N /\ Step(s, img, bits, tr[n], tr[n + 1])
      /\ Good(s, img, tr[n]) /\ Good(s, img, tr[n + 1])
  BY <1>1, <1>2, NodeStep
<1> DEFINE t == tr[n]
           u == tr[n + 1]
           new == AfterSymbol(s, d, p, j, bits, place, TRUE)
           next == FoundCode(s, d, p, j, bits, place).position
<1>4. /\ t.row = r /\ BehindRun(s, img, t, i, d, place) /\ Good(s, img, t) /\ Step(s, img, bits, t, u)
  BY <1>1, <1>3 DEF At
<1> HIDE DEF t, u
<1>6. /\ u.row = t.row
      /\ FoundThere(s, d, RowPlane(s, t.row), i + 1, bits, place)
      /\ AtNode(s, img, u, i + 1,
                AfterSymbol(s, d, RowPlane(s, t.row), i + 1, bits, place, TRUE),
                FoundCode(s, d, RowPlane(s, t.row), i + 1, bits, place).position)
  BY <1>4, InterruptNode
<1>7. u.row = r /\ FoundThere(s, d, p, j, bits, place) /\ At(s, img, u, j, "none", new, next)
  BY <1>4, <1>6 DEF At
<1>8. QED
  BY <1>2, <1>3, <1>7 DEF Follows, u

\* The segment that the decoder reads, and where it is then.
SegmentFollows(s, img, bits, N, tr, r, i, d, place) ==
  LET p == RowPlane(s, r)
      state == d.runs[RunBank(s, p)]
      segment == ReadSegment(bits, place, state, s.width - i)
  IN /\ IsState(d) /\ SegmentThere(bits, place, state)
     /\ state.pending_count = 0 /\ segment.pending = 0 /\ segment.count \in Nat
     /\ Follows(s, img, bits, N, tr, r, i + segment.count, HowBehind(s, i, segment),
                Taken(s, p, i, segment.count, segment.run_index, d), segment.position)

LEMMA FollowsSegment ==
  ASSUME NEW s \in StreamParameters, FitsContexts(s), s.golomb, NEW img \in Pictures(s),
         NEW bits, Len(bits) \in Nat, NEW N, NEW tr, NEW r, r < Rows(s), NEW i, i < s.width,
         NEW how, how \in {"none", "copying"},
         NEW d, NEW place, Follows(s, img, bits, N, tr, r, i, how, d, place),
         how = "none" => Found(s, d, RowPlane(s, r), i + 1).number = 0
  PROVE  SegmentFollows(s, img, bits, N, tr, r, i, d, place)
<1>1. PICK n \in 0..N : tr[n].row = r /\ At(s, img, tr[n], i, how, d, place)
  BY DEF Follows
<1>2. Trace(s, img, bits, N, tr) /\ tr[N].row = Rows(s)
  BY DEF Follows
<1>3. /\ n + 1 \in 0..N /\ Step(s, img, bits, tr[n], tr[n + 1])
      /\ Good(s, img, tr[n]) /\ Good(s, img, tr[n + 1])
  BY <1>1, <1>2, NodeStep
<1> DEFINE t == tr[n]
           u == tr[n + 1]
<1>4. /\ t.row = r /\ At(s, img, t, i, how, d, place) /\ Good(s, img, t) /\ Step(s, img, bits, t, u)
  BY <1>1, <1>3
<1> HIDE DEF t, u
<1>5. \E m : InRun(s, img, t, m, i, d, place)
  <2>1. CASE how = "none"
    <3>1. AtNode(s, img, t, i, d, place)
      BY <1>4, <2>1 DEF At
    <3>2. Found(s, d, RowPlane(s, t.row), i + 1).number = 0 <=> RunStart(s, t)
      BY <1>4, <3>1, SameFound
    <3>3. i = t.x
      BY <3>1 DEF AtNode
    <3>4. IsRunning(s, t)
      BY <1>4, <2>1, <3>2, <3>3 DEF IsRunning
    <3>5. InRun(s, img, t, 0, i, d, place)
      BY <1>4, <3>1, <3>4, RunEntered
    <3>6. QED
      BY <3>5
  <2>2. CASE how = "copying"
    BY <1>4, <2>2 DEF At
  <2>3. QED
    BY <2>1, <2>2
<1>6. PICK m : InRun(s, img, t, m, i, d, place)
  BY <1>5
<1>7. SegmentTaken(s, img, bits, t, u, i, d, place)
  BY <1>4, <1>6, SegmentNode
<1> DEFINE p == RowPlane(s, r)
           state == d.runs[RunBank(s, p)]
           segment == ReadSegment(bits, place, state, s.width - i)
           j == i + segment.count
           after == HowBehind(s, i, segment)
           new == Taken(s, p, i, segment.count, segment.run_index, d)
<1>8. /\ IsState(d) /\ SegmentThere(bits, place, state)
      /\ state.pending_count = 0 /\ segment.pending = 0 /\ segment.count \in Nat
      /\ u.row = t.row
      /\ \E v \in {t, u} : At(s, img, v, j, after, new, segment.position)
  BY <1>4, <1>7 DEF SegmentTaken
<1> HIDE DEF state, segment, j, after, new
<1>9. PICK v \in {t, u} : At(s, img, v, j, after, new, segment.position)
  BY <1>8
<1>10. \E k \in 0..N : tr[k].row = r /\ At(s, img, tr[k], j, after, new, segment.position)
  <2>1. CASE v = t
    BY <1>4, <1>9, <2>1 DEF t
  <2>2. CASE v = u
    BY <1>3, <1>4, <1>8, <1>9, <2>2 DEF u
  <2>3. QED
    BY <2>1, <2>2
<1>11. Follows(s, img, bits, N, tr, r, j, after, new, segment.position)
  BY <1>2, <1>10 DEF Follows
<1>12. QED
  BY <1>8, <1>11 DEF SegmentFollows, state, segment, j, after, new

LEMMA FollowsLine ==
  ASSUME NEW s \in StreamParameters, NEW img \in Pictures(s),
         NEW bits, NEW N, NEW tr, NEW r, r < Rows(s), NEW i, i = s.width,
         NEW d, NEW place, Follows(s, img, bits, N, tr, r, i, "none", d, place)
  PROVE  /\ Follows(s, img, bits, N, tr, r + 1, 0, "none", AfterLine(s, r, d), place)
         /\ \A q \in Planes(s) : LineDone(s, r, q) => RowOf(s, d.lines, q) = img[q][RowLine(s, r)]
<1>1. PICK n \in 0..N : tr[n].row = r /\ AtNode(s, img, tr[n], i, d, place)
  BY FollowsNone
<1>2. Trace(s, img, bits, N, tr) /\ tr[N].row = Rows(s)
  BY DEF Follows
<1>3. /\ n + 1 \in 0..N /\ Step(s, img, bits, tr[n], tr[n + 1])
      /\ Good(s, img, tr[n]) /\ Good(s, img, tr[n + 1])
  BY <1>1, <1>2, NodeStep
<1> DEFINE t == tr[n]
           u == tr[n + 1]
<1>4. /\ t.row = r /\ AtNode(s, img, t, i, d, place) /\ Good(s, img, t) /\ Step(s, img, bits, t, u)
  BY <1>1, <1>3
<1> HIDE DEF t, u
<1>5. /\ u.row = t.row + 1
      /\ AtNode(s, img, u, 0, AfterLine(s, t.row, d), place)
      /\ \A q \in Planes(s) :
           LineDone(s, t.row, q) => RowOf(s, d.lines, q) = img[q][RowLine(s, t.row)]
  BY <1>4, LineNode
<1>6. u.row = r + 1 /\ At(s, img, u, 0, "none", AfterLine(s, r, d), place)
  BY <1>4, <1>5 DEF At
<1>7. QED
  BY <1>2, <1>3, <1>4, <1>5, <1>6 DEF Follows, u

\* The decoder starts with the encoder, and ends with it.
LEMMA FollowsStart ==
  ASSUME NEW s \in StreamParameters, NEW img \in Pictures(s), NEW bits, NEW N, NEW tr,
         Trace(s, img, bits, N, tr), tr[N].row = Rows(s), NEW first, Starts(tr, first)
  PROVE  Follows(s, img, bits, N, tr, 0, 0, "none", first, 0)
<1>1. N \in Nat /\ 0 \in 0..N /\ Good(s, img, tr[0])
  BY DEF Trace
<1>2. tr[0].row = 0 /\ tr[0].x = 0 /\ tr[0].state = first /\ tr[0].position = 0
  BY DEF Starts, IsNode
<1>3. GoodState(s, first) /\ Rows(s) \in Nat /\ Rows(s) >= 1
  BY <1>1, <1>2, RowsAre DEF Good
<1>4. IsState(first) /\ first.lines = [q \in Planes(s) |-> first.lines[q]]
  BY <1>3, GoodLinesAre
<1>5. s.rgb => RowPlane(s, 0) = 1
  <2>1. Cardinality(Planes(s)) \in Nat /\ Cardinality(Planes(s)) >= 1
    BY PlanesAre
  <2>2. QED
    BY <2>1 DEF RowPlane
<1>6. \A q \in Planes(s) : ~(s.rgb /\ q < RowPlane(s, 0))
  <2>1. \A q \in Planes(s) : q \in Nat /\ q >= 1
    BY PlanesAre
  <2>2. QED
    BY <1>5, <2>1
<1>7. SameLines(s, img, 0, first.lines, first.lines)
  BY <1>4, <1>6 DEF SameLines
<1>8. Matches(s, img, 0, first, first)
  BY <1>4, <1>7 DEF Matches
<1>9. At(s, img, tr[0], 0, "none", first, 0)
  BY <1>2, <1>8 DEF At, AtNode
<1>10. QED
  BY <1>1, <1>2, <1>9 DEF Follows

-----------------------------------------------------------------------------
(***************************************************************************)
(* Where the decoder is, and where it ends.                                *)
(***************************************************************************)
\* Only a run of a Golomb-Rice slice takes the decoder between two nodes.
LEMMA FollowsHow ==
  ASSUME NEW s \in StreamParameters, NEW img \in Pictures(s), NEW bits, NEW N, NEW tr,
         NEW r, NEW i, NEW how, NEW d, NEW place, Follows(s, img, bits, N, tr, r, i, how, d, place)
  PROVE  /\ how \in {"none", "copying", "interrupted"}
         /\ how # "none" => s.golomb /\ r < Rows(s) /\ i < s.width
<1>1. PICK n \in 0..N : tr[n].row = r /\ At(s, img, tr[n], i, how, d, place)
  BY DEF Follows
<1>2. CASE how = "none"
  BY <1>2
<1>3. CASE how = "copying"
  <2>1. i < s.width /\ \E m : InRun(s, img, tr[n], m, i, d, place)
    BY <1>1, <1>3 DEF At
  <2>2. IsRunning(s, tr[n])
    BY <2>1 DEF InRun
  <2>3. QED
    BY <1>1, <1>3, <2>1, <2>2 DEF IsRunning
<1>4. CASE how = "interrupted"
  <2>1. BehindRun(s, img, tr[n], i, d, place)
    BY <1>1, <1>4 DEF At
  <2>2. IsRunning(s, tr[n]) /\ i < s.width
    BY <2>1 DEF BehindRun
  <2>3. QED
    BY <1>1, <1>4, <2>2 DEF IsRunning
<1>5. QED
  BY <1>1, <1>2, <1>3, <1>4 DEF At

\* Behind the last row the decoder is at the encoder's last node.
LEMMA FollowsEnd ==
  ASSUME NEW s \in StreamParameters, NEW img \in Pictures(s), NEW bits, NEW N, NEW tr,
         NEW r, r = Rows(s), NEW i, NEW d, NEW place,
         Follows(s, img, bits, N, tr, r, i, "none", d, place)
  PROVE  /\ place = tr[N].position /\ GoodState(s, tr[N].state)
         /\ d.contexts = tr[N].state.contexts /\ d.runs = tr[N].state.runs
<1>1. PICK n \in 0..N : tr[n].row = r /\ AtNode(s, img, tr[n], i, d, place)
  BY FollowsNone
<1>2. Trace(s, img, bits, N, tr) /\ tr[N].row = Rows(s)
  BY DEF Follows
<1>3. N \in Nat /\ Rows(s) \in Nat
  BY <1>2, RowsAre DEF Trace
<1>4. n = N
  <2>1. SUFFICES ASSUME n < N
                 PROVE  FALSE
    BY <1>1, <1>3
  <2>2. Step(s, img, bits, tr[n], tr[n + 1])
    BY <1>1, <1>2, <2>1 DEF Trace
  <2>3. tr[n].row < Rows(s)
    BY <2>2 DEF Step, PieceStep, LineStep
  <2>4. QED
    BY <1>1, <1>3, <2>3
<1>5. Good(s, img, tr[N])
  BY <1>2, <1>3 DEF Trace
<1>6. Matches(s, img, tr[N].row, tr[N].state, d) /\ place = tr[N].position
  BY <1>1, <1>4 DEF AtNode
<1>7. QED
  BY <1>5, <1>6 DEF Matches, Good

-----------------------------------------------------------------------------
(***************************************************************************)
(* The actions of the decoder on slices of our own.                        *)
(***************************************************************************)
FollowsNow(N, tr) == Follows(stream, image, coded, N, tr, row, x, run, dec, position)

OwnStream == stream \in StreamParameters /\ FitsContexts(stream) /\ image \in Pictures(stream)

\* Where the decoder's own steps take place.
LEMMA DecodingFacts ==
  ASSUME OwnStream, NEW N, NEW tr, FollowsNow(N, tr), Decoding
  PROVE  /\ row < Rows(stream) /\ x < stream.width /\ row \in Nat /\ x \in Nat
         /\ plane = RowPlane(stream, row) /\ plane \in Planes(stream)
         /\ run \in {"none", "copying", "interrupted"}
         /\ run # "none" => stream.golomb
<1>1. row < Rows(stream) /\ x < stream.width
  BY DEF Decoding, InRow
<1>2. PICK n \in 0..N : tr[n].row = row /\ At(stream, image, tr[n], x, run, dec, position)
  BY DEF FollowsNow, Follows
<1>3. Good(stream, image, tr[n])
  BY <1>2 DEF FollowsNow, Follows, Trace
<1>4. row \in Nat /\ tr[n].x \in Nat
  BY <1>2, <1>3 DEF Good
<1>5. /\ run \in {"none", "copying", "interrupted"}
      /\ run # "none" => stream.golomb
  BY FollowsHow DEF FollowsNow, OwnStream
<1>6. RowPlane(stream, row) \in Planes(stream)
  BY <1>1, <1>4, RowPlaces DEF OwnStream
<1>7. x \in Nat
  <2>1. CASE run = "none"
    BY <1>2, <1>4, <2>1 DEF At, AtNode
  <2>2. CASE run = "copying"
    <3>1. PICK m : InRun(stream, image, tr[n], m, x, dec, position)
      BY <1>2, <2>2 DEF At
    <3>2. IsRunning(stream, tr[n]) /\ x = tr[n].x + Covered(NodeIndex(stream, tr[n]), m) /\ m \in Nat
      BY <3>1 DEF InRun
    <3>3. PICK k \in Nat : m <= k /\ NodeCounts(stream, image, tr[n], k)
      BY <3>1 DEF InRun
    <3>4. NodeIndex(stream, tr[n]) \in RunIndexes
      BY <1>3, <3>2, RunFacts DEF OwnStream
    <3>5. k \in 0..(40 - NodeIndex(stream, tr[n]))
      BY <3>3 DEF NodeCounts, IsRun, FullRuns
    <3>6. Covered(NodeIndex(stream, tr[n]), m) \in Nat
      <4> DEFINE index == NodeIndex(stream, tr[n])
      <4>1. index + m <= 40 /\ index \in RunIndexes
        BY <3>2, <3>3, <3>4, <3>5 DEF RunIndexes
      <4> HIDE DEF index
      <4>2. Covered(index, m) \in Nat
        BY <3>2, <4>1, CoveredNext
      <4>3. QED
        BY <4>2 DEF index
    <3>7. QED
      BY <1>4, <3>2, <3>6
  <2>3. CASE run = "interrupted"
    <3>1. BehindRun(stream, image, tr[n], x, dec, position)
      BY <1>2, <2>3 DEF At
    <3>2. IsRunning(stream, tr[n]) /\ x = NodeEnd(stream, image, tr[n])
      BY <3>1 DEF BehindRun
    <3>3. x \in tr[n].x..stream.width
      BY <1>3, <3>2, RunFacts DEF OwnStream
    <3>4. stream.width \in Nat
      BY StreamParts DEF OwnStream
    <3>5. QED
      BY <1>4, <3>3, <3>4
  <2>4. QED
    BY <1>5, <2>1, <2>2, <2>3
<1>8. QED
  BY <1>1, <1>4, <1>5, <1>6, <1>7 DEF plane

\* A difference of the range coder is read where it was coded.
LEMMA OwnSample ==
  ASSUME OwnStream, coded \in Seq(Codes(stream)), NEW N, NEW tr, FollowsNow(N, tr), DecodeSample
  PROVE  FollowsNow(N, tr)'
<1>1. Decoding /\ ~stream.golomb
  BY DEF DecodeSample
<1>2. /\ row < Rows(stream) /\ x < stream.width
      /\ plane = RowPlane(stream, row) /\ run = "none"
  BY <1>1, DecodingFacts
<1>3. Follows(stream, image, coded, N, tr, row, x, "none", dec, position)
  BY <1>2 DEF FollowsNow
<1>4. Len(coded) \in Nat
  BY LenProperties
<1>5. Follows(stream, image, coded, N, tr, row, x + 1, "none",
              AfterSample(stream, dec, RowPlane(stream, row), x + 1, coded[position + 1]), position + 1)
  BY <1>1, <1>2, <1>3, <1>4, FollowsSample DEF OwnStream
<1>6. dec' = AfterSample(stream, dec, plane, x + 1, coded[position + 1])
  <2>1. NextContext = Found(stream, dec, plane, x + 1)
    BY DEF NextContext, Found
  <2>2. ReadDifference = RangeDifference(stream, dec, plane, x + 1, coded[position + 1])
    BY <2>1 DEF ReadDifference, RangeDifference
  <2>3. dec' = Decoded(stream, dec, plane, x + 1, Negated(NextContext, ReadDifference))
    BY DEF DecodeSample
  <2>4. QED
    BY <2>1, <2>2, <2>3 DEF AfterSample
<1>7. /\ stream' = stream /\ image' = image /\ coded' = coded /\ row' = row
      /\ x' = x + 1 /\ run' = "none" /\ position' = position + 1
  BY <1>2 DEF DecodeSample, slices
<1>8. QED
  BY <1>2, <1>5, <1>6, <1>7 DEF FollowsNow

\* What TakeSymbol takes from the bits.
LEMMA SymbolIsTaken ==
  ASSUME OwnStream, plane \in Planes(stream), NEW interrupts \in BOOLEAN,
         interrupts = (run = "interrupted")
  PROVE  /\ SymbolThere <=> FoundThere(stream, dec, plane, x + 1, coded, position)
         /\ TakeSymbol =>
              /\ dec' = AfterSymbol(stream, dec, plane, x + 1, coded, position, interrupts)
              /\ position' = FoundCode(stream, dec, plane, x + 1, coded, position).position
              /\ x' = x + 1 /\ run' = "none"
              /\ UNCHANGED <<slices, pc, row, enc, coded, output, announced, copied>>
<1>1. NextContext = Found(stream, dec, plane, x + 1)
  BY DEF NextContext, Found
<1>2. SymbolContext = FoundContext(stream, dec, plane, x + 1)
  BY <1>1 DEF SymbolContext, FoundContext
<1>3. 2^(CodedBits(stream, plane) - 1) = HalfOf(stream, plane)
  BY DEF HalfOf
<1> DEFINE n == NextContext
           bits == CodedBits(stream, plane)
           code == NextCode(coded, position, DeriveK(SymbolContext), bits)
           symbol == ReadSymbol(SymbolContext, code, 2^(bits - 1))
           difference == IF run = "interrupted" THEN FromInterruption(symbol.value)
                         ELSE symbol.value
<1>4. code = FoundCode(stream, dec, plane, x + 1, coded, position)
  BY <1>2 DEF FoundCode
<1>5. symbol = FoundSymbol(stream, dec, plane, x + 1, coded, position)
  BY <1>2, <1>3, <1>4 DEF FoundSymbol
<1>6. difference = Returned(interrupts, symbol.value)
  BY DEF Returned
<1>7. Decoded(stream, Adapt(dec, Bank(stream, plane), n.number, symbol.context),
              plane, x + 1, Negated(n, difference)) =
        AfterSymbol(stream, dec, plane, x + 1, coded, position, interrupts)
  <2> HIDE DEF code, symbol, difference, bits
  <2>1. QED
    BY <1>1, <1>5, <1>6 DEF AfterSymbol
<1>8. TakeSymbol =>
        /\ dec' = Decoded(stream, Adapt(dec, Bank(stream, plane), n.number, symbol.context),
                          plane, x + 1, Negated(n, difference))
        /\ position' = code.position
        /\ x' = x + 1 /\ run' = "none"
        /\ UNCHANGED <<slices, pc, row, enc, coded, output, announced, copied>>
  BY DEF TakeSymbol
<1>9. SymbolThere <=> FoundThere(stream, dec, plane, x + 1, coded, position)
  BY <1>2 DEF SymbolThere, FoundThere
<1> HIDE DEF code, symbol, difference, bits
<1>10. QED
  BY <1>4, <1>7, <1>8, <1>9

\* A codeword of our own is there, and stands for the sample that was coded.
LEMMA OwnScalar ==
  ASSUME OwnStream, coded \in Seq(Codes(stream)), NEW N, NEW tr, FollowsNow(N, tr),
         Decoding, stream.golomb, AtScalar
  PROVE  SymbolThere /\ (TakeSymbol => FollowsNow(N, tr)')
<1> DEFINE p == plane
           j == x + 1
           no == FALSE
<1>1. /\ row < Rows(stream) /\ x < stream.width
      /\ p = RowPlane(stream, row) /\ p \in Planes(stream)
  BY DecodingFacts
<1>2. run = "none" /\ NextContext.number # 0
  BY DEF AtScalar
<1>3. Follows(stream, image, coded, N, tr, row, x, "none", dec, position)
  BY <1>2 DEF FollowsNow
<1>4. Len(coded) \in Nat
  BY LenProperties
<1>5. Found(stream, dec, p, j).number # 0
  BY <1>2 DEF NextContext, Found
<1>6. no \in BOOLEAN /\ no = (run = "interrupted") /\ j = x + 1
  BY <1>2
<1>7. /\ SymbolThere <=> FoundThere(stream, dec, p, x + 1, coded, position)
      /\ TakeSymbol =>
           /\ dec' = AfterSymbol(stream, dec, p, x + 1, coded, position, no)
           /\ position' = FoundCode(stream, dec, p, x + 1, coded, position).position
           /\ x' = x + 1 /\ run' = "none"
           /\ UNCHANGED <<slices, pc, row, enc, coded, output, announced, copied>>
  <2> HIDE DEF no
  <2>1. QED
    BY <1>1, <1>6, SymbolIsTaken
<1> HIDE DEF p, j
<1>8. /\ FoundThere(stream, dec, p, j, coded, position)
      /\ Follows(stream, image, coded, N, tr, row, j, "none",
                 AfterSymbol(stream, dec, p, j, coded, position, FALSE),
                 FoundCode(stream, dec, p, j, coded, position).position)
  BY <1>1, <1>3, <1>4, <1>5, <1>6, FollowsScalar DEF OwnStream
<1>9. QED
  BY <1>6, <1>7, <1>8 DEF FollowsNow, slices

\* So does the codeword behind a run.
LEMMA OwnInterruption ==
  ASSUME OwnStream, coded \in Seq(Codes(stream)), NEW N, NEW tr, FollowsNow(N, tr),
         Decoding, stream.golomb, run = "interrupted"
  PROVE  SymbolThere /\ (TakeSymbol => FollowsNow(N, tr)')
<1> DEFINE p == plane
           j == x + 1
           yes == TRUE
<1>1. /\ row < Rows(stream) /\ x < stream.width
      /\ p = RowPlane(stream, row) /\ p \in Planes(stream)
  BY DecodingFacts
<1>3. Follows(stream, image, coded, N, tr, row, x, "interrupted", dec, position)
  BY DEF FollowsNow
<1>4. Len(coded) \in Nat
  BY LenProperties
<1>6. yes \in BOOLEAN /\ yes = (run = "interrupted") /\ j = x + 1
  OBVIOUS
<1>7. /\ SymbolThere <=> FoundThere(stream, dec, p, x + 1, coded, position)
      /\ TakeSymbol =>
           /\ dec' = AfterSymbol(stream, dec, p, x + 1, coded, position, yes)
           /\ position' = FoundCode(stream, dec, p, x + 1, coded, position).position
           /\ x' = x + 1 /\ run' = "none"
           /\ UNCHANGED <<slices, pc, row, enc, coded, output, announced, copied>>
  <2> HIDE DEF yes
  <2>1. QED
    BY <1>1, <1>6, SymbolIsTaken
<1> HIDE DEF p, j
<1>8. /\ FoundThere(stream, dec, p, j, coded, position)
      /\ Follows(stream, image, coded, N, tr, row, j, "none",
                 AfterSymbol(stream, dec, p, j, coded, position, TRUE),
                 FoundCode(stream, dec, p, j, coded, position).position)
  BY <1>1, <1>3, <1>4, <1>6, FollowsInterruption DEF OwnStream
<1>9. QED
  BY <1>6, <1>7, <1>8 DEF FollowsNow, slices

\* A segment of our own is there, is wholly in its row, and copies samples that were coded.
LEMMA OwnSegment ==
  ASSUME OwnStream, coded \in Seq(Codes(stream)), NEW N, NEW tr, FollowsNow(N, tr),
         Decoding, stream.golomb, AtRun
  PROVE  /\ SegmentThere(coded, position, RunState)
         /\ DecodeSegment => FollowsNow(N, tr)'
<1> DEFINE p == plane
           segment == ReadSegment(coded, position, RunState, stream.width - x)
           new == Taken(stream, p, x, segment.count, segment.run_index, dec)
<1>1. /\ row < Rows(stream) /\ x < stream.width
      /\ p = RowPlane(stream, row) /\ p \in Planes(stream)
  BY DecodingFacts
<1>2. run \in {"none", "copying"}
  BY DEF AtRun
<1>3. Follows(stream, image, coded, N, tr, row, x, run, dec, position)
  BY DEF FollowsNow
<1>4. Len(coded) \in Nat
  BY LenProperties
<1>5. run = "none" => Found(stream, dec, RowPlane(stream, row), x + 1).number = 0
  BY <1>1 DEF AtRun, NextContext, Found
<1>6. SegmentFollows(stream, image, coded, N, tr, row, x, dec, position)
  BY <1>1, <1>2, <1>3, <1>4, <1>5, FollowsSegment DEF OwnStream
<1>7. RunState = dec.runs[RunBank(stream, RowPlane(stream, row))]
  BY <1>1 DEF RunState
<1>8. /\ IsState(dec) /\ SegmentThere(coded, position, RunState)
      /\ segment.pending = 0
      /\ Follows(stream, image, coded, N, tr, row, x + segment.count, HowBehind(stream, x, segment),
                 new, segment.position)
  BY <1>1, <1>6, <1>7 DEF SegmentFollows
<1> HIDE DEF segment
<1>9. ASSUME DecodeSegment
      PROVE  FollowsNow(N, tr)'
  <2>1. /\ TakeSegment(segment)
        /\ run' = IF x + segment.count = stream.width THEN "none"
                  ELSE IF segment.interrupted THEN "interrupted"
                  ELSE "copying"
        /\ UNCHANGED <<slices, pc, row, enc, coded, output>>
    BY <1>9 DEF DecodeSegment, segment
  <2>2. run' = HowBehind(stream, x, segment)
    BY <2>1 DEF HowBehind
  <2> DEFINE v == [run_index |-> segment.run_index, pending_count |-> segment.pending]
             r == RunBank(stream, plane)
             count == segment.count
  <2>3. /\ dec' = [dec EXCEPT !.lines[p] = Copied(stream, @, x + 1, count), !.runs[r] = v]
        /\ position' = segment.position /\ x' = x + segment.count
    BY <2>1 DEF TakeSegment
  <2>4. v = RunAt(segment.run_index)
    BY <1>8 DEF RunAt
  <2>5. new = Changed(dec, p, Copied(stream, dec.lines[p], x + 1, count), dec.contexts,
                      Put(dec.runs, r, RunAt(segment.run_index)))
    BY DEF Taken
  <2> DEFINE from == x + 1
  <2> HIDE DEF p, v, r, count, new, from
  <2>6. [dec EXCEPT !.lines[p] = Copied(stream, @, from, count), !.runs[r] = v] =
          Changed(dec, p, Copied(stream, dec.lines[p], from, count), dec.contexts, Put(dec.runs, r, v))
    <3>1. IsTaken(dec, stream, p, from, count, r, v)
      BY <1>8, TakenIs
    <3>2. QED
      BY <3>1, Zenon DEF IsTaken
  <2>7. dec' = new
    BY <2>3, <2>4, <2>5, <2>6 DEF from
  <2>8. QED
    BY <1>8, <2>1, <2>2, <2>3, <2>7 DEF FollowsNow, slices
<1>10. QED
  BY <1>8, <1>9

\* Pending samples are another encoder's.
LEMMA OwnNotPending ==
  ASSUME OwnStream, NEW N, NEW tr, FollowsNow(N, tr), Decoding, run = "none"
  PROVE  ~Pending
<1>1. plane \in Planes(stream)
  BY DecodingFacts
<1>2. dec.runs \in [Planes(stream) -> RunSet]
  BY FollowsNone DEF FollowsNow, OwnStream
<1>3. RunBank(stream, plane) \in Planes(stream)
  BY <1>1, BankType DEF OwnStream
<1>4. RunState \in RunSet
  BY <1>2, <1>3 DEF RunState
<1>5. QED
  BY <1>4 DEF Pending, RunSet

-----------------------------------------------------------------------------
(***************************************************************************)
(* The end of a row.                                                       *)
(***************************************************************************)
\* The rows that are stored when the rows before r are coded.
RowsStored(s, img, r) == [p \in Planes(s) |-> [j \in 1..RowsOut(s, r, p) |-> img[p][j]]]

LEMMA AppendNext ==
  ASSUME NEW n \in Nat, NEW f
  PROVE  Append([j \in 1..n |-> f[j]], f[n + 1]) = [j \in 1..(n + 1) |-> f[j]]
<1> DEFINE T == {f[j] : j \in 1..(n + 1)}
           a == [j \in 1..n |-> f[j]]
           b == [j \in 1..(n + 1) |-> f[j]]
           v == f[n + 1]
<1>1. \A j \in 1..n : j \in 1..(n + 1) /\ j # n + 1
  OBVIOUS
<1>2. n + 1 \in 1..(n + 1) /\ \A j \in 1..(n + 1) : j \in 1..n \/ j = n + 1
  OBVIOUS
<1>3. a \in [1..n -> T]
  BY <1>1
<1>4. v \in T
  BY <1>2
<1>5. a \in Seq(T) /\ Len(a) = n
  <2> HIDE DEF T
  <2>1. QED
    BY <1>3
<1> HIDE DEF T, a, v
<1>6. /\ Append(a, v) \in Seq(T) /\ Len(Append(a, v)) = n + 1
      /\ \A j \in 1..n : Append(a, v)[j] = a[j]
      /\ Append(a, v)[n + 1] = v
  BY <1>4, <1>5, AppendProperties
<1> DEFINE c == Append(a, v)
<1> HIDE DEF c
<1>7. c \in [1..(n + 1) -> T]
  BY <1>6, LenProperties DEF c
<1>8. \A j \in 1..(n + 1) : c[j] = f[j]
  <2> TAKE j \in 1..(n + 1)
  <2>1. CASE j \in 1..n
    BY <1>6, <2>1 DEF c, a
  <2>2. CASE j = n + 1
    BY <1>6, <2>2 DEF c, v
  <2>3. QED
    BY <1>2, <2>1, <2>2
<1>9. c = b
  BY <1>7, <1>8
<1>10. QED
  BY <1>9 DEF c, a, v, b

\* What a row leaves in the decoder: the stored lines, and what is cut from the run.
Cut(runs, r, cut) == [runs EXCEPT ![r].pending_count = @ - cut]

EndsLine(d, s, r, cut, done) ==
  [d EXCEPT !.lines = [p \in Planes(s) |-> IF p \in done THEN SwapLines(@[p]) ELSE @[p]],
            !.runs[r].pending_count = @ - cut] =
    [lines |-> [p \in Planes(s) |-> IF p \in done THEN SwapLines(d.lines[p]) ELSE d.lines[p]],
     contexts |-> d.contexts, runs |-> Cut(d.runs, r, cut)]

LEMMA LineEndIs ==
  ASSUME NEW d, IsState(d), NEW s, NEW r, NEW cut, NEW done
  PROVE  EndsLine(d, s, r, cut, done)
<1> DEFINE L == [p \in Planes(s) |-> IF p \in done THEN SwapLines(d.lines[p]) ELSE d.lines[p]]
           R == Cut(d.runs, r, cut)
<1>1. d = [lines |-> d.lines, contexts |-> d.contexts, runs |-> d.runs]
  BY DEF IsState
<1>2. [d EXCEPT !.lines = [p \in Planes(s) |-> IF p \in done THEN SwapLines(@[p]) ELSE @[p]],
                !.runs[r].pending_count = @ - cut] =
        [d EXCEPT !.lines = L, !.runs = R]
  BY DEF Cut
<1> DEFINE one == [d EXCEPT !.lines = L]
<1> HIDE DEF L, R
<1>3. one = [lines |-> L, contexts |-> d.contexts, runs |-> d.runs]
  BY <1>1
<1>4. [d EXCEPT !.lines = L, !.runs = R] = [one EXCEPT !.runs = R]
  OBVIOUS
<1> HIDE DEF one
<1>5. [one EXCEPT !.runs = R] = [lines |-> L, contexts |-> d.contexts, runs |-> R]
  BY <1>3
<1>6. [d EXCEPT !.lines = L, !.runs = R] = [lines |-> L, contexts |-> d.contexts, runs |-> R]
  BY <1>4, <1>5
<1>7. QED
  BY <1>2, <1>6 DEF L, R, EndsLine

LineEnds(s, r, cut, d, done, new) ==
  new = [lines |-> [p \in Planes(s) |-> IF p \in done THEN SwapLines(d.lines[p]) ELSE d.lines[p]],
         contexts |-> d.contexts, runs |-> Cut(d.runs, r, cut)]

CutNow == IF LastLine THEN RunState.pending_count ELSE 0

DoneNow == {p \in Planes(stream) : LastPlane /\ RowDone(p)}

LEMMA DecodeLineEndParts ==
  ASSUME IsState(dec), DecodeLineEnd
  PROVE  /\ LineEnds(stream, RunBank(stream, plane), CutNow, dec, DoneNow, dec')
         /\ output' = [p \in Planes(stream) |->
                         IF p \in DoneNow THEN Append(output[p], StoredRow(p)) ELSE output[p]]
         /\ announced' = announced - CutNow
         /\ row' = row + 1 /\ x' = 0
         /\ pc = "decode" /\ row < Rows(stream) /\ x = stream.width
         /\ UNCHANGED <<slices, pc, run, enc, coded, position, copied>>
<1> DEFINE done == {p \in Planes(stream) : LastPlane /\ RowDone(p)}
           cut == IF LastLine THEN RunState.pending_count ELSE 0
           r == RunBank(stream, plane)
<1>1. /\ dec' = [dec EXCEPT
                   !.lines = [p \in Planes(stream) |-> IF p \in done THEN SwapLines(@[p]) ELSE @[p]],
                   !.runs[r].pending_count = @ - cut]
      /\ output' = [p \in Planes(stream) |->
                      IF p \in done THEN Append(output[p], StoredRow(p)) ELSE output[p]]
      /\ announced' = announced - cut
      /\ row' = row + 1 /\ x' = 0
      /\ pc = "decode" /\ row < Rows(stream) /\ x = stream.width
      /\ UNCHANGED <<slices, pc, run, enc, coded, position, copied>>
  BY DEF DecodeLineEnd
<1>2. done = DoneNow /\ cut = CutNow
  BY DEF DoneNow, CutNow
<1> HIDE DEF done, cut, r
<1>3. [dec EXCEPT
         !.lines = [p \in Planes(stream) |-> IF p \in done THEN SwapLines(@[p]) ELSE @[p]],
         !.runs[r].pending_count = @ - cut] =
        [lines |-> [p \in Planes(stream) |-> IF p \in done THEN SwapLines(dec.lines[p]) ELSE dec.lines[p]],
         contexts |-> dec.contexts, runs |-> Cut(dec.runs, r, cut)]
  <2>1. EndsLine(dec, stream, r, cut, done)
    BY LineEndIs
  <2>2. QED
    BY <2>1, Zenon DEF EndsLine
<1>4. LineEnds(stream, r, cut, dec, done, dec')
  BY <1>1, <1>3 DEF LineEnds
<1>5. QED
  BY <1>1, <1>2, <1>4 DEF r

RunStates == [run_index : RunIndexes, pending_count : Nat]

\* What a cut leaves of the run states.
LEMMA CutIs ==
  ASSUME NEW s, NEW runs \in [Planes(s) -> RunStates], NEW r \in Planes(s),
         NEW cut \in Nat, cut <= runs[r].pending_count
  PROVE  /\ Cut(runs, r, cut) \in [Planes(s) -> RunStates]
         /\ Cut(runs, r, cut)[r].pending_count = runs[r].pending_count - cut
         /\ \A q \in Planes(s) : q # r => Cut(runs, r, cut)[q] = runs[q]
         /\ cut = 0 => Cut(runs, r, cut) = runs
<1> DEFINE P == Planes(s)
           w == [run_index |-> runs[r].run_index, pending_count |-> runs[r].pending_count - cut]
<1>1. runs \in [P -> [run_index : RunIndexes, pending_count : Nat]] /\ r \in P
  BY DEF RunStates
<1> HIDE DEF P
<1>2. /\ runs[r] = [run_index |-> runs[r].run_index, pending_count |-> runs[r].pending_count]
      /\ runs[r].run_index \in RunIndexes /\ runs[r].pending_count \in Nat
  BY <1>1
<1>3. Cut(runs, r, cut) = [runs EXCEPT ![r] = w]
  <2>1. Cut(runs, r, cut) =
          [runs EXCEPT ![r] = [runs[r] EXCEPT !.pending_count = runs[r].pending_count - cut]]
    BY DEF Cut
  <2>2. [runs[r] EXCEPT !.pending_count = runs[r].pending_count - cut] = w
    BY <1>2
  <2>3. QED
    BY <2>1, <2>2
<1>4. w \in [run_index : RunIndexes, pending_count : Nat]
  BY <1>2
<1>5. w.pending_count = runs[r].pending_count - cut /\ (cut = 0 => w = runs[r])
  BY <1>2
<1> HIDE DEF w
<1>6. /\ [runs EXCEPT ![r] = w] \in [P -> [run_index : RunIndexes, pending_count : Nat]]
      /\ [runs EXCEPT ![r] = w][r] = w
      /\ \A q \in P : q # r => [runs EXCEPT ![r] = w][q] = runs[q]
      /\ w = runs[r] => [runs EXCEPT ![r] = w] = runs
  BY <1>1, <1>4
<1>7. QED
  BY <1>3, <1>5, <1>6 DEF P, RunStates

LEMMA CutNothing ==
  ASSUME NEW s, NEW runs \in [Planes(s) -> RunSet], NEW r \in Planes(s)
  PROVE  Cut(runs, r, 0) = runs /\ runs[r].pending_count = 0
<1>1. runs \in [Planes(s) -> RunStates]
  BY DEF RunSet, RunStates
<1>2. runs[r].pending_count = 0
  BY DEF RunSet
<1>3. QED
  BY <1>1, <1>2, CutIs

LEMMA DoneIsDone ==
  ASSUME stream \in StreamParameters, NEW p \in Planes(stream)
  PROVE  p \in DoneNow <=> LineDone(stream, row, p)
BY DEF DoneNow, LineDone, LastPlane, RowDone, plane

\* The rows of a finished line are the input's.
LEMMA RowsStoredNext ==
  ASSUME OwnStream, row \in Nat, output = RowsStored(stream, image, row),
         output' = [p \in Planes(stream) |->
                      IF p \in DoneNow THEN Append(output[p], StoredRow(p)) ELSE output[p]],
         \A q \in Planes(stream) :
           LineDone(stream, row, q) => RowOf(stream, dec.lines, q) = image[q][RowLine(stream, row)]
  PROVE  output' = RowsStored(stream, image, row + 1)
<1>1. SUFFICES ASSUME NEW p \in Planes(stream)
               PROVE  (IF p \in DoneNow THEN Append(output[p], StoredRow(p)) ELSE output[p]) =
                        [j \in 1..RowsOut(stream, row + 1, p) |-> image[p][j]]
  BY DEF RowsStored
<1> DEFINE n == RowsOut(stream, row, p)
           f == image[p]
<1>2. output[p] = [j \in 1..n |-> f[j]]
  BY DEF RowsStored
<1>3. p \in DoneNow <=> LineDone(stream, row, p)
  BY DoneIsDone DEF OwnStream
<1>4. /\ LineDone(stream, row, p) =>
           n = RowLine(stream, row) - 1 /\ RowsOut(stream, row + 1, p) = RowLine(stream, row)
      /\ ~LineDone(stream, row, p) => RowsOut(stream, row + 1, p) = n
  BY RowsOutNext DEF OwnStream
<1>5. CASE LineDone(stream, row, p)
  <2>1. StoredRow(p) = f[RowLine(stream, row)]
    BY <1>5, StoredRowIs DEF OwnStream
  <2>2. RowLine(stream, row) \in Nat /\ RowLine(stream, row) >= 1
    BY RgbRow, PlanarRow DEF OwnStream
  <2>3. n \in Nat /\ RowLine(stream, row) = n + 1
    BY <1>4, <1>5, <2>2
  <2> HIDE DEF n, f
  <2>4. Append([j \in 1..n |-> f[j]], f[n + 1]) = [j \in 1..(n + 1) |-> f[j]]
    BY <2>3, AppendNext
  <2>5. QED
    BY <1>2, <1>3, <1>4, <1>5, <2>1, <2>3, <2>4 DEF f
<1>6. CASE ~LineDone(stream, row, p)
  BY <1>2, <1>3, <1>4, <1>6
<1>7. QED
  BY <1>5, <1>6

\* A row ends as it ended in the encoder, and is stored as it was.
LEMMA OwnLine ==
  ASSUME OwnStream, NEW N, NEW tr, FollowsNow(N, tr), DecodeLineEnd,
         output = RowsStored(stream, image, row)
  PROVE  FollowsNow(N, tr)' /\ output' = RowsStored(stream, image, row')
<1>1. row < Rows(stream) /\ x = stream.width
  BY DEF DecodeLineEnd
<1>2. run = "none"
  <2>1. run # "none" => x < stream.width
    BY FollowsHow DEF FollowsNow, OwnStream
  <2>2. stream.width \in Nat
    BY StreamParts DEF OwnStream
  <2>3. QED
    BY <1>1, <2>1, <2>2
<1>3. Follows(stream, image, coded, N, tr, row, x, "none", dec, position)
  BY <1>2 DEF FollowsNow
<1>4. /\ Follows(stream, image, coded, N, tr, row + 1, 0, "none", AfterLine(stream, row, dec), position)
      /\ \A q \in Planes(stream) :
           LineDone(stream, row, q) => RowOf(stream, dec.lines, q) = image[q][RowLine(stream, row)]
  BY <1>1, <1>3, FollowsLine DEF OwnStream
<1>5. IsState(dec) /\ dec.runs \in [Planes(stream) -> RunSet]
  BY <1>3, FollowsNone DEF OwnStream
<1>6. row \in Nat
  <2>1. PICK n \in 0..N : tr[n].row = row
    BY DEF FollowsNow, Follows
  <2>2. Good(stream, image, tr[n])
    BY <2>1 DEF FollowsNow, Follows, Trace
  <2>3. QED
    BY <2>1, <2>2 DEF Good
<1>7. RunBank(stream, plane) \in Planes(stream)
  BY <1>1, <1>6, RowPlaces, BankType DEF OwnStream, plane
<1>8. /\ LineEnds(stream, RunBank(stream, plane), CutNow, dec, DoneNow, dec')
      /\ output' = [p \in Planes(stream) |->
                      IF p \in DoneNow THEN Append(output[p], StoredRow(p)) ELSE output[p]]
      /\ row' = row + 1 /\ x' = 0
      /\ UNCHANGED <<slices, run, coded, position>>
  BY <1>5, DecodeLineEndParts
<1>9. /\ Cut(dec.runs, RunBank(stream, plane), 0) = dec.runs
      /\ dec.runs[RunBank(stream, plane)].pending_count = 0
  BY <1>5, <1>7, CutNothing
<1>10. CutNow = 0
  BY <1>9 DEF CutNow, RunState
<1>11. dec' = AfterLine(stream, row, dec)
  <2>1. dec' = [lines |-> [p \in Planes(stream) |->
                             IF p \in DoneNow THEN SwapLines(dec.lines[p]) ELSE dec.lines[p]],
                contexts |-> dec.contexts, runs |-> dec.runs]
    BY <1>8, <1>9, <1>10 DEF LineEnds
  <2>2. \A p \in Planes(stream) : p \in DoneNow <=> LineDone(stream, row, p)
    BY DoneIsDone DEF OwnStream
  <2>3. QED
    BY <2>1, <2>2 DEF AfterLine
<1>12. FollowsNow(N, tr)'
  BY <1>2, <1>4, <1>8, <1>11 DEF FollowsNow, slices
<1>13. output' = RowsStored(stream, image, row + 1)
  BY <1>4, <1>6, <1>8, RowsStoredNext
<1>14. QED
  BY <1>8, <1>12, <1>13

-----------------------------------------------------------------------------
(***************************************************************************)
(* The actions of the encoder.                                             *)
(***************************************************************************)
\* byte_align_zero writes what byte_align skips.
LEMMA AlignedIs ==
  ASSUME NEW bits \in Seq({0, 1})
  PROVE  /\ \E more \in Seq({0, 1}) : Aligned(bits) = bits \o more
         /\ Len(Aligned(bits)) = AlignedPosition(Len(bits))
<1>1. Len(bits) \in Nat
  BY LenProperties
<1>2. CASE Len(bits) % 8 = 0
  <2>1. Aligned(bits) = bits /\ AlignedPosition(Len(bits)) = Len(bits)
    BY <1>2 DEF Aligned, AlignedPosition
  <2>2. bits \o <<>> = bits /\ <<>> \in Seq({0, 1})
    OBVIOUS
  <2>3. QED
    BY <2>1, <2>2
<1>3. CASE Len(bits) % 8 # 0
  <2> DEFINE w == 8 - (Len(bits) % 8)
             more == BitsOf(0, w)
  <2>1. Len(bits) % 8 \in 0..7
    <3>1. 8 \in Nat /\ 8 > 0
      OBVIOUS
    <3>2. Len(bits) % 8 \in 0..(8 - 1)
      BY <1>1, <3>1, Remainder
    <3>3. QED
      BY <3>2
  <2>2. w \in Nat
    BY <2>1
  <2>3. Aligned(bits) = bits \o more
    BY <1>3 DEF Aligned
  <2> HIDE DEF w
  <2>4. more \in Seq({0, 1}) /\ Len(more) = w
    BY <2>2, BitsOfType
  <2> HIDE DEF more
  <2>5. Len(bits \o more) = Len(bits) + w
    BY <2>4, JoinedBits
  <2>6. AlignedPosition(Len(bits)) = Len(bits) + w
    <3>1. AlignedPosition(Len(bits)) = Len(bits) + 8 - (Len(bits) % 8)
      BY <1>3 DEF AlignedPosition
    <3> DEFINE n == Len(bits)
               m == n % 8
    <3>2. n \in Nat /\ m \in Int
      BY <1>1, <2>1
    <3> HIDE DEF n, m
    <3>3. n + 8 - m = n + (8 - m)
      BY <3>2
    <3>4. QED
      BY <3>1, <3>3 DEF n, m, w
  <2>7. QED
    BY <2>3, <2>4, <2>5, <2>6
<1>4. QED
  BY <1>2, <1>3

\* The encoder has coded the rows and samples before its place.
OwnEncoding == run = "none" /\ Reached(stream, image, coded, row, x, enc, dec)

\* The decoder follows the encoder, through the bits that it wrote.
OwnDecoding ==
  /\ coded \in Seq(Codes(stream))
  /\ \E N, tr : /\ FollowsNow(N, tr) /\ tr[N].state = enc
                /\ stream.golomb => Len(coded) = AlignedPosition(tr[N].position)
  /\ output = RowsStored(stream, image, row)

OwnDone ==
  /\ output = image /\ enc.contexts = dec.contexts /\ enc.runs = dec.runs
  /\ GoodContexts(stream, enc.contexts)

LEMMA EncodePiece ==
  ASSUME OwnStream, OwnEncoding, InRow, NEW t, IsNode(t, row, x, enc),
         NEW piece, PieceAt(stream, image, t, piece), Emit(piece)
  PROVE  OwnEncoding'
<1>1. row < Rows(stream) /\ x < stream.width
  BY DEF InRow
<1>2. Reached(stream, image, coded, row, x, enc, dec)
  BY DEF OwnEncoding
<1>3. Reached(stream, image, coded \o piece.code, row, piece.until, piece.state, dec)
  BY <1>1, <1>2, ReachedPiece DEF OwnStream
<1>4. QED
  BY <1>3 DEF OwnEncoding, Emit, slices

LEMMA OwnEncode ==
  ASSUME OwnStream, OwnEncoding, EncodeSample \/ EncodeScalar \/ EncodeRun
  PROVE  OwnEncoding'
<1> DEFINE t == [row |-> row, x |-> x, state |-> enc]
<1>1. IsNode(t, row, x, enc) /\ t.row = row /\ t.x = x /\ t.state = enc
  BY DEF IsNode
<1>2. Samples = RowSamples(stream, image, row) /\ plane = RowPlane(stream, row)
  BY DEF Samples, RowSamples, plane, y
<1>3. AtRunStart <=> RunStart(stream, t)
  BY <1>1 DEF AtRunStart, RunStart, LineAt, plane
<1> HIDE DEF t
<1>4. CASE EncodeSample
  <2> DEFINE piece == SamplePiece(stream, plane, Samples, x + 1, enc)
  <2>1. InRow /\ ~stream.golomb /\ Emit(piece)
    BY <1>4 DEF EncodeSample
  <2>2. PieceAt(stream, image, t, piece)
    BY <1>1, <1>2, <2>1 DEF PieceAt
  <2> HIDE DEF piece
  <2>3. QED
    BY <1>1, <2>1, <2>2, EncodePiece
<1>5. CASE EncodeScalar
  <2> DEFINE piece == SymbolPiece(stream, plane, Samples, x + 1, enc, FALSE)
  <2>1. InRow /\ stream.golomb /\ ~AtRunStart /\ Emit(piece)
    BY <1>5 DEF EncodeScalar
  <2>2. PieceAt(stream, image, t, piece)
    BY <1>1, <1>2, <1>3, <2>1 DEF PieceAt
  <2> HIDE DEF piece
  <2>3. QED
    BY <1>1, <2>1, <2>2, EncodePiece
<1>6. CASE EncodeRun
  <2> DEFINE piece == RunPiece(stream, plane, Samples, x + 1, enc)
  <2>1. InRow /\ stream.golomb /\ AtRunStart /\ Emit(piece)
    BY <1>6 DEF EncodeRun
  <2>2. PieceAt(stream, image, t, piece)
    BY <1>1, <1>2, <1>3, <2>1 DEF PieceAt
  <2> HIDE DEF piece
  <2>3. QED
    BY <1>1, <2>1, <2>2, EncodePiece
<1>7. QED
  BY <1>4, <1>5, <1>6

LEMMA OwnEncodeLine ==
  ASSUME OwnStream, OwnEncoding, EncodeLineEnd
  PROVE  OwnEncoding'
<1>1. row < Rows(stream) /\ x = stream.width
  BY DEF EncodeLineEnd
<1>2. Reached(stream, image, coded, row, x, enc, dec)
  BY DEF OwnEncoding
<1> DEFINE p == RowPlane(stream, row)
           new == Changed(enc, p, SwapLines(LineAt(stream, row, enc)), enc.contexts, enc.runs)
<1>3. Reached(stream, image, coded, row + 1, 0, new, dec)
  BY <1>1, <1>2, ReachedLine DEF OwnStream
<1>4. IsState(enc)
  BY <1>2, ReachedGood DEF OwnStream, GoodState
<1>5. enc' = [enc EXCEPT !.lines[p] = SwapLines(@)]
  BY DEF EncodeLineEnd, plane
<1>6. new = Changed(enc, p, SwapLines(enc.lines[p]), enc.contexts, enc.runs)
  BY DEF LineAt
<1> HIDE DEF p, new
<1>7. [enc EXCEPT !.lines[p] = SwapLines(@)] =
        Changed(enc, p, SwapLines(enc.lines[p]), enc.contexts, enc.runs)
  BY <1>4, SwapIs
<1>8. enc' = new
  BY <1>5, <1>6, <1>7
<1>9. QED
  BY <1>3, <1>8 DEF OwnEncoding, EncodeLineEnd, slices

-----------------------------------------------------------------------------
(***************************************************************************)
(* From the encoder to the decoder, and to the next frame.                 *)
(***************************************************************************)
\* Nothing is stored before the first row.
LEMMA NothingStored ==
  ASSUME NEW s \in StreamParameters, NEW img
  PROVE  RowsStored(s, img, 0) = Blank(s)
<1>1. ASSUME NEW p \in Planes(s)
      PROVE  [j \in 1..RowsOut(s, 0, p) |-> img[p][j]] = <<>>
  <2>1. RowsOut(s, 0, p) = 0
    BY RowsOutEnds
  <2> DEFINE f == img[p]
  <2> HIDE DEF f
  <2>2. [j \in 1..0 |-> f[j]] = <<>>
    OBVIOUS
  <2>3. QED
    BY <2>1, <2>2 DEF f
<1>2. QED
  BY <1>1 DEF RowsStored, Blank

\* Behind the last row the whole image is stored.
LEMMA AllStored ==
  ASSUME NEW s \in StreamParameters, NEW img \in Pictures(s)
  PROVE  RowsStored(s, img, Rows(s)) = img
<1>1. ASSUME NEW p \in Planes(s)
      PROVE  [j \in 1..RowsOut(s, Rows(s), p) |-> img[p][j]] = img[p]
  <2>1. RowsOut(s, Rows(s), p) = s.height
    BY RowsOutEnds
  <2>2. img[p] = [j \in 1..s.height |-> img[p][j]]
    BY DEF Pictures
  <2>3. QED
    BY <2>1, <2>2
<1>2. img = [p \in Planes(s) |-> img[p]]
  BY DEF Pictures
<1>3. RowsStored(s, img, Rows(s)) = [p \in Planes(s) |-> img[p]]
  BY <1>1 DEF RowsStored
<1>4. QED
  BY <1>2, <1>3

\* The decoder starts where the encoder started, with all the bits there.
LEMMA OwnEncodeEnd ==
  ASSUME OwnStream, OwnEncoding, EncodeEnd
  PROVE  OwnDecoding'
<1> DEFINE s == stream
<1>1. row = Rows(s) /\ coded' = (IF s.golomb THEN Aligned(coded) ELSE coded)
      /\ row' = 0 /\ x' = 0 /\ run' = "none" /\ position' = 0 /\ output' = Blank(s)
      /\ UNCHANGED <<slices, enc, dec>>
  BY DEF EncodeEnd, StartDecoder
<1>2. coded \in Seq(Codes(s))
  BY DEF OwnEncoding, Reached
<1>3. PICK N, tr : /\ Trace(s, image, coded, N, tr) /\ Starts(tr, dec)
                   /\ IsNode(tr[N], row, x, enc) /\ tr[N].position = Len(coded)
  BY DEF OwnEncoding, Reached
<1>4. \E more \in Seq(Codes(s)) : coded' = coded \o more
  <2>1. CASE s.golomb
    <3>1. coded \in Seq({0, 1})
      BY <1>2, <2>1 DEF Codes
    <3>2. \E more \in Seq({0, 1}) : Aligned(coded) = coded \o more
      BY <3>1, AlignedIs
    <3>3. QED
      BY <1>1, <2>1, <3>2 DEF Codes
  <2>2. CASE ~s.golomb
    <3> DEFINE T == Codes(s)
    <3> HIDE DEF T
    <3>1. coded \o <<>> = coded /\ <<>> \in Seq(T)
      BY <1>2 DEF T
    <3>2. QED
      BY <1>1, <2>2, <3>1 DEF T
  <2>3. QED
    BY <2>1, <2>2
<1>5. PICK more \in Seq(Codes(s)) : coded' = coded \o more
  BY <1>4
<1>6. coded \o more \in Seq(Codes(s))
  <2> DEFINE T == Codes(s)
  <2> HIDE DEF T
  <2>1. coded \in Seq(T) /\ more \in Seq(T)
    BY <1>2, <1>5 DEF T
  <2>2. coded \o more \in Seq(T)
    BY <2>1, ConcatProperties
  <2>3. QED
    BY <2>2 DEF T
<1>7. Trace(s, image, coded \o more, N, tr)
  BY <1>2, <1>3, <1>5, TraceLonger DEF OwnStream
<1>8. tr[N].row = Rows(s) /\ tr[N].state = enc
  BY <1>1, <1>3 DEF IsNode
<1>9. Follows(s, image, coded', N, tr, 0, 0, "none", dec, 0)
  BY <1>3, <1>5, <1>7, <1>8, FollowsStart DEF OwnStream
<1>10. FollowsNow(N, tr)'
  BY <1>1, <1>9 DEF FollowsNow, slices
<1>11. s.golomb => Len(coded') = AlignedPosition(tr[N].position)
  BY <1>1, <1>2, <1>3, AlignedIs DEF Codes
<1>12. output' = RowsStored(s, image, 0)
  BY <1>1, NothingStored DEF OwnStream
<1>13. stream' = s /\ image' = image /\ enc' = enc /\ tr[N].state = enc'
  BY <1>1, <1>8 DEF slices
<1>14. coded' \in Seq(Codes(s))
  BY <1>5, <1>6
<1>15. QED
  BY <1>1, <1>10, <1>11, <1>12, <1>13, <1>14 DEF OwnDecoding

\* The decoder ends with all the bits read, and with what the encoder has adapted.
LEMMA OwnDecodeEnd ==
  ASSUME OwnStream, OwnDecoding, DecodeEnd
  PROVE  pc' = "next" /\ OwnDone'
<1> DEFINE s == stream
<1>1. PICK N, tr : /\ FollowsNow(N, tr) /\ tr[N].state = enc
                   /\ s.golomb => Len(coded) = AlignedPosition(tr[N].position)
  BY DEF OwnDecoding
<1>2. row = Rows(s) /\ pc' = (IF s.golomb /\ AlignedPosition(position) # Len(coded)
                              THEN "refused" ELSE "next")
      /\ UNCHANGED <<slices, enc, dec, output>>
  BY DEF DecodeEnd
<1>3. run = "none"
  <2>1. run # "none" => row < Rows(s)
    BY <1>1, FollowsHow DEF FollowsNow, OwnStream
  <2>2. Rows(s) \in Nat
    BY RowsAre DEF OwnStream
  <2>3. QED
    BY <1>2, <2>1, <2>2
<1>4. Follows(s, image, coded, N, tr, row, x, "none", dec, position)
  BY <1>1, <1>3 DEF FollowsNow
<1>5. /\ position = tr[N].position /\ GoodState(s, enc)
      /\ dec.contexts = enc.contexts /\ dec.runs = enc.runs
  BY <1>1, <1>2, <1>4, FollowsEnd DEF OwnStream
<1>6. output = image
  BY <1>2, AllStored DEF OwnDecoding, OwnStream
<1>7. GoodContexts(s, enc.contexts)
  BY <1>5 DEF GoodState
<1>8. QED
  BY <1>1, <1>2, <1>5, <1>6, <1>7 DEF OwnDone, slices

LEMMA NewStateGood ==
  ASSUME NEW s \in StreamParameters, NEW state, GoodContexts(s, state.contexts)
  PROVE  GoodState(s, StartSlice(state, s))
<1> DEFINE lines == [p \in Planes(s) |-> ResetLine(s.width, 0)]
           runs == [p \in Planes(s) |-> NewRun]
           contexts == [b \in 0..2 |-> [c \in 0..(s.context_count - 1) |-> NewContext]]
           new == [lines |-> lines, contexts |-> state.contexts, runs |-> runs]
<1>1. NewState(s) = [lines |-> lines, contexts |-> contexts, runs |-> runs]
  BY DEF NewState
<1>2. StartSlice(state, s) = [NewState(s) EXCEPT !.contexts = state.contexts]
  BY DEF StartSlice
<1>3. GoodLines(s, lines)
  BY NewLineType DEF GoodLines
<1>4. runs \in [Planes(s) -> RunSet]
  BY DEF RunSet, NewRun, RunIndexes
<1> HIDE DEF lines, runs, contexts
<1>5. StartSlice(state, s) = new
  BY <1>1, <1>2
<1>6. new.lines = lines /\ new.contexts = state.contexts /\ new.runs = runs /\ IsState(new)
  BY StateParts
<1> HIDE DEF new
<1>7. QED
  BY <1>3, <1>4, <1>5, <1>6 DEF GoodState

LEMMA NewContextsGood ==
  ASSUME NEW s \in StreamParameters
  PROVE  GoodContexts(s, NewState(s).contexts) /\ StartSlice(NewState(s), s) = NewState(s)
<1> DEFINE lines == [p \in Planes(s) |-> ResetLine(s.width, 0)]
           runs == [p \in Planes(s) |-> NewRun]
           contexts == [b \in 0..2 |-> [c \in 0..(s.context_count - 1) |-> NewContext]]
<1>1. NewState(s) = [lines |-> lines, contexts |-> contexts, runs |-> runs]
  BY DEF NewState
<1>2. InBounds(NewContext, HalfOf(s, 1))
  BY CodedDepth, NewContextBounds
<1>3. NewContext \in ContextState
  BY <1>2 DEF InBounds
<1>4. GoodContexts(s, contexts)
  BY <1>2, <1>3 DEF GoodContexts
<1>5. StartSlice(NewState(s), s) = [NewState(s) EXCEPT !.contexts = NewState(s).contexts]
  BY DEF StartSlice
<1> HIDE DEF lines, runs, contexts
<1>6. QED
  BY <1>1, <1>4, <1>5

-----------------------------------------------------------------------------
(***************************************************************************)
(* The invariant of slices of our own.                                     *)
(***************************************************************************)
\* One's own slices, from the first sample that is coded to the last that is stored.
OwnSlices ==
  ~foreign =>
    /\ OwnStream
    /\ pc \in {"encode", "decode", "next"}
    /\ pc = "encode" => OwnEncoding
    /\ pc = "decode" => OwnDecoding
    /\ pc = "next" => OwnDone

LEMMA StreamIsOwn ==
  ASSUME stream \in Streams
  PROVE  /\ stream \in StreamParameters /\ FitsContexts(stream)
         /\ Images[stream] \subseteq Pictures(stream)
         /\ LaterImages[stream] \subseteq Pictures(stream)
BY SampleAssumption

LEMMA OwnInitial == Init => OwnSlices
<1>1. SUFFICES ASSUME Init
               PROVE  OwnSlices
  OBVIOUS
<1>2. /\ stream \in Streams /\ image \in Images[stream] /\ pc = "encode"
      /\ row = 0 /\ x = 0 /\ run = "none" /\ coded = <<>>
      /\ enc = NewState(stream) /\ dec = NewState(stream)
  BY <1>1 DEF Init
<1>3. OwnStream
  BY <1>2, StreamIsOwn DEF OwnStream
<1>4. GoodState(stream, NewState(stream))
  <2>1. /\ GoodContexts(stream, NewState(stream).contexts)
        /\ StartSlice(NewState(stream), stream) = NewState(stream)
    BY <1>3, NewContextsGood DEF OwnStream
  <2>2. GoodState(stream, StartSlice(NewState(stream), stream))
    BY <1>3, <2>1, NewStateGood DEF OwnStream
  <2>3. QED
    BY <2>1, <2>2
<1>5. Reached(stream, image, <<>>, 0, 0, dec, dec)
  BY <1>2, <1>3, <1>4, ReachedStart DEF OwnStream
<1>6. OwnEncoding
  BY <1>2, <1>5 DEF OwnEncoding
<1>7. QED
  BY <1>2, <1>3, <1>6 DEF OwnSlices

\* The next frame starts from the same contexts on both sides.
LEMMA OwnNextFrame ==
  ASSUME OwnStream, stream \in Streams, OwnDone, NextFrame
  PROVE  OwnStream' /\ OwnEncoding' /\ pc' = "encode"
<1>1. /\ image' \in LaterImages[stream] /\ pc' = "encode"
      /\ row' = 0 /\ x' = 0 /\ run' = "none" /\ coded' = <<>>
      /\ enc' = StartSlice(enc, stream) /\ dec' = StartSlice(dec, stream)
      /\ stream' = stream
  BY DEF NextFrame
<1>2. image' \in Pictures(stream)
  BY <1>1, StreamIsOwn
<1>3. OwnStream'
  BY <1>1, <1>2 DEF OwnStream
<1>4. dec' = enc'
  BY <1>1 DEF OwnDone, StartSlice
<1>5. GoodState(stream, StartSlice(enc, stream))
  BY NewStateGood DEF OwnDone, OwnStream
<1>6. Reached(stream, image', <<>>, 0, 0, dec', dec')
  BY <1>1, <1>2, <1>4, <1>5, ReachedStart DEF OwnStream
<1>7. OwnEncoding'
  BY <1>1, <1>4, <1>6 DEF OwnEncoding
<1>8. QED
  BY <1>1, <1>3, <1>7

LEMMA OwnDecode ==
  ASSUME OwnStream, OwnDecoding,
         DecodeSample \/ DecodePending \/ DecodeSegment \/ DecodeInterruption \/ DecodeScalar
         \/ DecodeUnderflow \/ DecodeLineEnd
  PROVE  OwnDecoding' /\ pc' = pc
<1>1. PICK N, tr : /\ FollowsNow(N, tr) /\ tr[N].state = enc
                   /\ stream.golomb => Len(coded) = AlignedPosition(tr[N].position)
  BY DEF OwnDecoding
<1>2. coded \in Seq(Codes(stream)) /\ output = RowsStored(stream, image, row)
  BY DEF OwnDecoding
<1>3. ASSUME FollowsNow(N, tr)', output' = RowsStored(stream, image, row'),
             UNCHANGED <<slices, pc, enc, coded>>
      PROVE  OwnDecoding' /\ pc' = pc
  <2>1. stream' = stream /\ image' = image /\ coded' = coded /\ enc' = enc
    BY <1>3 DEF slices
  <2>2. QED
    BY <1>1, <1>2, <1>3, <2>1 DEF OwnDecoding
<1>4. CASE DecodeSample
  <2>1. FollowsNow(N, tr)'
    BY <1>1, <1>2, <1>4, OwnSample
  <2>2. QED
    BY <1>2, <1>3, <1>4, <2>1 DEF DecodeSample
<1>5. CASE DecodePending
  <2>1. Decoding /\ run = "none" /\ Pending
    BY <1>5 DEF DecodePending
  <2>2. QED
    BY <1>1, <2>1, OwnNotPending
<1>6. CASE DecodeSegment
  <2>1. Decoding /\ stream.golomb /\ AtRun /\ UNCHANGED <<slices, pc, row, enc, coded, output>>
    BY <1>6 DEF DecodeSegment
  <2>2. FollowsNow(N, tr)'
    BY <1>1, <1>2, <1>6, <2>1, OwnSegment
  <2>3. QED
    BY <1>2, <1>3, <2>1, <2>2
<1>7. CASE DecodeInterruption
  <2>1. Decoding /\ stream.golomb /\ run = "interrupted" /\ TakeSymbol
    BY <1>7 DEF DecodeInterruption
  <2>2. FollowsNow(N, tr)'
    BY <1>1, <1>2, <2>1, OwnInterruption
  <2>3. QED
    BY <1>2, <1>3, <2>1, <2>2 DEF TakeSymbol
<1>8. CASE DecodeScalar
  <2>1. Decoding /\ stream.golomb /\ AtScalar /\ TakeSymbol
    BY <1>8 DEF DecodeScalar
  <2>2. FollowsNow(N, tr)'
    BY <1>1, <1>2, <2>1, OwnScalar
  <2>3. QED
    BY <1>2, <1>3, <2>1, <2>2 DEF TakeSymbol
<1>9. CASE DecodeUnderflow
  <2>1. /\ Decoding /\ stream.golomb
        /\ \/ AtRun /\ ~SegmentThere(coded, position, RunState)
           \/ (run = "interrupted" \/ AtScalar) /\ ~SymbolThere
    BY <1>9 DEF DecodeUnderflow
  <2>2. AtRun => SegmentThere(coded, position, RunState)
    BY <1>1, <1>2, <2>1, OwnSegment
  <2>3. run = "interrupted" => SymbolThere
    BY <1>1, <1>2, <2>1, OwnInterruption
  <2>4. AtScalar => SymbolThere
    BY <1>1, <1>2, <2>1, OwnScalar
  <2>5. QED
    BY <2>1, <2>2, <2>3, <2>4
<1>10. CASE DecodeLineEnd
  <2>1. FollowsNow(N, tr)' /\ output' = RowsStored(stream, image, row')
    BY <1>1, <1>2, <1>10, OwnLine
  <2>2. UNCHANGED <<slices, pc, enc, coded>>
    BY <1>10 DEF DecodeLineEnd
  <2>3. QED
    BY <1>3, <2>1, <2>2
<1>11. QED
  BY <1>4, <1>5, <1>6, <1>7, <1>8, <1>9, <1>10

\* Streams, and the bits of another encoder, which are Golomb-Rice bits.
SliceTypes ==
  /\ stream \in Streams
  /\ foreign \in BOOLEAN
  /\ foreign => stream.golomb /\ pc # "encode"

LEMMA TypesInitial == Init => SliceTypes
BY DEF Init, SliceTypes

LEMMA TypesInductive == SliceTypes /\ [Next]_vars => SliceTypes'
<1>1. SUFFICES ASSUME SliceTypes, [Next]_vars
               PROVE  SliceTypes'
  OBVIOUS
<1>2. CASE UNCHANGED vars
  BY <1>1, <1>2 DEF SliceTypes, vars, slices
<1>3. CASE EncodeSample \/ EncodeScalar \/ EncodeRun
  <2>1. PICK piece : Emit(piece)
    BY <1>3 DEF EncodeSample, EncodeScalar, EncodeRun
  <2>2. UNCHANGED <<slices, pc>>
    BY <2>1 DEF Emit
  <2>3. QED
    BY <1>1, <2>2 DEF SliceTypes, slices
<1>4. CASE EncodeLineEnd
  BY <1>1, <1>4 DEF SliceTypes, EncodeLineEnd, slices
<1>5. CASE EncodeEnd
  BY <1>1, <1>5 DEF SliceTypes, EncodeEnd, slices
<1>6. CASE TakeForeign
  <2>1. stream' = stream /\ foreign' = TRUE /\ pc' = "decode" /\ stream.golomb
    BY <1>6 DEF TakeForeign, StartDecoder
  <2>2. QED
    BY <1>1, <2>1 DEF SliceTypes
<1>7. CASE DecodeSample
  BY <1>1, <1>7 DEF SliceTypes, DecodeSample, slices
<1>8. CASE DecodePending
  BY <1>1, <1>8 DEF SliceTypes, DecodePending, slices
<1>9. CASE DecodeSegment
  <2>1. UNCHANGED <<slices, pc>>
    BY <1>9 DEF DecodeSegment
  <2>2. QED
    BY <1>1, <2>1 DEF SliceTypes, slices
<1>10. CASE DecodeInterruption \/ DecodeScalar
  <2>1. TakeSymbol
    BY <1>10 DEF DecodeInterruption, DecodeScalar
  <2>2. UNCHANGED <<slices, pc>>
    BY <2>1 DEF TakeSymbol
  <2>3. QED
    BY <1>1, <2>2 DEF SliceTypes, slices
<1>11. CASE DecodeUnderflow
  BY <1>1, <1>11 DEF SliceTypes, DecodeUnderflow, slices
<1>12. CASE DecodeLineEnd
  <2>1. UNCHANGED <<slices, pc>>
    BY <1>12 DEF DecodeLineEnd
  <2>2. QED
    BY <1>1, <2>1 DEF SliceTypes, slices
<1>13. CASE DecodeEnd
  BY <1>1, <1>13 DEF SliceTypes, DecodeEnd, slices
<1>14. CASE NextFrame
  BY <1>1, <1>14 DEF SliceTypes, NextFrame
<1>15. QED
  BY <1>1, <1>2, <1>3, <1>4, <1>5, <1>6, <1>7, <1>8, <1>9, <1>10, <1>11, <1>12, <1>13, <1>14 DEF Next

LEMMA OwnInductive ==
  ASSUME SliceTypes, OwnSlices, [Next]_vars
  PROVE  OwnSlices'
<1>1. SUFFICES ASSUME ~foreign'
               PROVE  /\ OwnStream' /\ pc' \in {"encode", "decode", "next"}
                      /\ pc' = "encode" => OwnEncoding'
                      /\ pc' = "decode" => OwnDecoding'
                      /\ pc' = "next" => OwnDone'
  BY DEF OwnSlices
<1>2. CASE UNCHANGED vars
  <2>1. OwnSlices
    OBVIOUS
  <2>2. ~foreign
    BY <1>1, <1>2 DEF vars, slices
  <2>3. QED
    BY <1>2, <2>1, <2>2
    DEF OwnSlices, OwnStream, OwnEncoding, OwnDecoding, FollowsNow, OwnDone, vars, slices
<1>3. CASE Next
  <2>1. ~foreign
    <3>1. CASE TakeForeign
      BY <1>1, <3>1 DEF TakeForeign
    <3>2. CASE ~TakeForeign
      <4>1. foreign' = foreign
        <5>1. CASE DecodeSegment
          BY <5>1 DEF DecodeSegment, slices
        <5>2. CASE DecodeInterruption \/ DecodeScalar
          <6>1. TakeSymbol
            BY <5>2 DEF DecodeInterruption, DecodeScalar
          <6>2. QED
            BY <6>1 DEF TakeSymbol, slices
        <5>3. CASE DecodeLineEnd
          BY <5>3 DEF DecodeLineEnd, slices
        <5>4. CASE EncodeSample \/ EncodeScalar \/ EncodeRun \/ EncodeLineEnd \/ EncodeEnd
          BY <5>4 DEF EncodeSample, EncodeScalar, EncodeRun, Emit, EncodeLineEnd, EncodeEnd, slices
        <5>5. CASE DecodeSample \/ DecodePending \/ DecodeUnderflow \/ DecodeEnd \/ NextFrame
          BY <5>5 DEF DecodeSample, DecodePending, DecodeUnderflow, DecodeEnd, NextFrame, slices
        <5>6. QED
          BY <1>3, <3>2, <5>1, <5>2, <5>3, <5>4, <5>5 DEF Next
      <4>2. QED
        BY <1>1, <4>1
    <3>3. QED
      BY <3>1, <3>2
  <2>2. /\ OwnStream /\ pc \in {"encode", "decode", "next"}
        /\ pc = "encode" => OwnEncoding
        /\ pc = "decode" => OwnDecoding
        /\ pc = "next" => OwnDone
    BY <2>1 DEF OwnSlices
  <2>3. stream' = stream /\ image' = image => OwnStream'
    BY <2>2 DEF OwnStream
  <2>4. CASE EncodeSample \/ EncodeScalar \/ EncodeRun
    <3>1. pc = "encode" /\ pc' = pc /\ stream' = stream /\ image' = image
      BY <2>4 DEF EncodeSample, EncodeScalar, EncodeRun, Emit, slices
    <3>2. OwnEncoding'
      BY <2>2, <2>4, <3>1, OwnEncode
    <3>3. QED
      BY <2>3, <3>1, <3>2
  <2>5. CASE EncodeLineEnd
    <3>1. pc = "encode" /\ pc' = pc /\ stream' = stream /\ image' = image
      BY <2>5 DEF EncodeLineEnd, slices
    <3>2. OwnEncoding'
      BY <2>2, <2>5, <3>1, OwnEncodeLine
    <3>3. QED
      BY <2>3, <3>1, <3>2
  <2>6. CASE EncodeEnd
    <3>1. pc = "encode" /\ pc' = "decode" /\ stream' = stream /\ image' = image
      BY <2>6 DEF EncodeEnd, StartDecoder, slices
    <3>2. OwnDecoding'
      BY <2>2, <2>6, <3>1, OwnEncodeEnd
    <3>3. QED
      BY <2>3, <3>1, <3>2
  <2>7. CASE TakeForeign
    BY <1>1, <2>7 DEF TakeForeign
  <2>8. CASE DecodeSample \/ DecodePending \/ DecodeSegment \/ DecodeInterruption \/ DecodeScalar
             \/ DecodeUnderflow \/ DecodeLineEnd
    <3>1. pc = "decode" /\ stream' = stream /\ image' = image
      <4>1. CASE DecodeSegment
        BY <4>1 DEF DecodeSegment, Decoding, slices
      <4>2. CASE DecodeInterruption \/ DecodeScalar
        <5>1. TakeSymbol /\ Decoding
          BY <4>2 DEF DecodeInterruption, DecodeScalar
        <5>2. QED
          BY <5>1 DEF TakeSymbol, Decoding, slices
      <4>3. CASE DecodeLineEnd
        BY <4>3 DEF DecodeLineEnd, slices
      <4>4. CASE DecodeSample \/ DecodePending \/ DecodeUnderflow
        BY <4>4 DEF DecodeSample, DecodePending, DecodeUnderflow, Decoding, slices
      <4>5. QED
        BY <2>8, <4>1, <4>2, <4>3, <4>4
    <3>2. OwnDecoding' /\ pc' = pc
      BY <2>2, <2>8, <3>1, OwnDecode
    <3>3. QED
      BY <2>3, <3>1, <3>2
  <2>9. CASE DecodeEnd
    <3>1. pc = "decode" /\ stream' = stream /\ image' = image
      BY <2>9 DEF DecodeEnd, slices
    <3>2. pc' = "next" /\ OwnDone'
      BY <2>2, <2>9, <3>1, OwnDecodeEnd
    <3>3. QED
      BY <2>3, <3>1, <3>2
  <2>10. CASE NextFrame
    <3>1. pc = "next" /\ stream \in Streams
      BY <2>10 DEF NextFrame, SliceTypes
    <3>2. OwnStream' /\ OwnEncoding' /\ pc' = "encode"
      BY <2>2, <2>10, <3>1, OwnNextFrame
    <3>3. QED
      BY <3>2
  <2>11. QED
    BY <1>3, <2>4, <2>5, <2>6, <2>7, <2>8, <2>9, <2>10 DEF Next
<1>4. QED
  BY <1>2, <1>3

-----------------------------------------------------------------------------
(***************************************************************************)
(* The ledger of announced, copied and pending samples, for any bits.      *)
(***************************************************************************)
\* A context that is not refused has its parameter.
LEMMA ParameterFound ==
  ASSUME NEW c, ~Refused(c)
  PROVE  DeriveK(c) \in Nat
<1> DEFINE candidates == {k \in Parameters : Suffices(c, k)}
<1>1. candidates # {} /\ candidates \in SUBSET Nat
  BY DEF Refused, Parameters
<1>2. PICK least \in candidates : \A k \in candidates : least <= k
  BY <1>1, LeastElement
<1>3. \A smaller \in 0..(least - 1) : ~Suffices(c, smaller)
  BY <1>2 DEF Parameters
<1>4. DeriveK(c) \in Parameters
  BY <1>2, <1>3 DEF DeriveK
<1>5. QED
  BY <1>4 DEF Parameters

LEMMA CodePosition ==
  ASSUME NEW bits, NEW place \in Nat, NEW k \in Nat, NEW width \in Nat
  PROVE  NextCode(bits, place, k, width).position \in Nat
<1> DEFINE zeros == Zeros(bits, place)
           start == FieldStart(zeros, place)
           field == FieldWidth(zeros, k, width)
           ones == {n \in 0..(EscapePrefix - 1) : place + n < Len(bits) /\ bits[place + n + 1] = 1}
<1>1. zeros \in Nat
  <2>1. zeros = IF ones = {} THEN EscapePrefix ELSE Min(ones)
    BY DEF Zeros
  <2>2. ones \in SUBSET Nat /\ EscapePrefix \in Nat
    BY DEF EscapePrefix
  <2> HIDE DEF ones
  <2>3. ones # {} => Min(ones) \in Nat
    BY <2>2, MinMeans
  <2>4. QED
    BY <2>1, <2>2, <2>3
<1> HIDE DEF zeros
<1>2. start \in Nat /\ field \in Nat
  BY <1>1 DEF FieldStart, FieldWidth
<1>3. NextCode(bits, place, k, width).position = start + field
  BY DEF NextCode, zeros
<1>4. QED
  BY <1>2, <1>3

\* What the segments read so far have announced is copied, or pending in the run state
\* that the current plane uses.
Ledger(s, r, how, d, promised, done) ==
  /\ IsState(d) /\ d.runs \in [Planes(s) -> RunStates]
  /\ promised \in Nat /\ done \in Nat
  /\ r < Rows(s) =>
       /\ promised = done + d.runs[RunBank(s, RowPlane(s, r))].pending_count
       /\ \A q \in Planes(s) : q # RunBank(s, RowPlane(s, r)) => d.runs[q].pending_count = 0
  /\ r = Rows(s) => promised = done /\ \A q \in Planes(s) : d.runs[q].pending_count = 0
  /\ how # "none" => r < Rows(s) /\ d.runs[RunBank(s, RowPlane(s, r))].pending_count = 0

\* A sample leaves the run states alone.
LEMMA LedgerSample ==
  ASSUME NEW s, NEW r, NEW how, NEW d, NEW promised, NEW done,
         Ledger(s, r, how, d, promised, done), NEW p, NEW i, NEW v, NEW b, NEW n, NEW c
  PROVE  /\ Ledger(s, r, how, Decoded(s, d, p, i, v), promised, done)
         /\ Ledger(s, r, "none", Decoded(s, Adapt(d, b, n, c), p, i, v), promised, done)
<1>1. IsState(d)
  BY DEF Ledger
<1> DEFINE a == Adapt(d, b, n, c)
           e == Decoded(s, d, p, i, v)
           f == Decoded(s, a, p, i, v)
           u == Reconstructed(PredictionAt(s, d.lines[p], i), v, CodedBits(s, p))
           w == Reconstructed(PredictionAt(s, a.lines[p], i), v, CodedBits(s, p))
<1>2. e = Store(d, p, i, u) /\ f = Store(a, p, i, w)
  BY DEF Decoded
<1> HIDE DEF u, w
<1>3. /\ Store(d, p, i, u) = Changed(d, p, StoredAt(d.lines[p], i, u), d.contexts, d.runs)
      /\ Store(a, p, i, w) = Changed(d, p, StoredAt(d.lines[p], i, w),
                                     PutContext(d.contexts, b, n, c), d.runs)
  BY <1>1, StoreIs DEF a
<1> HIDE DEF a, e, f
<1>4. IsState(e) /\ e.runs = d.runs /\ IsState(f) /\ f.runs = d.runs
  BY <1>2, <1>3, ChangedParts
<1>5. Ledger(s, r, how, e, promised, done) /\ Ledger(s, r, "none", f, promised, done)
  BY <1>4 DEF Ledger
<1>6. QED
  BY <1>5 DEF e, f, a

\* A segment: what it announces is what it copies and what it leaves.
LEMMA LedgerSegment ==
  ASSUME NEW s \in StreamParameters, NEW r, r < Rows(s), NEW how, NEW d, NEW promised, NEW done,
         Ledger(s, r, how, d, promised, done), RunBank(s, RowPlane(s, r)) \in Planes(s),
         NEW line, NEW p, NEW count \in Nat, NEW v \in RunStates,
         NEW more \in Nat, NEW after,
         d.runs[RunBank(s, RowPlane(s, r))].pending_count + more = count + v.pending_count,
         after # "none" => v.pending_count = 0
  PROVE  Ledger(s, r, after,
                Changed(d, p, line, d.contexts, Put(d.runs, RunBank(s, RowPlane(s, r)), v)),
                promised + more, done + count)
<1> DEFINE P == Planes(s)
           b == RunBank(s, RowPlane(s, r))
           runs == Put(d.runs, b, v)
           new == Changed(d, p, line, d.contexts, runs)
<1>1. /\ d.runs \in [P -> RunStates] /\ promised \in Nat /\ done \in Nat
      /\ promised = done + d.runs[b].pending_count
      /\ \A q \in P : q # b => d.runs[q].pending_count = 0
  BY DEF Ledger
<1>2. b \in P
  OBVIOUS
<1>3. d.runs[b].pending_count + more = count + v.pending_count
  OBVIOUS
<1> HIDE DEF P, b
<1>4. runs = [d.runs EXCEPT ![b] = v]
  BY DEF Put
<1>5. runs \in [P -> RunStates] /\ runs[b] = v /\ \A q \in P : q # b => runs[q] = d.runs[q]
  BY <1>1, <1>2, <1>4
<1> HIDE DEF runs
<1>6. IsState(new) /\ new.runs = runs
  BY ChangedParts
<1> HIDE DEF new
<1>7. d.runs[b].pending_count \in Nat /\ v.pending_count \in Nat
  BY <1>1, <1>2 DEF RunStates
<1>8. promised + more = (done + count) + new.runs[b].pending_count
  <2> DEFINE old == d.runs[b].pending_count
             left == v.pending_count
  <2>1. /\ old \in Nat /\ left \in Nat /\ promised = done + old /\ old + more = count + left
    BY <1>1, <1>3, <1>7
  <2> HIDE DEF old, left
  <2>2. promised + more = (done + count) + left
    BY <1>1, <2>1
  <2>3. QED
    BY <1>5, <1>6, <2>2 DEF left
<1>9. \A q \in P : q # b => new.runs[q].pending_count = 0
  BY <1>1, <1>5, <1>6
<1>10. promised + more \in Nat /\ done + count \in Nat
  BY <1>1
<1>11. after # "none" => new.runs[b].pending_count = 0
  BY <1>5, <1>6
<1>12. r # Rows(s)
  <2>1. Rows(s) \in Nat
    BY RowsAre
  <2>2. QED
    BY <2>1
<1>13. Ledger(s, r, after, new, promised + more, done + count)
  BY <1>5, <1>6, <1>8, <1>9, <1>10, <1>11, <1>12 DEF Ledger, P, b
<1>14. QED
  BY <1>13 DEF new, runs, b

\* A plane keeps its run state from one of its rows to the next.
LEMMA BankKept ==
  ASSUME stream \in StreamParameters, row \in Nat, row < Rows(stream), ~LastLine
  PROVE  /\ row + 1 < Rows(stream)
         /\ RunBank(stream, RowPlane(stream, row + 1)) = RunBank(stream, RowPlane(stream, row))
<1>1. row + 1 # Rows(stream) /\ (stream.rgb \/ RowLine(stream, row) # stream.height)
  BY DEF LastLine, y
<1>2. row + 1 < Rows(stream)
  <2>1. Rows(stream) \in Nat
    BY RowsAre
  <2>2. QED
    BY <1>1, <2>1
<1>3. CASE stream.rgb
  BY <1>2, <1>3 DEF RunBank
<1>4. CASE ~stream.rgb
  <2>1. RowPlane(stream, row + 1) = RowPlane(stream, row)
    BY <1>1, <1>4, PlanarRow
  <2>2. QED
    BY <1>2, <2>1
<1>5. QED
  BY <1>3, <1>4

\* The end of a row: what is pending stays for the next row, or is cut with the plane.
LEMMA LedgerLine ==
  ASSUME stream \in StreamParameters, row \in Nat, row < Rows(stream), run = "none",
         Ledger(stream, row, run, dec, announced, copied),
         LineEnds(stream, RunBank(stream, plane), CutNow, dec, DoneNow, dec')
  PROVE  Ledger(stream, row + 1, "none", dec', announced - CutNow, copied)
<1> DEFINE P == Planes(stream)
           b == RunBank(stream, RowPlane(stream, row))
           c == RunBank(stream, RowPlane(stream, row + 1))
           cut == CutNow
           pending == dec.runs[b].pending_count
           runs == Cut(dec.runs, b, cut)
<1>1. /\ dec.runs \in [P -> RunStates] /\ announced \in Nat /\ copied \in Nat
      /\ announced = copied + pending
      /\ \A q \in P : q # b => dec.runs[q].pending_count = 0
  BY DEF Ledger
<1>2. b \in P
  BY RowPlaces, BankType
<1>3. row + 1 < Rows(stream) => c \in P
  <2>1. ASSUME row + 1 < Rows(stream)
        PROVE  c \in P
    <3>1. row + 1 \in Nat
      OBVIOUS
    <3> DEFINE next == row + 1
    <3> HIDE DEF next
    <3>2. RowPlane(stream, next) \in P
      BY <2>1, <3>1, RowPlaces DEF next
    <3>3. QED
      BY <3>2, BankType DEF next
  <2>2. QED
    BY <2>1
<1>4. b = RunBank(stream, plane)
  BY DEF plane
<1>5. cut = IF LastLine THEN pending ELSE 0
  BY <1>4 DEF CutNow, RunState
<1>6. pending \in Nat
  BY <1>1, <1>2 DEF RunStates
<1>7. dec' = [lines |-> [p \in P |-> IF p \in DoneNow THEN SwapLines(dec.lines[p]) ELSE dec.lines[p]],
              contexts |-> dec.contexts, runs |-> runs]
  BY <1>4 DEF LineEnds
<1>8. IsState(dec') /\ dec'.runs = runs
  <2> DEFINE lines == [p \in P |-> IF p \in DoneNow THEN SwapLines(dec.lines[p]) ELSE dec.lines[p]]
             contexts == dec.contexts
  <2> HIDE DEF lines, contexts, runs
  <2>1. dec' = [lines |-> lines, contexts |-> contexts, runs |-> runs]
    BY <1>7 DEF lines, contexts
  <2>2. QED
    BY <2>1, StateParts
<1>9. ~LastLine => row + 1 < Rows(stream) /\ c = b
  BY BankKept
<1> HIDE DEF P, b, c, cut
<1>10. cut \in Nat /\ cut <= pending
  BY <1>5, <1>6
<1>11. /\ runs \in [P -> RunStates] /\ runs[b].pending_count = pending - cut
       /\ \A q \in P : q # b => runs[q] = dec.runs[q]
  BY <1>1, <1>2, <1>10, CutIs DEF P
<1>12. \A q \in P : q # b => runs[q].pending_count = 0
  BY <1>1, <1>11
<1> HIDE DEF runs, pending
<1>13. announced - cut \in Nat /\ announced - cut = copied + (pending - cut)
  BY <1>1, <1>6, <1>10
<1>14. LastLine => /\ announced - cut = copied
                   /\ \A q \in P : runs[q].pending_count = 0
  <2>1. ASSUME LastLine
        PROVE  announced - cut = copied /\ \A q \in P : runs[q].pending_count = 0
    <3>1. pending - cut = 0
      BY <1>5, <1>6, <2>1
    <3>2. QED
      BY <1>1, <1>11, <1>12, <1>13, <3>1
  <2>2. QED
    BY <2>1
<1>15. row + 1 < Rows(stream) =>
         /\ announced - cut = copied + runs[c].pending_count
         /\ \A q \in P : q # c => runs[q].pending_count = 0
  <2>1. ASSUME row + 1 < Rows(stream)
        PROVE  /\ announced - cut = copied + runs[c].pending_count
               /\ \A q \in P : q # c => runs[q].pending_count = 0
    <3>1. CASE LastLine
      BY <1>1, <1>3, <1>14, <2>1, <3>1
    <3>2. CASE ~LastLine
      BY <1>9, <1>11, <1>12, <1>13, <3>2
    <3>3. QED
      BY <3>1, <3>2
  <2>2. QED
    BY <2>1
<1>16. row + 1 = Rows(stream) =>
         announced - cut = copied /\ \A q \in P : runs[q].pending_count = 0
  <2>1. row + 1 = Rows(stream) => LastLine
    BY DEF LastLine
  <2>2. QED
    BY <1>14, <2>1
<1>17. QED
  BY <1>1, <1>8, <1>11, <1>13, <1>15, <1>16 DEF Ledger, P, c, cut

-----------------------------------------------------------------------------
(***************************************************************************)
(* The actions of the decoder keep the ledger.                             *)
(***************************************************************************)
RunsNow ==
  /\ row \in Nat /\ row <= Rows(stream)
  /\ x \in Nat /\ x <= stream.width
  /\ position \in Nat
  /\ stream.golomb => coded \in Seq({0, 1})
  /\ ~stream.golomb => run = "none"
  /\ run # "none" => x < stream.width
  /\ Ledger(stream, row, run, dec, announced, copied)

LEMMA RunsFacts ==
  ASSUME stream \in StreamParameters, RunsNow, Decoding
  PROVE  /\ row \in Nat /\ row < Rows(stream) /\ x \in Nat /\ x < stream.width
         /\ stream.width \in Nat /\ stream.width < RowLimit
         /\ plane = RowPlane(stream, row) /\ RunBank(stream, plane) \in Planes(stream)
         /\ IsState(dec) /\ RunState = dec.runs[RunBank(stream, plane)] /\ RunState \in RunStates
<1>1. row \in Nat /\ x \in Nat /\ row < Rows(stream) /\ x < stream.width
  BY DEF RunsNow, Decoding, InRow
<1>2. RowPlane(stream, row) \in Planes(stream)
  BY <1>1, RowPlaces
<1>3. RunBank(stream, plane) \in Planes(stream)
  BY <1>2, BankType DEF plane
<1>4. IsState(dec) /\ dec.runs \in [Planes(stream) -> RunStates]
  BY DEF RunsNow, Ledger
<1>5. stream.width \in Nat /\ stream.width < RowLimit
  BY StreamParts
<1>6. QED
  BY <1>1, <1>3, <1>4, <1>5 DEF plane, RunState

\* The samples of a segment stay within the row, and the ledger stays even.
LEMMA RunsTaken ==
  ASSUME stream \in StreamParameters, RunsNow, Decoding, stream.golomb,
         NEW segment, TakeSegment(segment), NEW more \in Nat,
         segment.count \in Nat, segment.count <= stream.width - x, segment.pending \in Nat,
         segment.run_index \in RunIndexes, segment.position \in Nat,
         RunState.pending_count + more = segment.count + segment.pending,
         announced' = announced + more,
         run' # "none" => segment.pending = 0 /\ x + segment.count # stream.width,
         UNCHANGED <<slices, row, coded>>
  PROVE  RunsNow'
<1> DEFINE p == plane
           r == RunBank(stream, RowPlane(stream, row))
           v == [run_index |-> segment.run_index, pending_count |-> segment.pending]
           count == segment.count
           from == x + 1
           line == Copied(stream, dec.lines[p], from, count)
<1>1. /\ row \in Nat /\ row < Rows(stream) /\ x \in Nat /\ x < stream.width
      /\ stream.width \in Nat /\ plane = RowPlane(stream, row) /\ r \in Planes(stream)
      /\ IsState(dec) /\ RunState = dec.runs[r]
  BY RunsFacts
<1>2. /\ dec' = [dec EXCEPT !.lines[p] = Copied(stream, @, from, count), !.runs[r] = v]
      /\ position' = segment.position /\ x' = x + count /\ copied' = copied + count
  BY <1>1 DEF TakeSegment
<1>3. v \in RunStates /\ v.pending_count = segment.pending
  BY DEF RunStates
<1>4. count \in Nat /\ x + count <= stream.width /\ x + count \in Nat
  BY <1>1
<1>5. Ledger(stream, row, run, dec, announced, copied)
  BY DEF RunsNow
<1>6. dec.runs[r].pending_count + more = count + v.pending_count
  BY <1>1, <1>3
<1>7. run' # "none" => v.pending_count = 0 /\ x + count < stream.width
  BY <1>1, <1>3, <1>4
<1> HIDE DEF p, v, count, from
<1>8. IsTaken(dec, stream, p, from, count, r, v)
  BY <1>1, TakenIs
<1>9. dec' = Changed(dec, p, line, dec.contexts, Put(dec.runs, r, v))
  <2>1. [dec EXCEPT !.lines[p] = Copied(stream, @, from, count), !.runs[r] = v] =
          Changed(dec, p, Copied(stream, dec.lines[p], from, count), dec.contexts, Put(dec.runs, r, v))
    BY <1>8, Zenon DEF IsTaken
  <2>2. QED
    BY <1>2, <2>1
<1> HIDE DEF line
<1> DEFINE after == run'
           new == Changed(dec, p, line, dec.contexts, Put(dec.runs, r, v))
<1>10. Ledger(stream, row, after, new, announced + more, copied + count)
  <2>1. after # "none" => v.pending_count = 0
    BY <1>7
  <2> HIDE DEF after
  <2>2. QED
    BY <1>1, <1>3, <1>4, <1>5, <1>6, <2>1, LedgerSegment
<1>11. Ledger(stream, row, run, dec, announced, copied)'
  <2>1. stream' = stream /\ row' = row
    BY DEF slices
  <2> HIDE DEF new
  <2>2. Ledger(stream', row', run', dec', announced', copied')
    BY <1>2, <1>9, <1>10, <2>1 DEF new
  <2>3. QED
    BY <2>2
<1>12. /\ row' = row /\ stream' = stream /\ coded' = coded
  BY DEF slices
<1>13. /\ row' \in Nat /\ row' <= Rows(stream') /\ x' \in Nat /\ x' <= stream'.width
       /\ position' \in Nat /\ stream'.golomb
       /\ run' # "none" => x' < stream'.width
  <2>1. row <= Rows(stream)
    BY DEF RunsNow
  <2>2. QED
    BY <1>1, <1>2, <1>4, <1>7, <1>12, <2>1
<1>14. coded' \in Seq({0, 1})
  BY <1>12 DEF RunsNow
<1>15. QED
  BY <1>11, <1>13, <1>14 DEF RunsNow

LEMMA RunsPending ==
  ASSUME stream \in StreamParameters, RunsNow, DecodePending
  PROVE  RunsNow'
<1> DEFINE segment == PendingSegment(RunState, stream.width - x, position)
           left == stream.width - x
           count == AtMost(RunState.pending_count, left)
           pending == RunState.pending_count - count
<1>1. /\ Decoding /\ stream.golomb /\ run = "none" /\ TakeSegment(segment)
      /\ UNCHANGED <<slices, pc, row, run, enc, coded, output, announced>>
  BY DEF DecodePending
<1>2. /\ x \in Nat /\ x < stream.width /\ stream.width \in Nat /\ RunState \in RunStates
  BY <1>1, RunsFacts
<1>3. RunState.pending_count \in Nat /\ RunState.run_index \in RunIndexes /\ position \in Nat
  BY <1>2 DEF RunStates, RunsNow
<1>4. left \in Nat
  BY <1>2
<1>5. count \in Nat /\ count <= left /\ pending \in Nat
      /\ RunState.pending_count + 0 = count + pending
  <2> HIDE DEF left
  <2>1. QED
    BY <1>3, <1>4 DEF AtMost
<1>6. /\ segment.count = count /\ segment.pending = pending
      /\ segment.run_index = RunState.run_index /\ segment.position = position
  BY DEF PendingSegment, Segment
<1>7. announced \in Nat
  BY DEF RunsNow, Ledger
<1>8. announced' = announced + 0 /\ run' = "none"
  BY <1>1, <1>7
<1> HIDE DEF segment, count, pending
<1>9. /\ segment.count \in Nat /\ segment.count <= stream.width - x /\ segment.pending \in Nat
      /\ segment.run_index \in RunIndexes /\ segment.position \in Nat
      /\ RunState.pending_count + 0 = segment.count + segment.pending
  BY <1>3, <1>5, <1>6
<1>10. 0 \in Nat /\ UNCHANGED <<slices, row, coded>>
  BY <1>1
<1>11. run' # "none" => segment.pending = 0 /\ x + segment.count # stream.width
  BY <1>8
<1>12. QED
  BY <1>1, <1>8, <1>9, <1>10, <1>11, RunsTaken

\* What the bits of a segment stand for is what is copied, and what is left for later.
LEMMA RunsSegment ==
  ASSUME stream \in StreamParameters, RunsNow, DecodeSegment
  PROVE  RunsNow'
<1> DEFINE segment == ReadSegment(coded, position, RunState, stream.width - x)
           left == stream.width - x
           more == Announced(RunState.run_index)
<1>1. /\ Decoding /\ stream.golomb /\ AtRun
      /\ SegmentThere(coded, position, RunState)
      /\ TakeSegment(segment)
      /\ run' = IF x + segment.count = stream.width THEN "none"
                ELSE IF segment.interrupted THEN "interrupted" ELSE "copying"
      /\ announced' = announced + more
      /\ UNCHANGED <<slices, pc, row, enc, coded, output>>
  BY DEF DecodeSegment
<1>2. /\ x \in Nat /\ x < stream.width /\ stream.width \in Nat /\ stream.width < RowLimit
      /\ RunState \in RunStates /\ row < Rows(stream)
      /\ RunState = dec.runs[RunBank(stream, RowPlane(stream, row))]
  BY <1>1, RunsFacts
<1>3. RunState.pending_count = 0
  <2>1. CASE run = "copying"
    BY <1>2, <2>1 DEF RunsNow, Ledger
  <2>2. CASE run = "none" /\ ~Pending
    BY <2>2 DEF Pending
  <2>3. QED
    BY <1>1, <2>1, <2>2 DEF AtRun
<1>4. coded \in Seq({0, 1}) /\ position \in Nat /\ RunState.run_index \in RunIndexes
  BY <1>1, <1>2 DEF RunsNow, RunStates
<1>5. left \in Nat /\ left < RowLimit /\ left = stream.width - x
  BY <1>2, LongestRun
<1> HIDE DEF left
<1>6. SegmentWithin(segment, left, more)
  <2>1. /\ coded[position + 1] = 1 =>
             SegmentWithin(ReadSegment(coded, position, RunState, left), left,
                           AtMost(FullRun(RunState.run_index), left))
        /\ coded[position + 1] # 1 =>
             SegmentWithin(ReadSegment(coded, position, RunState, left), left,
                           BitsAt(coded, position + 1, Log2Run(RunState.run_index)))
    BY <1>1, <1>4, <1>5, SegmentType
  <2>2. more = IF coded[position + 1] = 1 THEN AtMost(FullRun(RunState.run_index), left)
               ELSE BitsAt(coded, position + 1, Log2Run(RunState.run_index))
    BY <1>5 DEF Announced
  <2>3. QED
    BY <1>5, <2>1, <2>2
<1> HIDE DEF segment, more
<1>7. /\ segment.count \in Nat /\ segment.count <= left /\ segment.pending \in Nat
      /\ segment.pending # 0 => segment.count = left
      /\ segment.run_index \in RunIndexes /\ segment.position \in Nat
      /\ segment.count + segment.pending = more
  BY <1>6 DEF SegmentWithin
<1>8. more \in Nat /\ RunState.pending_count + more = segment.count + segment.pending
  BY <1>3, <1>7
<1>9. run' # "none" => segment.pending = 0 /\ x + segment.count # stream.width
  <2>1. run' # "none" => x + segment.count # stream.width
    BY <1>1
  <2>2. segment.count = left => x + segment.count = stream.width
    BY <1>2, <1>5
  <2>3. QED
    BY <1>7, <2>1, <2>2
<1>10. UNCHANGED <<slices, row, coded>> /\ segment.count <= stream.width - x
  BY <1>1, <1>5, <1>7
<1>11. QED
  BY <1>1, <1>7, <1>8, <1>9, <1>10, RunsTaken

LEMMA RunsSymbol ==
  ASSUME stream \in StreamParameters, RunsNow, Decoding, stream.golomb, SymbolThere, TakeSymbol
  PROVE  RunsNow'
<1> DEFINE n == NextContext
           bits == CodedBits(stream, plane)
           code == NextCode(coded, position, DeriveK(SymbolContext), bits)
           symbol == ReadSymbol(SymbolContext, code, 2^(bits - 1))
           difference == IF run = "interrupted" THEN FromInterruption(symbol.value)
                         ELSE symbol.value
           b == Bank(stream, plane)
           number == n.number
           context == symbol.context
           i == x + 1
           v == Negated(n, difference)
<1>1. /\ dec' = Decoded(stream, Adapt(dec, b, number, context), plane, i, v)
      /\ position' = code.position /\ x' = x + 1 /\ run' = "none"
      /\ UNCHANGED <<slices, pc, row, enc, coded, output, announced, copied>>
  BY DEF TakeSymbol
<1>2. /\ x \in Nat /\ x < stream.width /\ stream.width \in Nat /\ row \in Nat
  BY RunsFacts
<1>3. position' \in Nat
  <2>1. ~Refused(SymbolContext) /\ position \in Nat
    BY DEF SymbolThere, RunsNow
  <2>2. DeriveK(SymbolContext) \in Nat
    BY <2>1, ParameterFound
  <2>3. bits \in Nat
    BY CodedBitsType
  <2>4. QED
    BY <1>1, <2>1, <2>2, <2>3, CodePosition
<1> HIDE DEF n, bits, code, symbol, difference, b, number, context, i, v
<1>4. Ledger(stream, row, run, dec, announced, copied)
  BY DEF RunsNow
<1>5. Ledger(stream, row, "none", dec', announced, copied)
  BY <1>1, <1>4, LedgerSample
<1>6. /\ stream' = stream /\ row' = row /\ coded' = coded /\ announced' = announced /\ copied' = copied
  BY <1>1 DEF slices
<1>7. x' \in Nat /\ x' <= stream.width
  BY <1>1, <1>2
<1>8. QED
  BY <1>1, <1>3, <1>5, <1>6, <1>7 DEF RunsNow

LEMMA RunsSample ==
  ASSUME stream \in StreamParameters, RunsNow, DecodeSample
  PROVE  RunsNow'
<1>1. /\ Decoding /\ ~stream.golomb
      /\ position' = position + 1 /\ x' = x + 1
      /\ UNCHANGED <<slices, pc, row, run, enc, coded, output, announced, copied>>
  BY DEF DecodeSample
<1> DEFINE v == Negated(NextContext, ReadDifference)
           i == x + 1
<1>2. dec' = Decoded(stream, dec, plane, i, v)
  BY DEF DecodeSample
<1>3. /\ x \in Nat /\ x < stream.width /\ stream.width \in Nat
  BY <1>1, RunsFacts
<1> HIDE DEF v, i
<1>4. Ledger(stream, row, run, dec, announced, copied)
  BY DEF RunsNow
<1>5. Ledger(stream, row, run, dec', announced, copied)
  BY <1>2, <1>4, LedgerSample
<1>6. /\ stream' = stream /\ row' = row /\ coded' = coded /\ announced' = announced /\ copied' = copied
      /\ run' = run
  BY <1>1 DEF slices
<1>7. x' \in Nat /\ x' <= stream.width /\ position' \in Nat
  BY <1>1, <1>3 DEF RunsNow
<1>8. QED
  BY <1>1, <1>5, <1>6, <1>7 DEF RunsNow

LEMMA RunsLine ==
  ASSUME stream \in StreamParameters, RunsNow, DecodeLineEnd
  PROVE  RunsNow'
<1>1. IsState(dec) /\ row \in Nat
  BY DEF RunsNow, Ledger
<1>2. /\ LineEnds(stream, RunBank(stream, plane), CutNow, dec, DoneNow, dec')
      /\ announced' = announced - CutNow
      /\ row' = row + 1 /\ x' = 0
      /\ row < Rows(stream) /\ x = stream.width
      /\ UNCHANGED <<slices, pc, run, enc, coded, position, copied>>
  BY <1>1, DecodeLineEndParts
<1>3. run = "none"
  <2>1. run # "none" => x < stream.width
    BY DEF RunsNow
  <2>2. stream.width \in Nat
    BY StreamParts
  <2>3. QED
    BY <1>2, <2>1, <2>2
<1>4. Ledger(stream, row, run, dec, announced, copied)
  BY DEF RunsNow
<1>5. Ledger(stream, row + 1, "none", dec', announced - CutNow, copied)
  BY <1>1, <1>2, <1>3, <1>4, LedgerLine
<1>6. stream' = stream /\ coded' = coded /\ position' = position /\ copied' = copied /\ run' = "none"
  BY <1>2, <1>3 DEF slices
<1>7. row' \in Nat /\ row' <= Rows(stream) /\ x' \in Nat /\ x' <= stream.width
  <2>1. Rows(stream) \in Nat /\ stream.width \in Nat
    BY RowsAre, StreamParts
  <2>2. QED
    BY <1>1, <1>2, <2>1
<1>8. QED
  BY <1>2, <1>5, <1>6, <1>7 DEF RunsNow

-----------------------------------------------------------------------------
(***************************************************************************)
(* The invariant of the module, and its theorems.                          *)
(***************************************************************************)
\* The decoder's run states and its ledger, whoever wrote the bits.
SliceRuns ==
  /\ pc \in {"encode", "decode", "next", "refused"}
  /\ pc = "decode" => RunsNow
  /\ pc # "encode" => x \in Nat /\ x <= stream.width
  /\ pc = "next" => /\ announced = copied /\ copied \in Nat
                    /\ \A p \in Planes(stream) : dec.runs[p].pending_count = 0

SliceInv == SliceTypes /\ OwnSlices /\ SliceRuns

\* A decoder starts with nothing pending.
LEMMA RunsStart ==
  ASSUME SliceTypes, OwnStream, OwnEncoding, StartDecoder, UNCHANGED <<stream, enc, dec>>,
         stream.golomb => coded' \in Seq({0, 1})
  PROVE  RunsNow' /\ x' \in Nat /\ x' <= stream'.width
<1>1. /\ row' = 0 /\ x' = 0 /\ run' = "none" /\ position' = 0
      /\ announced' = 0 /\ copied' = 0
  BY DEF StartDecoder
<1>2. stream.width \in Nat /\ Rows(stream) \in Nat /\ Rows(stream) >= 1 /\ stream \in StreamParameters
  BY StreamParts, RowsAre DEF OwnStream
<1>3. GoodState(stream, dec)
  BY ReachedGood DEF OwnEncoding, OwnStream
<1>4. IsState(dec) /\ dec.runs \in [Planes(stream) -> RunSet]
  BY <1>3 DEF GoodState
<1>5. dec.runs \in [Planes(stream) -> RunStates] /\ \A p \in Planes(stream) : dec.runs[p].pending_count = 0
  BY <1>4 DEF RunSet, RunStates
<1>6. RunBank(stream, RowPlane(stream, 0)) \in Planes(stream)
  BY <1>2, RowPlaces, BankType
<1>7. Ledger(stream, 0, "none", dec, 0, 0)
  BY <1>2, <1>4, <1>5, <1>6 DEF Ledger
<1>8. QED
  BY <1>1, <1>2, <1>7 DEF RunsNow

LEMMA RunsInitial == Init => SliceRuns
BY DEF Init, SliceRuns

LEMMA RunsInductive ==
  ASSUME SliceInv, [Next]_vars
  PROVE  SliceRuns'
<1>1. /\ stream \in StreamParameters
      /\ pc \in {"encode", "decode", "next", "refused"}
      /\ pc = "decode" => RunsNow
      /\ pc # "encode" => x \in Nat /\ x <= stream.width
      /\ pc = "next" => /\ announced = copied /\ copied \in Nat
                        /\ \A p \in Planes(stream) : dec.runs[p].pending_count = 0
  BY StreamIsOwn DEF SliceInv, SliceRuns, SliceTypes
<1>2. pc = "encode" => ~foreign /\ OwnStream /\ OwnEncoding
  BY DEF SliceInv, SliceTypes, OwnSlices
<1>3. CASE UNCHANGED vars
  BY <1>1, <1>3 DEF SliceRuns, RunsNow, vars, slices
<1>4. CASE EncodeSample \/ EncodeScalar \/ EncodeRun \/ EncodeLineEnd
  <2>1. pc = "encode" /\ pc' = "encode"
    <3>1. CASE EncodeSample \/ EncodeScalar \/ EncodeRun
      <4>1. PICK piece : Emit(piece)
        BY <3>1 DEF EncodeSample, EncodeScalar, EncodeRun
      <4>2. pc' = pc
        BY <4>1 DEF Emit
      <4>3. QED
        BY <3>1, <4>2 DEF EncodeSample, EncodeScalar, EncodeRun
    <3>2. CASE EncodeLineEnd
      BY <3>2 DEF EncodeLineEnd
    <3>3. QED
      BY <1>4, <3>1, <3>2
  <2>2. QED
    BY <2>1 DEF SliceRuns
<1>5. CASE EncodeEnd
  <2>1. pc = "encode" /\ StartDecoder /\ UNCHANGED <<slices, enc, dec>> /\ pc' = "decode"
    BY <1>5 DEF EncodeEnd, StartDecoder
  <2>2. OwnDecoding' /\ stream' = stream
    BY <1>2, <1>5, <2>1, OwnEncodeEnd DEF slices
  <2>3. coded' \in Seq(Codes(stream))
    BY <2>2 DEF OwnDecoding
  <2>4. stream.golomb => coded' \in Seq({0, 1})
    BY <2>3 DEF Codes
  <2>5. SliceTypes /\ UNCHANGED <<stream, enc, dec>>
    BY <2>1 DEF SliceInv, slices
  <2>6. RunsNow' /\ x' \in Nat /\ x' <= stream'.width
    BY <1>2, <2>1, <2>4, <2>5, RunsStart
  <2>7. QED
    BY <2>1, <2>6 DEF SliceRuns
<1>6. CASE TakeForeign
  <2>1. /\ pc = "encode" /\ StartDecoder /\ pc' = "decode"
        /\ UNCHANGED <<stream, frame, enc, dec>>
        /\ \E bits \in Foreign : coded' = Aligned(bits)
    BY <1>6 DEF TakeForeign, StartDecoder
  <2>2. PICK bits \in Foreign : coded' = Aligned(bits)
    BY <2>1
  <2>3. bits \in Seq({0, 1})
    BY SampleAssumption
  <2>4. PICK more \in Seq({0, 1}) : Aligned(bits) = bits \o more
    BY <2>3, AlignedIs
  <2>5. coded' \in Seq({0, 1})
    BY <2>2, <2>3, <2>4, JoinedBits
  <2>6. SliceTypes /\ UNCHANGED <<stream, enc, dec>>
    BY <2>1 DEF SliceInv
  <2>7. RunsNow' /\ x' \in Nat /\ x' <= stream'.width
    BY <1>2, <2>1, <2>5, <2>6, RunsStart
  <2>8. QED
    BY <2>1, <2>7 DEF SliceRuns
<1>7. ASSUME pc = "decode", pc' = "decode", stream' = stream, RunsNow'
      PROVE  SliceRuns'
  BY <1>7 DEF SliceRuns, RunsNow
<1>8. CASE DecodeSample
  <2>1. pc = "decode" /\ UNCHANGED <<slices, pc>>
    BY <1>8 DEF DecodeSample, Decoding
  <2>2. RunsNow'
    BY <1>1, <1>8, <2>1, RunsSample
  <2>3. QED
    BY <1>7, <2>1, <2>2 DEF slices
<1>9. CASE DecodePending
  <2>1. pc = "decode" /\ UNCHANGED <<slices, pc>>
    BY <1>9 DEF DecodePending, Decoding
  <2>2. RunsNow'
    BY <1>1, <1>9, <2>1, RunsPending
  <2>3. QED
    BY <1>7, <2>1, <2>2 DEF slices
<1>10. CASE DecodeSegment
  <2>1. pc = "decode" /\ UNCHANGED <<slices, pc>>
    BY <1>10 DEF DecodeSegment, Decoding
  <2>2. RunsNow'
    BY <1>1, <1>10, <2>1, RunsSegment
  <2>3. QED
    BY <1>7, <2>1, <2>2 DEF slices
<1>11. CASE DecodeInterruption \/ DecodeScalar
  <2>1. Decoding /\ stream.golomb /\ SymbolThere /\ TakeSymbol
    BY <1>11 DEF DecodeInterruption, DecodeScalar
  <2>2. pc = "decode" /\ UNCHANGED <<slices, pc>>
    BY <2>1 DEF TakeSymbol, Decoding
  <2>3. RunsNow'
    BY <1>1, <2>1, <2>2, RunsSymbol
  <2>4. QED
    BY <1>7, <2>2, <2>3 DEF slices
<1>12. CASE DecodeUnderflow
  <2>1. pc = "decode" /\ pc' = "refused" /\ x' = x /\ stream' = stream
    BY <1>12 DEF DecodeUnderflow, Decoding, slices
  <2>2. QED
    BY <1>1, <2>1 DEF SliceRuns
<1>13. CASE DecodeLineEnd
  <2>1. pc = "decode" /\ UNCHANGED <<slices, pc>>
    BY <1>13 DEF DecodeLineEnd
  <2>2. RunsNow'
    BY <1>1, <1>13, <2>1, RunsLine
  <2>3. QED
    BY <1>7, <2>1, <2>2 DEF slices
<1>14. CASE DecodeEnd
  <2>1. /\ pc = "decode" /\ row = Rows(stream) /\ pc' \in {"refused", "next"}
        /\ stream' = stream /\ x' = x /\ dec' = dec /\ announced' = announced /\ copied' = copied
    BY <1>14 DEF DecodeEnd, slices
  <2>2. /\ announced = copied /\ copied \in Nat
        /\ \A p \in Planes(stream) : dec.runs[p].pending_count = 0
    BY <1>1, <2>1 DEF RunsNow, Ledger
  <2>3. QED
    BY <1>1, <2>1, <2>2 DEF SliceRuns
<1>15. CASE NextFrame
  <2>1. pc' = "encode"
    BY <1>15 DEF NextFrame
  <2>2. QED
    BY <2>1 DEF SliceRuns
<1>16. QED
  BY <1>3, <1>4, <1>5, <1>6, <1>8, <1>9, <1>10, <1>11, <1>12, <1>13, <1>14, <1>15 DEF Next

\* The invariant of a slice, over all the frames of a GOP.
LEMMA SliceInvariant == Spec => []SliceInv
<1>1. Init => SliceInv
  BY TypesInitial, OwnInitial, RunsInitial DEF SliceInv
<1>2. SliceInv /\ [Next]_vars => SliceInv'
  <2>1. SUFFICES ASSUME SliceInv, [Next]_vars
                 PROVE  SliceInv'
    OBVIOUS
  <2>2. SliceTypes /\ OwnSlices
    BY <2>1 DEF SliceInv
  <2>3. SliceTypes'
    BY <2>1, <2>2, TypesInductive
  <2>4. OwnSlices'
    BY <2>1, <2>2, OwnInductive
  <2>5. SliceRuns'
    BY <2>1, RunsInductive
  <2>6. QED
    BY <2>3, <2>4, <2>5 DEF SliceInv
<1>3. QED
  BY <1>1, <1>2, PTL DEF Spec

\* Whatever the image, the planes, the tables, the depth and the length of the GOP, a slice
\* that this encoder wrote is read back as it was, by either coder, and is never refused
\* (decode_golomb_rice_line, slice_decoder.cpp:258, decode_range_line, slice_decoder.cpp:167).
THEOREM SlicesRoundTrip == Spec => []RoundTrip
<1>1. SliceInv => RoundTrip
  BY DEF SliceInv, OwnSlices, OwnDone, RoundTrip
<1>2. QED
  BY <1>1, SliceInvariant, PTL

\* Behind every slice the adaptive contexts and the run states of encoder and decoder are
\* the same, for all contexts of all tables (prepare_golomb_rice, slice_decoder.cpp:978).
THEOREM AdaptationIsShared == Spec => []SameAdaptation
<1>1. SliceInv => SameAdaptation
  BY DEF SliceInv, OwnSlices, OwnDone, SameAdaptation
<1>2. QED
  BY <1>1, SliceInvariant, PTL

\* Whatever the bits, of whatever encoder, what the segments of runs announce is what is
\* copied and what is pending, and no run passes the end of its row
\* (read_golomb_rice_run_segment, golomb_rice_run.cpp:38).
THEOREM RunsAreConserved == Spec => []RunsConserved
<1>1. SliceInv => RunsConserved
  <2>1. SUFFICES ASSUME SliceInv
                 PROVE  RunsConserved
    OBVIOUS
  <2>2. stream \in StreamParameters /\ SliceRuns
    BY <2>1, StreamIsOwn DEF SliceInv, SliceTypes
  <2>3. x <= stream.width
    <3>1. CASE pc = "encode"
      <4>1. OwnStream /\ OwnEncoding
        BY <2>1, <3>1 DEF SliceInv, SliceTypes, OwnSlices
      <4>2. Reached(stream, image, coded, row, x, enc, dec)
        BY <4>1 DEF OwnEncoding
      <4>3. QED
        BY <2>2, <4>2, ReachedGood
    <3>2. CASE pc # "encode"
      BY <2>2, <3>2 DEF SliceRuns
    <3>3. QED
      BY <3>1, <3>2
  <2>4. 1 \in Planes(stream)
    BY <2>2, PlanesAre
  <2>5. CASE pc = "decode" /\ row < Rows(stream)
    <3>1. RunsNow /\ row \in Nat
      BY <2>2, <2>5 DEF SliceRuns, RunsNow
    <3> DEFINE b == RunBank(stream, RowPlane(stream, row))
    <3>2. b \in Planes(stream)
      BY <2>2, <2>5, <3>1, RowPlaces, BankType
    <3>3. /\ announced = copied + dec.runs[b].pending_count
          /\ \A q \in Planes(stream) \ {b} : dec.runs[q].pending_count = 0
      BY <2>5, <3>1 DEF RunsNow, Ledger
    <3> HIDE DEF b
    <3>4. QED
      BY <2>3, <3>2, <3>3 DEF RunsConserved
  <2>6. CASE (pc = "decode" /\ row = Rows(stream)) \/ pc = "next"
    <3>1. announced = copied /\ \A q \in Planes(stream) : dec.runs[q].pending_count = 0
      BY <2>2, <2>6 DEF SliceRuns, RunsNow, Ledger
    <3>2. copied = copied + 0
      <4>1. CASE pc = "decode"
        BY <2>2, <4>1 DEF SliceRuns, RunsNow, Ledger
      <4>2. CASE pc = "next"
        BY <2>2, <4>2 DEF SliceRuns
      <4>3. QED
        BY <2>6, <4>1, <4>2
    <3>3. QED
      BY <2>3, <2>4, <3>1, <3>2 DEF RunsConserved
  <2>7. CASE pc \notin {"decode", "next"}
    BY <2>3, <2>7 DEF RunsConserved
  <2>8. QED
    <3>1. pc = "decode" => row < Rows(stream) \/ row = Rows(stream)
      <4>1. pc = "decode" => row \in Nat /\ row <= Rows(stream)
        BY <2>2 DEF SliceRuns, RunsNow
      <4>2. Rows(stream) \in Nat
        BY <2>2, RowsAre
      <4>3. QED
        BY <4>1, <4>2
    <3>2. QED
      BY <2>5, <2>6, <2>7, <3>1
<1>2. QED
  BY <1>1, SliceInvariant, PTL
=============================================================================
