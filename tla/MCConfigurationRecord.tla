------------------------ MODULE MCConfigurationRecord ------------------------
(***************************************************************************)
(* Half tables of two entries, bytes of four values, two initial states of *)
(* a context.  Streams differ from a small one in their tables, in their   *)
(* states, in their other fields, or in a way the writer refuses.          *)
(***************************************************************************)
EXTENDS ConfigurationRecord

MCDefaultTransition == <<1, 3>>

\* A set of tables, of which those in "split" have two runs.
SetOf(split) ==
  LET by[i \in 1..6] == IF i = 1 THEN 1
                           ELSE by[i - 1] * (IF i - 1 \in split THEN 3 ELSE 1)
  IN [tables |-> [i \in Inputs |->
                    LET top == IF i \in split THEN by[i] ELSE 0
                    IN [p \in Positions |-> <<0, top, -top, -top>>[p + 1]]],
      contexts |-> (by[6] + 1) \div 2]

Small == [NoParameters EXCEPT !.micro_version = 4, !.sets = <<SetOf({})>>]

\* All sets, also with more contexts than a reader allows, and with a number of
\* contexts that only agrees in the bits that are stored.
Tables ==
  {[Small EXCEPT !.sets = <<SetOf(split)>>] : split \in SUBSET Inputs}
  \cup {[Small EXCEPT !.sets = <<[SetOf(Inputs) EXCEPT !.contexts = @ % 64]>>]}

\* States that go up and down between contexts, also across the ends of a byte.
StatesOf(count, step, from) == [j \in 1..(2 * count) |-> (from + step * j) % 4]

States ==
  {[Small EXCEPT !.sets = <<SetOf({2})>>, !.states = <<StatesOf(2, step, from)>>] :
     step \in 0..3, from \in 0..3}
  \cup {[Small EXCEPT !.sets = <<SetOf({1}), SetOf({3, 5})>>,
                      !.states = <<first, second>>] :
          first \in {<<>>, StatesOf(2, 3, 1)}, second \in {<<>>, StatesOf(5, 1, 2)}}

Fields ==
  {[Small EXCEPT !.entropy = entropy, !.transition = transition, !.ec = ec, !.intra = intra] :
     entropy \in {"golomb_rice", "range"}, transition \in {<<1, 3>>, <<1, 0>>, <<3, 2>>},
     ec \in BOOLEAN, intra \in BOOLEAN}
  \cup {[Small EXCEPT !.colorspace = colorspace, !.bits = bits, !.chroma = chroma,
                      !.log2_h = log2_h, !.log2_v = log2_v, !.extra = extra] :
          colorspace \in 0..2, bits \in {0, 1, 16, 17}, chroma \in BOOLEAN,
          log2_h \in 0..2, log2_v \in 0..1, extra \in BOOLEAN}
  \cup {[Small EXCEPT !.h = h, !.v = v] : h \in {0, 1, 63}, v \in {0, 1, 63}}

\* What the writer refuses about versions, tables and states.
Refused ==
  {[Small EXCEPT !.version = 1], [Small EXCEPT !.micro_version = 3], [Small EXCEPT !.sets = <<>>],
   [Small EXCEPT !.sets = [n \in 1..9 |-> SetOf({})]],
   [Small EXCEPT !.sets[1].contexts = 0], [Small EXCEPT !.sets[1].contexts = 2],
   [Small EXCEPT !.sets[1].tables[1][2] = 1],
   [Small EXCEPT !.sets[1].tables[3] = [p \in Positions |-> <<1, 1, -1, -1>>[p + 1]]],
   [Small EXCEPT !.sets[1].tables[3] = [p \in Positions |-> <<0, 2, -2, -2>>[p + 1]]],
   [Small EXCEPT !.states = <<<<>>, <<>>>>], [Small EXCEPT !.states = <<<<1>>>>]}

MCDamaged == {Small}

MCStreams == Tables \cup States \cup Fields \cup Refused
=============================================================================
