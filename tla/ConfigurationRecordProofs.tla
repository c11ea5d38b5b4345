---------------------- MODULE ConfigurationRecordProofs ----------------------
(***************************************************************************)
(* For tables of any size and any symbols in the record: entries of a set  *)
(* that was read fit 32 bits and never add up to a context outside it.     *)
(* And for any parameters: what a record was written from is read back.    *)
(* The invariant of the second part says at every symbol what the reader   *)
(* has in front of it and what it has read: the record that is left is     *)
(* what the writer put behind the symbols read so far, and the parameters  *)
(* are its own up to there.                                                *)
(***************************************************************************)
EXTENDS ConfigurationRecord, SequenceTheorems, FiniteSetTheorems, FunctionTheorems, TLAPS

TablesTypeOK ==
  /\ tables \in [Inputs -> [Positions -> Int]]
  /\ table \in 1..6
  /\ k \in 0..Half
  /\ value \in Nat
  /\ scale \in Nat /\ scale >= 1
  /\ contexts \in Nat
  /\ verdict \in {"reading", "read", "refused"}

\* Every entry fits the 32 bits it is stored in.
EntriesFit ==
  \A i \in Inputs, p \in Positions : tables[i][p] \in (-MaxEntry)..MaxEntry

\* The largest entry of the table being read.
Top == scale * (value - 1)

RunsGrow ==
  /\ k = 0 => value = 0
  /\ k > 0 => value >= 1 /\ \A p \in 0..(k - 1) : tables[table][p] \in 0..Top
  /\ table = 6 => k = 0

Total(bound) == bound[1] + bound[2] + bound[3] + bound[4] + bound[5]

\* bound[i] is the largest entry of the i-th table, and 0 for one to come.
Bounds(bound) ==
  /\ bound \in [Inputs -> Nat]
  /\ \A i \in Inputs :
       IF i < table
       THEN \A p \in Positions : -bound[i] <= tables[i][p] /\ tables[i][p] <= bound[i]
       ELSE bound[i] = 0
  /\ 2 * Total(bound) + 1 <= scale

Bounded == \E bound \in [Inputs -> Nat] : Bounds(bound)

CountKnown == verdict = "read" => table = 6 /\ contexts = ContextCount(scale)

TablesInv == TablesTypeOK /\ RunsGrow /\ EntriesFit /\ Bounded /\ CountKnown
-----------------------------------------------------------------------------
\* A product of natural numbers is one (the scale and the entries,
\* configuration_parser.cpp:325 and :369).
LEMMA ProductNat ==
  ASSUME NEW a \in Nat, NEW b \in Nat
  PROVE  a * b \in Nat
OBVIOUS

\* The overflow test of a run keeps its entries within 32 bits
\* (configuration_parser.cpp:361).
LEMMA QuotientBound ==
  ASSUME NEW a \in Nat, NEW b \in Nat, b >= 1, NEW m \in Nat, a <= m \div b
  PROVE  b * a <= m
<1> DEFINE q == m \div b
<1>1. q \in Nat /\ b * q <= m
  OBVIOUS
<1>2. a <= q
  OBVIOUS
<1> HIDE DEF q
<1>3. b * a <= b * q
  BY <1>1, <1>2
<1> QED BY <1>1, <1>3, ProductNat

\* The next run starts further up and within the half.
LEMMA RunEndBounds ==
  ASSUME TablesTypeOK, k < Half, NEW coded \in Nat
  PROVE  RunEnd(coded) \in Nat /\ RunEnd(coded) > k /\ RunEnd(coded) <= Half
BY QuantTablesAssumption DEF RunEnd, TablesTypeOK
-----------------------------------------------------------------------------
LEMMA InitTablesInv == InitTables => TablesInv
<1> SUFFICES ASSUME InitTables PROVE TablesInv
  OBVIOUS
<1> USE QuantTablesAssumption DEF InitTables, ZeroTables
<1>1. TablesTypeOK
  BY DEF TablesTypeOK, Inputs, Positions
<1>2. RunsGrow
  BY DEF RunsGrow
<1>3. EntriesFit
  BY DEF EntriesFit
<1>4. Bounds([i \in Inputs |-> 0])
  BY DEF Bounds, Total, Inputs
<1>5. Bounded
  <2>1. [i \in Inputs |-> 0] \in [Inputs -> Nat]
    OBVIOUS
  <2> QED BY <1>4, <2>1 DEF Bounded
<1>6. CountKnown
  BY DEF CountKnown
<1> QED BY <1>1, <1>2, <1>3, <1>5, <1>6 DEF TablesInv

\* A run of equal entries (configuration_parser.cpp:350).
LEMMA ReadRunStep ==
  ASSUME TablesInv, NEW coded \in Nat, ReadRun(coded)
  PROVE  TablesInv'
<1> DEFINE end == RunEnd(coded)
           entry == scale * value
           row == [p \in Positions |-> IF p \in k..(end - 1) THEN entry
                                       ELSE tables[table][p]]
<1> USE QuantTablesAssumption
<1>1. TablesTypeOK /\ RunsGrow /\ EntriesFit /\ Bounded /\ CountKnown
  BY DEF TablesInv
<1>2. /\ verdict = "reading" /\ table \in Inputs /\ k < Half
      /\ value <= MaxEntry \div scale
      /\ tables' = [tables EXCEPT ![table] = row]
      /\ k' = end /\ value' = value + 1
      /\ table' = table /\ scale' = scale /\ contexts' = contexts /\ verdict' = verdict
  BY <1>1 DEF ReadRun, ReadingRuns, RunRefused, TablesTypeOK
<1>3. end \in Nat /\ end > k /\ end <= Half
  BY <1>1, <1>2, RunEndBounds
<1>4. entry \in Nat /\ entry <= MaxEntry
  BY <1>1, <1>2, ProductNat, QuotientBound DEF TablesTypeOK
<1>5. \A p \in Positions : tables[table][p] \in Int
  BY <1>1, <1>2 DEF TablesTypeOK
<1> HIDE DEF end, entry
<1>6. row \in [Positions -> Int]
  BY <1>4, <1>5
<1>7. TablesTypeOK'
  BY <1>1, <1>2, <1>3, <1>6 DEF TablesTypeOK
<1>8. EntriesFit'
  <2> SUFFICES ASSUME NEW i \in Inputs, NEW p \in Positions
               PROVE  tables'[i][p] \in (-MaxEntry)..MaxEntry
    BY DEF EntriesFit
  <2>1. CASE i = table
    <3>1. tables'[i] = row
      BY <1>1, <1>2, <2>1 DEF TablesTypeOK
    <3> QED BY <1>1, <1>2, <1>4, <3>1 DEF EntriesFit
  <2>2. CASE i # table
    BY <1>1, <1>2, <2>2 DEF EntriesFit, TablesTypeOK
  <2> QED BY <2>1, <2>2
<1>9. RunsGrow'
  <2>1. Top' = entry
    BY <1>1, <1>2 DEF Top, TablesTypeOK, entry
  <2>2. ASSUME NEW p \in 0..(k' - 1) PROVE tables'[table'][p] \in 0..Top'
    <3>1. tables'[table'] = row /\ p \in Positions
      BY <1>1, <1>2, <1>3 DEF TablesTypeOK, Positions
    <3>2. CASE p >= k
      BY <1>2, <1>3, <1>4, <2>1, <3>1, <3>2, <1>1 DEF TablesTypeOK
    <3>3. CASE p < k
      <4>1. row[p] = tables[table][p] /\ p \in 0..(k - 1)
        BY <3>1, <3>3, <1>1 DEF TablesTypeOK
      <4>2. tables[table][p] \in 0..Top /\ value >= 1
        BY <1>1, <4>1 DEF RunsGrow, TablesTypeOK
      <4>3. Top = entry - scale
        BY <1>1 DEF Top, entry, TablesTypeOK
      <4>4. Top <= entry /\ Top \in Int
        BY <4>3, <1>1, <1>4 DEF TablesTypeOK
      <4> QED BY <2>1, <3>1, <4>1, <4>2, <4>4, <1>4
    <3> QED BY <3>2, <3>3, <1>1 DEF TablesTypeOK
  <2> QED BY <1>1, <1>2, <1>3, <2>2 DEF RunsGrow, TablesTypeOK, Inputs
<1>10. Bounded'
  <2>1. PICK bound \in [Inputs -> Nat] : Bounds(bound)
    BY <1>1 DEF Bounded
  <2>2. ASSUME NEW i \in Inputs, i < table
        PROVE  tables'[i] = tables[i]
    BY <1>1, <1>2, <2>2 DEF TablesTypeOK
  <2>3. Bounds(bound)'
    BY <1>2, <2>1, <2>2 DEF Bounds, Total
  <2> QED BY <2>3 DEF Bounded
<1>11. CountKnown'
  BY <1>2 DEF CountKnown
<1> QED BY <1>7, <1>8, <1>9, <1>10, <1>11 DEF TablesInv

\* A set of tables that is refused keeps what was read so far.
LEMMA RefuseRunStep ==
  ASSUME TablesInv, NEW coded \in Nat, RefuseRun(coded)
  PROVE  TablesInv'
<1> USE DEF TablesInv, RefuseRun
<1>1. TablesTypeOK'
  BY DEF TablesTypeOK
<1>2. RunsGrow'
  BY DEF RunsGrow, Top
<1>3. EntriesFit'
  BY DEF EntriesFit
<1>4. Bounded'
  BY DEF Bounded, Bounds, Total
<1>5. CountKnown'
  BY DEF CountKnown
<1> QED BY <1>1, <1>2, <1>3, <1>4, <1>5

\* What the scale of the next table leaves room for: the entries of this one
\* on top of those before it (configuration_parser.cpp:321).
LEMMA NextScale ==
  ASSUME NEW s \in Nat, s >= 1, NEW n \in Nat, n >= 1
  PROVE  /\ s * (n - 1) \in Nat
         /\ s * Multiplier(n) \in Nat
         /\ s * Multiplier(n) = s + 2 * (s * (n - 1))
         /\ s * Multiplier(n) >= 1
<1> DEFINE top == s * (n - 1)
<1>1. top \in Nat
  OBVIOUS
<1>2. Multiplier(n) = 1 + 2 * (n - 1)
  BY DEF Multiplier
<1>3. s * (1 + 2 * (n - 1)) = s + 2 * (s * (n - 1))
  OBVIOUS
<1>4. s * Multiplier(n) = s + 2 * top
  BY <1>2, <1>3
<1> HIDE DEF top
<1>5. s + 2 * top \in Nat /\ s + 2 * top >= 1
  BY <1>1
<1> QED BY <1>1, <1>4, <1>5 DEF top

\* The mirror image of a half that lies between 0 and a bound.
LEMMA MirrorBounds ==
  ASSUME NEW entries \in [Positions -> Int], NEW bound \in Int,
         \A p \in 0..(Half - 1) : entries[p] \in 0..bound
  PROVE  /\ Mirrored(entries) \in [Positions -> Int]
         /\ \A p \in Positions :
              -bound <= Mirrored(entries)[p] /\ Mirrored(entries)[p] <= bound
<1> USE QuantTablesAssumption
<1>1. ASSUME NEW p \in Positions
      PROVE  /\ Mirrored(entries)[p] \in Int
             /\ -bound <= Mirrored(entries)[p] /\ Mirrored(entries)[p] <= bound
  <2>1. CASE p < Half
    <3>1. Mirrored(entries)[p] = entries[p] /\ p \in 0..(Half - 1)
      BY <2>1 DEF Mirrored, Positions
    <3>2. entries[p] \in 0..bound
      BY <3>1
    <3> QED BY <3>1, <3>2
  <2>2. CASE p = Half
    <3>1. Mirrored(entries)[p] = -entries[Half - 1] /\ Half - 1 \in 0..(Half - 1)
      BY <2>2 DEF Mirrored, Positions
    <3>2. entries[Half - 1] \in 0..bound
      BY <3>1
    <3> QED BY <3>1, <3>2
  <2>3. CASE p > Half
    <3>1. Mirrored(entries)[p] = -entries[2 * Half - p] /\ 2 * Half - p \in 0..(Half - 1)
      BY <2>3 DEF Mirrored, Positions
    <3>2. entries[2 * Half - p] \in 0..bound
      BY <3>1
    <3> QED BY <3>1, <3>2
  <2> QED BY <2>1, <2>2, <2>3 DEF Positions
<1>2. Mirrored(entries) \in [Positions -> Int]
  BY <1>1 DEF Mirrored
<1> QED BY <1>1, <1>2

\* A table is complete (configuration_parser.cpp:377 and :321).
LEMMA EndTableStep ==
  ASSUME TablesInv, EndTable
  PROVE  TablesInv'
<1> DEFINE row == Mirrored(tables[table])
           top == Top
<1> USE QuantTablesAssumption
<1>1. TablesTypeOK /\ RunsGrow /\ EntriesFit /\ Bounded /\ CountKnown
  BY DEF TablesInv
<1>2. /\ verdict = "reading" /\ table \in Inputs /\ k = Half
      /\ tables' = [tables EXCEPT ![table] = row]
      /\ scale' = scale * Multiplier(value)
      /\ table' = table + 1 /\ k' = 0 /\ value' = 0
      /\ contexts' = contexts /\ verdict' = verdict
  BY DEF EndTable
<1>3. value >= 1 /\ \A p \in 0..(Half - 1) : tables[table][p] \in 0..top
  BY <1>1, <1>2 DEF RunsGrow
<1>4. top \in Nat /\ scale' \in Nat /\ scale' = scale + 2 * top /\ scale' >= 1
  BY <1>1, <1>2, <1>3, NextScale DEF Top, TablesTypeOK
<1>5. tables[table] \in [Positions -> Int]
  BY <1>1, <1>2 DEF TablesTypeOK
<1> HIDE DEF top
<1>6. /\ row \in [Positions -> Int]
      /\ \A p \in Positions : -top <= row[p] /\ row[p] <= top
  BY <1>3, <1>4, <1>5, MirrorBounds
<1>7. \A p \in Positions : row[p] \in (-MaxEntry)..MaxEntry
  <2>1. \A p \in 0..(Half - 1) : tables[table][p] \in 0..MaxEntry
    BY <1>1, <1>2, <1>3, <1>4 DEF EntriesFit, Positions
  <2>2. \A p \in Positions : -MaxEntry <= row[p] /\ row[p] <= MaxEntry
    BY <1>5, <2>1, MirrorBounds
  <2> QED BY <1>6, <2>2
<1> HIDE DEF row
<1>8. TablesTypeOK'
  BY <1>1, <1>2, <1>4, <1>6 DEF TablesTypeOK, Inputs
<1>9. RunsGrow'
  BY <1>2 DEF RunsGrow
<1>10. EntriesFit'
  <2> SUFFICES ASSUME NEW i \in Inputs, NEW p \in Positions
               PROVE  tables'[i][p] \in (-MaxEntry)..MaxEntry
    BY DEF EntriesFit
  <2>1. CASE i = table
    BY <1>1, <1>2, <1>7, <2>1 DEF TablesTypeOK
  <2>2. CASE i # table
    BY <1>1, <1>2, <2>2 DEF EntriesFit, TablesTypeOK
  <2> QED BY <2>1, <2>2
<1>11. Bounded'
  <2>1. PICK bound \in [Inputs -> Nat] : Bounds(bound)
    BY <1>1 DEF Bounded
  <2> DEFINE next == [bound EXCEPT ![table] = top]
  <2>2. next \in [Inputs -> Nat]
    BY <1>4
  <2>3. bound[table] = 0 /\ 2 * Total(bound) + 1 <= scale
    BY <1>1, <1>2, <2>1 DEF Bounds, TablesTypeOK
  <2>4. Total(next) = Total(bound) + top /\ Total(bound) \in Nat
    <3>1. table \in {1, 2, 3, 4, 5}
      BY <1>2 DEF Inputs
    <3>2. \A i \in Inputs : bound[i] \in Nat
      OBVIOUS
    <3> QED BY <3>1, <3>2, <2>3, <1>4 DEF Total, Inputs
  <2>5. ASSUME NEW i \in Inputs
        PROVE  IF i < table'
               THEN \A p \in Positions : -next[i] <= tables'[i][p] /\ tables'[i][p] <= next[i]
               ELSE next[i] = 0
    <3>1. CASE i = table
      <4>1. tables'[i] = row /\ next[i] = top /\ i < table'
        BY <1>1, <1>2, <3>1 DEF TablesTypeOK
      <4> QED BY <4>1, <1>6
    <3>2. CASE i # table
      <4>1. tables'[i] = tables[i] /\ next[i] = bound[i] /\ (i < table <=> i < table')
        BY <1>1, <1>2, <3>2 DEF TablesTypeOK, Inputs
      <4> QED BY <4>1, <2>1 DEF Bounds
    <3> QED BY <3>1, <3>2
  <2> HIDE DEF next
  <2>6. 2 * Total(next) + 1 <= scale'
    BY <1>1, <1>4, <2>3, <2>4 DEF TablesTypeOK
  <2>7. PICK widened \in [Inputs -> Nat] : widened = next
    BY <2>2
  <2>8. Bounds(widened)'
    BY <2>5, <2>6, <2>7 DEF Bounds, Total
  <2> QED BY <2>8 DEF Bounded
<1>12. CountKnown'
  BY <1>2 DEF CountKnown
<1> QED BY <1>8, <1>9, <1>10, <1>11, <1>12 DEF TablesInv

\* The set is complete (configuration_parser.cpp:328).
LEMMA EndSetStep ==
  ASSUME TablesInv, EndSet
  PROVE  TablesInv'
<1> USE DEF TablesInv, EndSet
<1>1. TablesTypeOK'
  BY DEF TablesTypeOK, ContextCount
<1>2. RunsGrow'
  BY DEF RunsGrow, Top
<1>3. EntriesFit'
  BY DEF EntriesFit
<1>4. Bounded'
  BY DEF Bounded, Bounds, Total
<1>5. CountKnown'
  BY DEF CountKnown, TablesTypeOK, Inputs, ContextCount
<1> QED BY <1>1, <1>2, <1>3, <1>4, <1>5

LEMMA StutterTablesStep ==
  ASSUME TablesInv, UNCHANGED tablesVars
  PROVE  TablesInv'
BY DEF TablesInv, tablesVars, TablesTypeOK, RunsGrow, Top, EntriesFit, Bounded,
       Bounds, Total, CountKnown

LEMMA TablesInvariant == SpecTables => []TablesInv
<1>1. InitTables => TablesInv
  BY InitTablesInv
<1>2. TablesInv /\ [NextTables]_tablesVars => TablesInv'
  <2> SUFFICES ASSUME TablesInv, [NextTables]_tablesVars PROVE TablesInv'
    OBVIOUS
  <2>1. ASSUME NEW coded \in CodedRuns, ReadRun(coded) PROVE TablesInv'
    BY <2>1, ReadRunStep, QuantTablesAssumption
  <2>2. ASSUME NEW coded \in CodedRuns, RefuseRun(coded) PROVE TablesInv'
    BY <2>2, RefuseRunStep, QuantTablesAssumption
  <2>3. CASE EndTable
    BY <2>3, EndTableStep
  <2>4. CASE EndSet
    BY <2>4, EndSetStep
  <2>5. CASE UNCHANGED tablesVars
    BY <2>5, StutterTablesStep
  <2> QED BY <2>1, <2>2, <2>3, <2>4, <2>5 DEF NextTables
<1> QED BY <1>1, <1>2, PTL DEF SpecTables
-----------------------------------------------------------------------------
\* Adding up one entry of each table stays within the bounds of the tables,
\* and those add up to less than the number of contexts.
LEMMA InvariantGivesRange == TablesInv => ContextsInRange
<1> SUFFICES ASSUME TablesInv, verdict = "read", NEW at \in [Inputs -> Positions]
             PROVE  Folded(tables, at) \in (-contexts + 1)..(contexts - 1)
  BY DEF ContextsInRange
<1>1. TablesTypeOK /\ Bounded /\ table = 6 /\ contexts = ContextCount(scale)
  BY DEF TablesInv, CountKnown
<1>2. PICK bound \in [Inputs -> Nat] : Bounds(bound)
  BY <1>1 DEF Bounded
<1>3. ASSUME NEW i \in Inputs
      PROVE  /\ bound[i] \in Nat /\ tables[i][at[i]] \in Int
             /\ -bound[i] <= tables[i][at[i]] /\ tables[i][at[i]] <= bound[i]
  <2>1. i < table /\ at[i] \in Positions
    BY <1>1 DEF Inputs
  <2> QED BY <1>1, <1>2, <2>1 DEF Bounds, TablesTypeOK
<1>4. /\ Folded(tables, at) \in Int /\ Total(bound) \in Nat
      /\ -Total(bound) <= Folded(tables, at) /\ Folded(tables, at) <= Total(bound)
  BY <1>3 DEF Folded, Total, Inputs
<1>5. 2 * Total(bound) + 1 <= scale /\ scale \in Nat
  BY <1>1, <1>2 DEF Bounds, TablesTypeOK
<1>6. contexts \in Nat /\ Total(bound) <= contexts - 1
  BY <1>1, <1>4, <1>5 DEF ContextCount, TablesTypeOK
<1> QED BY <1>4, <1>6

\* Whatever runs a record holds, a set of tables that was accepted names only
\* contexts it has (configuration_parser.cpp:328 and context_model.cpp:54).
THEOREM ContextsAlwaysInRange == SpecTables => []ContextsInRange
BY TablesInvariant, InvariantGivesRange, PTL

\* Neither the entries that are read nor their mirror images leave the 32 bits
\* they are stored in (configuration_parser.cpp:369 and :378).
THEOREM EntriesAlwaysFit == SpecTables => []EntriesFit
<1>1. TablesInv => EntriesFit
  BY DEF TablesInv
<1> QED BY <1>1, TablesInvariant, PTL
-----------------------------------------------------------------------------
(***************************************************************************)
(* What is left of a sequence behind its first entries.                    *)
(***************************************************************************)
After(s, j) == [i \in 1..(Len(s) - j) |-> s[i + j]]

\* What is left of a sequence is one, shorter by what was taken.
LEMMA AfterTypes ==
  ASSUME NEW T, NEW s \in Seq(T), NEW j \in 0..Len(s)
  PROVE  /\ After(s, j) \in Seq(T)
         /\ Len(After(s, j)) = Len(s) - j
         /\ \A i \in 1..(Len(s) - j) : After(s, j)[i] = s[i + j]
<1>1. Len(s) - j \in Nat /\ \A i \in 1..(Len(s) - j) : s[i + j] \in T
  OBVIOUS
<1>2. After(s, j) \in Seq(T)
  <2>1. After(s, j) \in [1..(Len(s) - j) -> T]
    BY <1>1 DEF After
  <2> QED BY <1>1, <2>1
<1> QED BY <1>1, <1>2 DEF After

\* Nothing is left behind the last entry: what follows is all there is.
LEMMA AfterAll ==
  ASSUME NEW T, NEW s \in Seq(T), NEW t \in Seq(T)
  PROVE  After(s, Len(s)) \o t = t
<1>1. Len(s) \in Nat
  OBVIOUS
<1>2. After(s, Len(s)) \in Seq(T) /\ Len(After(s, Len(s))) = 0
  BY <1>1, AfterTypes
<1>3. After(s, Len(s)) = <<>>
  BY <1>2
<1> QED BY <1>3, ConcatEmptySeq

\* Behind no entry the sequence is still whole.
LEMMA AfterNone ==
  ASSUME NEW T, NEW s \in Seq(T)
  PROVE  After(s, 0) = s
<1>1. Len(s) \in Nat
  OBVIOUS
<1>2. After(s, 0) \in Seq(T) /\ Len(After(s, 0)) = Len(s)
      /\ \A i \in 1..Len(s) : After(s, 0)[i] = s[i + 0]
  BY <1>1, AfterTypes
<1>3. \A i \in 1..Len(s) : After(s, 0)[i] = s[i]
  BY <1>1, <1>2
<1> QED BY <1>2, <1>3, SeqEqual

\* Reading one more of them.
LEMMA TakeOne ==
  ASSUME NEW T, NEW s \in Seq(T), NEW t \in Seq(T), NEW j \in 0..Len(s), j < Len(s)
  PROVE  /\ After(s, j) \o t # <<>>
         /\ Head(After(s, j) \o t) = s[j + 1]
         /\ Tail(After(s, j) \o t) = After(s, j + 1) \o t
<1> DEFINE a == After(s, j)
           b == After(s, j + 1)
<1>1. j \in Nat /\ Len(s) \in Nat /\ Len(t) \in Nat
  OBVIOUS
<1>2. a \in Seq(T) /\ Len(a) = Len(s) - j /\ \A i \in 1..(Len(s) - j) : a[i] = s[i + j]
  BY AfterTypes
<1>3. b \in Seq(T) /\ Len(b) = Len(s) - (j + 1)
      /\ \A i \in 1..(Len(s) - (j + 1)) : b[i] = s[i + (j + 1)]
  <2>1. j + 1 \in 0..Len(s)
    BY <1>1
  <2> QED BY <2>1, AfterTypes
<1> HIDE DEF a, b
<1> DEFINE l == a \o t
           r == b \o t
<1>4. l \in Seq(T) /\ Len(l) = Len(a) + Len(t)
      /\ \A i \in 1..(Len(a) + Len(t)) : l[i] = IF i <= Len(a) THEN a[i] ELSE t[i - Len(a)]
  BY <1>2, ConcatProperties
<1>5. r \in Seq(T) /\ Len(r) = Len(b) + Len(t)
      /\ \A i \in 1..(Len(b) + Len(t)) : r[i] = IF i <= Len(b) THEN b[i] ELSE t[i - Len(b)]
  BY <1>3, ConcatProperties
<1> HIDE DEF l, r
<1>6. l # <<>>
  BY <1>1, <1>2, <1>4
<1>7. Head(l) = s[j + 1]
  <2>1. Head(l) = l[1]
    BY <1>4, <1>6
  <2>2. l[1] = a[1]
    BY <1>1, <1>2, <1>4
  <2>3. a[1] = s[1 + j]
    BY <1>1, <1>2
  <2> QED BY <1>1, <2>1, <2>2, <2>3
<1>8. Tail(l) = r
  <2>1. Tail(l) \in Seq(T) /\ Len(Tail(l)) = Len(l) - 1
        /\ \A i \in 1..Len(Tail(l)) : Tail(l)[i] = l[i + 1]
    BY <1>4, <1>6, HeadTailProperties
  <2>2. Len(Tail(l)) = Len(r)
    BY <1>1, <1>2, <1>3, <1>4, <1>5, <2>1
  <2>3. ASSUME NEW i \in 1..Len(r)
        PROVE  Tail(l)[i] = r[i]
    <3>1. Tail(l)[i] = l[i + 1] /\ i \in Nat /\ i >= 1
      BY <1>1, <1>3, <1>5, <2>1, <2>2
    <3>4. i \in 1..(Len(b) + Len(t)) /\ i + 1 \in 1..(Len(a) + Len(t)) /\ Len(a) = Len(b) + 1
      BY <1>1, <1>2, <1>3, <1>5
    <3>5. r[i] = IF i <= Len(b) THEN b[i] ELSE t[i - Len(b)]
      BY <1>5, <3>4
    <3>6. l[i + 1] = IF i + 1 <= Len(a) THEN a[i + 1] ELSE t[(i + 1) - Len(a)]
      BY <1>4, <3>4
    <3>7. Len(b) \in Nat /\ i \in Nat
      BY <1>3, <3>1
    <3>2. CASE i <= Len(b)
      <4>1. l[i + 1] = a[i + 1]
        BY <3>2, <3>4, <3>6, <3>7
      <4>2. a[i + 1] = s[(i + 1) + j]
        BY <1>1, <1>2, <1>3, <3>1, <3>2
      <4>3. r[i] = b[i] /\ b[i] = s[i + (j + 1)]
        <5>1. i \in 1..(Len(s) - (j + 1))
          BY <1>1, <1>3, <3>1, <3>2
        <5> QED BY <1>3, <3>2, <3>5, <5>1
      <4>4. (i + 1) + j = i + (j + 1)
        BY <1>1, <3>1
      <4> QED BY <3>1, <4>1, <4>2, <4>3, <4>4
    <3>3. CASE i > Len(b)
      <4>1. l[i + 1] = t[(i + 1) - Len(a)]
        BY <3>3, <3>4, <3>6, <3>7
      <4>2. r[i] = t[i - Len(b)]
        BY <3>3, <3>5, <3>7
      <4>3. (i + 1) - Len(a) = i - Len(b)
        BY <3>4, <3>7
      <4>4. t[(i + 1) - Len(a)] = t[i - Len(b)]
        BY <4>3
      <4>5. Tail(l)[i] = l[i + 1]
        BY <3>1
      <4> QED BY <4>1, <4>2, <4>4, <4>5
    <3>8. i <= Len(b) \/ i > Len(b)
      BY <3>7
    <3> QED BY <3>2, <3>3, <3>8
  <2> QED BY <1>5, <2>1, <2>2, <2>3, SeqEqual
<1> QED BY <1>6, <1>7, <1>8 DEF l, r, a, b
(***************************************************************************)
(* Recursive functions.                                                    *)
(***************************************************************************)
\* A set of natural numbers has a least member.
LEMMA LeastElement ==
  ASSUME NEW A \in SUBSET Nat, A # {}
  PROVE  \E least \in A : \A n \in A : least <= n
<1>1. PICK least \in A : \A n \in A : ~ (<<n, least>> \in OpToRel(<, Nat))
  BY NatLessThanWellFounded, WFMin
<1>2. ASSUME NEW n \in A, n < least
      PROVE  FALSE
  BY <1>1, <1>2 DEF OpToRel
<1>3. QED
  BY <1>2

\* Induction, over the members of a set.
LEMMA SetInduction ==
  ASSUME NEW Reached, 0 \in Reached, \A n \in Nat : n \in Reached => n + 1 \in Reached
  PROVE  Nat \subseteq Reached
<1> SUFFICES ASSUME Nat \ Reached # {}
             PROVE  FALSE
  OBVIOUS
<1>1. PICK least \in Nat \ Reached : \A n \in Nat \ Reached : least <= n
  BY LeastElement
<1>2. least # 0
  OBVIOUS
<1>3. least - 1 \in Nat /\ least - 1 \in Reached
  BY <1>1, <1>2
<1>4. QED
  BY <1>1, <1>3

Iterates(f, T, base, step, n) ==
  /\ f \in [0..n -> T]
  /\ f[0] = base
  /\ \A i \in 1..n : f[i] = step[<<i, f[i - 1]>>]

\* A function defined step by step over 0..n is there (the scales of a set,
\* configuration_parser.cpp:325).
LEMMA IterationExists ==
  ASSUME NEW T, NEW base \in T, NEW step \in [Nat \X T -> T], NEW n \in Nat
  PROVE  \E f : Iterates(f, T, base, step, n)
<1> DEFINE Reached == {m \in Nat : \E f : Iterates(f, T, base, step, m)}
<1>1. 0 \in Reached
  <2> DEFINE f == [i \in 0..0 |-> base]
  <2>1. Iterates(f, T, base, step, 0)
    BY DEF Iterates
  <2>2. QED
    BY <2>1
<1>2. ASSUME NEW m \in Nat, m \in Reached
      PROVE  m + 1 \in Reached
  <2>1. PICK g : Iterates(g, T, base, step, m)
    BY <1>2
  <2> DEFINE top == step[<<m + 1, g[m]>>]
             h == [i \in 0..(m + 1) |-> IF i = m + 1 THEN top ELSE g[i]]
  <2>2. /\ g \in [0..m -> T] /\ g[0] = base
        /\ \A i \in 1..m : g[i] = step[<<i, g[i - 1]>>]
    BY <2>1 DEF Iterates
  <2>3. top \in T
    <3>1. g[m] \in T /\ m + 1 \in Nat
      BY <2>2
    <3>2. QED
      BY <3>1
  <2>4. \A i \in 0..m : h[i] = g[i]
    OBVIOUS
  <2>5. h[m + 1] = top
    OBVIOUS
  <2>6. h \in [0..(m + 1) -> T] /\ h[0] = base
    <3> HIDE DEF top
    <3>1. QED
      BY <2>2, <2>3
  <2> HIDE DEF h
  <2>7. ASSUME NEW i \in 1..(m + 1)
        PROVE  h[i] = step[<<i, h[i - 1]>>]
    <3>1. CASE i = m + 1
      <4>1. i - 1 = m /\ m \in 0..m
        BY <3>1
      <4>2. QED
        BY <2>4, <2>5, <3>1, <4>1
    <3>2. CASE i # m + 1
      <4>1. i \in 1..m /\ i \in 0..m /\ i - 1 \in 0..m
        BY <3>2
      <4>2. QED
        BY <2>2, <2>4, <4>1
    <3>3. QED
      BY <3>1, <3>2
  <2>8. Iterates(h, T, base, step, m + 1)
    BY <2>6, <2>7 DEF Iterates
  <2>9. QED
    BY <2>8
<1> HIDE DEF Reached
<1>3. n \in Reached
  BY <1>1, <1>2, SetInduction
<1>4. QED
  BY <1>3 DEF Reached

(***************************************************************************)
(* Joined sequences.                                                       *)
(***************************************************************************)
Joins(g, pieces, T) ==
  /\ g \in [0..Len(pieces) -> Seq(T)]
  /\ g[0] = <<>>
  /\ \A i \in 1..Len(pieces) : g[i] = g[i - 1] \o pieces[i]

\* Joining pieces one after the other is such a function.
LEMMA JoinExists ==
  ASSUME NEW T, NEW pieces \in Seq(Seq(T))
  PROVE  \E g : Joins(g, pieces, T)
<1> DEFINE n == Len(pieces)
           D == 1..n
           Joined == Seq(T)
           step == [w \in Nat \X Joined |-> IF w[1] \in D THEN w[2] \o pieces[w[1]] ELSE w[2]]
<1>1. n \in Nat /\ \A i \in D : pieces[i] \in Joined
  OBVIOUS
<1>2. step \in [Nat \X Joined -> Joined]
  <2> HIDE DEF D, n
  <2>1. ASSUME NEW w \in Nat \X Joined
        PROVE  (IF w[1] \in D THEN w[2] \o pieces[w[1]] ELSE w[2]) \in Joined
    <3>1. w[2] \in Joined /\ w[1] \in Nat
      OBVIOUS
    <3>2. CASE w[1] \in D
      <4>1. pieces[w[1]] \in Joined
        BY <1>1, <3>2
      <4>2. w[2] \o pieces[w[1]] \in Joined
        BY <3>1, <4>1, ConcatProperties
      <4> QED BY <3>2, <4>2
    <3>3. CASE w[1] \notin D
      BY <3>1, <3>3
    <3> QED BY <3>2, <3>3
  <2> QED BY <2>1
<1>3. <<>> \in Joined
  OBVIOUS
<1>4. PICK g : Iterates(g, Joined, <<>>, step, n)
  <2> HIDE DEF step, Joined
  <2> QED BY <1>1, <1>2, <1>3, IterationExists
<1>5. ASSUME NEW i \in D
      PROVE  g[i] = g[i - 1] \o pieces[i]
  <2>1. g[i - 1] \in Joined /\ g[i] = step[<<i, g[i - 1]>>] /\ i \in Nat
    <3> HIDE DEF step, Joined
    <3>1. i - 1 \in 0..n /\ i \in 1..n /\ i \in Nat
      BY <1>1
    <3> QED BY <1>4, <3>1 DEF Iterates
  <2> QED BY <2>1
<1>6. g \in [0..n -> Joined] /\ g[0] = <<>>
  BY <1>4 DEF Iterates
<1>7. Joins(g, pieces, T)
  BY <1>5, <1>6 DEF Joins
<1> QED BY <1>7

\* FlattenSeq is that join.
LEMMA Flattened ==
  ASSUME NEW T, NEW pieces \in Seq(Seq(T))
  PROVE  \E g : Joins(g, pieces, T) /\ FlattenSeq(pieces) = g[Len(pieces)]
<1> DEFINE n == Len(pieces)
           D == 1..n
           F(flatten) == [i \in D |-> IF i = 1 THEN pieces[i] ELSE flatten[i - 1] \o pieces[i]]
           h == CHOOSE flatten : flatten = F(flatten)
<1>1. n \in Nat /\ \A i \in D : pieces[i] \in Seq(T)
  OBVIOUS
<1>2. PICK g : Joins(g, pieces, T)
  BY JoinExists
<1>3. g[0] = <<>> /\ \A i \in D : g[i - 1] \in Seq(T) /\ g[i] = g[i - 1] \o pieces[i]
  <2>1. \A i \in D : i - 1 \in 0..n
    BY <1>1
  <2> QED BY <1>2, <2>1 DEF Joins
<1>4. CASE n = 0
  <2>1. pieces = <<>>
    BY <1>4
  <2>2. FlattenSeq(pieces) = pieces
    BY <1>4 DEF FlattenSeq
  <2> QED BY <1>2, <1>3, <1>4, <2>1, <2>2
<1>5. CASE n # 0
  <2>1. FlattenSeq(pieces) = h[n]
    BY <1>5 DEF FlattenSeq
  <2> DEFINE b == [i \in D |-> g[i]]
  <2>2. b = F(b)
    <3>1. ASSUME NEW i \in D
          PROVE  g[i] = IF i = 1 THEN pieces[i] ELSE b[i - 1] \o pieces[i]
      <4>1. CASE i = 1
        <5>3. g[i - 1] = <<>>
          BY <1>3, <4>1
        <5>1. g[i] = <<>> \o pieces[i] /\ pieces[i] \in Seq(T)
          BY <1>1, <1>3, <5>3
        <5>2. <<>> \o pieces[i] = pieces[i]
          BY <5>1, ConcatEmptySeq
        <5> QED BY <4>1, <5>1, <5>2
      <4>2. CASE i # 1
        <5>1. i - 1 \in D
          BY <1>1, <4>2
        <5>2. b[i - 1] = g[i - 1]
          BY <5>1
        <5> QED BY <1>3, <4>2, <5>2
      <4> QED BY <4>1, <4>2
    <3> QED BY <3>1
  <2> HIDE DEF b
  <2>3. h = F(h)
    BY <2>2
  <2> HIDE DEF h
  <2>4. \A i \in D : h[i] = IF i = 1 THEN pieces[i] ELSE h[i - 1] \o pieces[i]
    BY <2>3
  <2> DEFINE Reached == {m \in Nat : m + 1 \in D => h[m + 1] = g[m + 1]}
  <2>5. 0 \in Reached
    <3>1. ASSUME 1 \in D
          PROVE  h[1] = g[1]
      <4>1. h[1] = pieces[1] /\ pieces[1] \in Seq(T)
        BY <1>1, <2>4, <3>1
      <4>2. 1 - 1 = 0
        OBVIOUS
      <4>3. g[1] = <<>> \o pieces[1]
        BY <1>3, <3>1, <4>2
      <4> QED BY <4>1, <4>3, ConcatEmptySeq
    <3> QED BY <3>1
  <2>6. ASSUME NEW m \in Nat, m \in Reached
        PROVE  m + 1 \in Reached
    <3> SUFFICES ASSUME (m + 1) + 1 \in D
                 PROVE  h[(m + 1) + 1] = g[(m + 1) + 1]
      OBVIOUS
    <3> DEFINE q == m + 1
    <3>1. q \in D /\ q + 1 \in D /\ q + 1 # 1 /\ (q + 1) - 1 = q
      BY <1>1
    <3>2. h[q] = g[q]
      BY <2>6, <3>1
    <3> HIDE DEF q
    <3>3. h[q + 1] = h[q] \o pieces[q + 1]
      BY <2>4, <3>1
    <3>4. g[q + 1] = g[q] \o pieces[q + 1]
      BY <1>3, <3>1
    <3>5. h[q + 1] = g[q + 1]
      BY <3>2, <3>3, <3>4
    <3> QED BY <3>5 DEF q
  <2> HIDE DEF Reached
  <2>7. n - 1 \in Reached
    <3>1. Nat \subseteq Reached
      BY <2>5, <2>6, SetInduction
    <3>2. n - 1 \in Nat
      BY <1>1, <1>5
    <3> QED BY <3>1, <3>2
  <2>8. h[n] = g[n]
    <3>1. (n - 1) + 1 = n /\ n \in D
      BY <1>1, <1>5
    <3> QED BY <2>7, <3>1 DEF Reached
  <2> QED BY <1>2, <2>1, <2>8
<1> QED BY <1>4, <1>5

\* The first piece comes first.
Behind(q, p, T) ==
  /\ p \in Seq(Seq(T)) /\ q \in Seq(Seq(T))
  /\ Len(p) = Len(q) + 1
  /\ \A i \in 1..Len(q) : q[i] = p[i + 1]

\* The pieces joined are the first one and the others joined.
LEMMA FlattenFirst ==
  ASSUME NEW T, NEW p, NEW q, Behind(q, p, T)
  PROVE  /\ FlattenSeq(p) = p[1] \o FlattenSeq(q)
         /\ p[1] \in Seq(T) /\ FlattenSeq(q) \in Seq(T) /\ FlattenSeq(p) \in Seq(T)
<1> DEFINE n == Len(q)
<1>1. n \in Nat /\ Len(p) = n + 1 /\ p[1] \in Seq(T)
      /\ \A i \in 1..n : p[i + 1] \in Seq(T) /\ i + 1 \in 1..(n + 1)
  <2>1. n \in Nat /\ Len(p) = n + 1
    BY DEF Behind
  <2>2. \A i \in 1..(n + 1) : p[i] \in Seq(T)
    BY <2>1, ElementOfSeq DEF Behind
  <2> QED BY <2>1, <2>2
<1>2. PICK g : Joins(g, p, T) /\ FlattenSeq(p) = g[n + 1]
  BY <1>1, Flattened DEF Behind
<1>3. PICK h : Joins(h, q, T) /\ FlattenSeq(q) = h[n]
  BY Flattened DEF Behind
<1> HIDE DEF n
<1>4. g[0] = <<>> /\ \A i \in 1..(n + 1) : g[i] = g[i - 1] \o p[i]
  BY <1>1, <1>2 DEF Joins
<1>5. h \in [0..n -> Seq(T)] /\ h[0] = <<>>
      /\ \A i \in 1..n : h[i] = h[i - 1] \o p[i + 1]
  BY <1>1, <1>3 DEF Joins, n, Behind
<1> DEFINE Same(m) == g[m + 1] = p[1] \o h[m]
           Reached == {m \in Nat : m <= n => Same(m)}
<1>6. 0 \in Reached
  <2>1. g[1] = <<>> \o p[1]
    <3>1. 1 \in 1..(n + 1) /\ 1 - 1 = 0
      BY <1>1
    <3> QED BY <1>4, <3>1
  <2>2. p[1] \o <<>> = p[1] /\ <<>> \o p[1] = p[1]
    BY <1>1, ConcatEmptySeq
  <2>3. g[0 + 1] = p[1] \o h[0]
    BY <1>5, <2>1, <2>2
  <2>4. Same(0)
    BY <2>3
  <2> HIDE DEF Same
  <2> QED BY <2>4
<1>7. ASSUME NEW m \in Nat, m \in Reached
      PROVE  m + 1 \in Reached
  <2> SUFFICES ASSUME m + 1 <= n
               PROVE  Same(m + 1)
    <3> HIDE DEF Same
    <3> QED OBVIOUS
  <2>1. m <= n /\ m \in 0..n /\ m + 1 \in 1..n /\ (m + 1) + 1 \in 1..(n + 1)
        /\ ((m + 1) + 1) - 1 = m + 1 /\ (m + 1) - 1 = m
    BY <1>1
  <2>2. Same(m)
    <3> HIDE DEF Same
    <3> QED BY <1>7, <2>1
  <2>3. g[(m + 1) + 1] = g[m + 1] \o p[(m + 1) + 1]
    BY <1>4, <2>1
  <2>4. h[m + 1] = h[m] \o p[(m + 1) + 1]
    BY <1>5, <2>1
  <2>5. h[m] \in Seq(T) /\ p[(m + 1) + 1] \in Seq(T)
    BY <1>1, <1>5, <2>1
  <2>6. (p[1] \o h[m]) \o p[(m + 1) + 1] = p[1] \o (h[m] \o p[(m + 1) + 1])
    <3> DEFINE a == p[1]
               b == h[m]
               c == p[(m + 1) + 1]
    <3>1. a \in Seq(T) /\ b \in Seq(T) /\ c \in Seq(T)
      BY <1>1, <2>5
    <3> HIDE DEF a, b, c
    <3>2. (a \o b) \o c = a \o (b \o c)
      BY <3>1, ConcatAssociative
    <3> QED BY <3>2 DEF a, b, c
  <2>7. g[(m + 1) + 1] = (p[1] \o h[m]) \o p[(m + 1) + 1]
    <3>1. g[m + 1] = p[1] \o h[m]
      BY <2>2
    <3> QED BY <2>3, <3>1
  <2>8. p[1] \o h[m + 1] = p[1] \o (h[m] \o p[(m + 1) + 1])
    BY <2>4
  <2> QED BY <2>6, <2>7, <2>8
<1> HIDE DEF Reached
<1>8. n \in Reached
  <2>1. Nat \subseteq Reached
    BY <1>6, <1>7, SetInduction
  <2>2. n \in Nat
    BY <1>1
  <2> QED BY <2>1, <2>2
<1>9. g[n + 1] = p[1] \o h[n] /\ h[n] \in Seq(T)
  BY <1>1, <1>5, <1>8 DEF Reached
<1>10. p[1] \o h[n] \in Seq(T)
  BY <1>1, <1>9, ConcatProperties
<1> QED BY <1>1, <1>2, <1>3, <1>9, <1>10

\* The same of the pieces that are left.
LEMMA FlattenAfter ==
  ASSUME NEW T, NEW pieces \in Seq(Seq(T)), NEW j \in 0..Len(pieces), j < Len(pieces)
  PROVE  /\ FlattenSeq(After(pieces, j)) = pieces[j + 1] \o FlattenSeq(After(pieces, j + 1))
         /\ pieces[j + 1] \in Seq(T)
         /\ FlattenSeq(After(pieces, j + 1)) \in Seq(T)
         /\ FlattenSeq(After(pieces, j)) \in Seq(T)
<1> DEFINE p == After(pieces, j)
           q == After(pieces, j + 1)
           n == Len(pieces)
           P == Seq(T)
<1>1. n \in Nat /\ j \in Nat /\ j + 1 \in 0..n
  OBVIOUS
<1>2. p \in Seq(P) /\ Len(p) = n - j /\ \A i \in 1..(n - j) : p[i] = pieces[i + j]
  BY AfterTypes
<1>3. q \in Seq(P) /\ Len(q) = n - (j + 1)
      /\ \A i \in 1..(n - (j + 1)) : q[i] = pieces[i + (j + 1)]
  BY <1>1, AfterTypes
<1> HIDE DEF p, q, n
<1>4. Len(p) = Len(q) + 1
  BY <1>1, <1>2, <1>3
<1>5. ASSUME NEW i \in 1..Len(q)
      PROVE  q[i] = p[i + 1]
  <2>1. i \in 1..(n - (j + 1)) /\ i + 1 \in 1..(n - j) /\ (i + 1) + j = i + (j + 1)
    BY <1>1, <1>3
  <2>2. q[i] = pieces[i + (j + 1)] /\ p[i + 1] = pieces[(i + 1) + j]
    BY <1>2, <1>3, <2>1
  <2> QED BY <2>1, <2>2
<1>6. p[1] = pieces[j + 1]
  <2>1. 1 \in 1..(n - j) /\ 1 + j = j + 1
    BY <1>1 DEF n
  <2> QED BY <1>2, <2>1
<1>7. FlattenSeq(p) = p[1] \o FlattenSeq(q)
      /\ p[1] \in Seq(T) /\ FlattenSeq(q) \in Seq(T) /\ FlattenSeq(p) \in Seq(T)
  <2>1. Behind(q, p, T)
    BY <1>2, <1>3, <1>4, <1>5 DEF Behind, P
  <2> QED BY <2>1, FlattenFirst
<1> QED BY <1>6, <1>7 DEF p, q

\* No pieces make nothing.
LEMMA FlattenNothing ==
  ASSUME NEW T, NEW pieces \in Seq(T)
  PROVE  FlattenSeq(After(pieces, Len(pieces))) = <<>>
<1>1. After(pieces, Len(pieces)) \in Seq(T) /\ Len(After(pieces, Len(pieces))) = 0
  <2>1. Len(pieces) \in Nat
    OBVIOUS
  <2> QED BY <2>1, AfterTypes
<1>2. After(pieces, Len(pieces)) = <<>>
  BY <1>1
<1> QED BY <1>1, <1>2 DEF FlattenSeq

\* Whatever is left of the pieces, it is one sequence.
LEMMA FlattenType ==
  ASSUME NEW T, NEW pieces \in Seq(Seq(T)), NEW j \in 0..Len(pieces)
  PROVE  FlattenSeq(After(pieces, j)) \in Seq(T)
<1>1. CASE j < Len(pieces)
  BY <1>1, FlattenAfter
<1>2. CASE j = Len(pieces)
  <2>1. FlattenSeq(After(pieces, j)) = <<>>
    BY <1>2, FlattenNothing
  <2> QED BY <2>1
<1> QED BY <1>1, <1>2

(***************************************************************************)
(* Runs of the tables a writer takes.                                      *)
(***************************************************************************)
LastEntry == Half - 1

\* Steps of a half table: how many of them lead to an entry.
Steps(level) ==
  /\ level \in [0..LastEntry -> Nat]
  /\ level[0] = 0
  /\ \A p \in 1..LastEntry : level[p] = level[p - 1] \/ level[p] = level[p - 1] + 1

\* The coded half of a table is not empty (configuration_parser.cpp:350).
LEMMA HalfTypes == Half \in Nat /\ LastEntry \in Nat /\ LastEntry + 1 = Half
BY QuantTablesAssumption DEF LastEntry

\* An entry that can be coded is as many times the scale as steps lead to it.
LEMMA StepsExist ==
  ASSUME NEW entries \in [Positions -> Int], NEW by \in Nat, by >= 1, Encodable(entries, by)
  PROVE  \E level : Steps(level) /\ \A p \in 0..LastEntry : entries[p] = by * level[p]
<1> DEFINE step == [w \in Nat \X Nat |-> IF w[1] \in 1..LastEntry /\ entries[w[1]] # entries[w[1] - 1]
                                         THEN w[2] + 1 ELSE w[2]]
<1>1. step \in [Nat \X Nat -> Nat]
  OBVIOUS
<1>2. PICK level : Iterates(level, Nat, 0, step, LastEntry)
  <2> HIDE DEF step
  <2> QED BY <1>1, HalfTypes, IterationExists
<1>3. level \in [0..LastEntry -> Nat] /\ level[0] = 0
  BY <1>2 DEF Iterates
<1>4. ASSUME NEW p \in 1..LastEntry
      PROVE  /\ p - 1 \in 0..LastEntry /\ level[p - 1] \in Nat
             /\ level[p] = IF entries[p] # entries[p - 1] THEN level[p - 1] + 1
                           ELSE level[p - 1]
  <2>1. p - 1 \in 0..LastEntry /\ p \in Nat
    BY HalfTypes
  <2>2. level[p - 1] \in Nat
    BY <1>3, <2>1
  <2>3. level[p] = step[<<p, level[p - 1]>>]
    <3> HIDE DEF step
    <3> QED BY <1>2 DEF Iterates
  <2> QED BY <2>1, <2>2, <2>3
<1>5. Steps(level)
  BY <1>3, <1>4 DEF Steps
<1> DEFINE Same(p) == entries[p] = by * level[p]
           Reached == {p \in Nat : p <= LastEntry => Same(p)}
<1>6. Same(0)
  BY <1>3 DEF Encodable
<1>7. ASSUME NEW p \in Nat, p \in Reached, p + 1 <= LastEntry
      PROVE  Same(p + 1)
  <2>1. p + 1 \in 1..LastEntry /\ (p + 1) - 1 = p /\ p <= LastEntry
    BY <1>7, HalfTypes
  <2>2. entries[p] = by * level[p]
    BY <1>7, <2>1
  <2>3. entries[p + 1] - entries[p] \in {0, by}
    BY <2>1 DEF Encodable, LastEntry
  <2>4. entries[p] \in Int /\ entries[p + 1] \in Int
    BY <2>1, HalfTypes DEF Positions, LastEntry
  <2>5. level[p] \in Nat /\ level[p + 1] = IF entries[p + 1] # entries[p] THEN level[p] + 1
                                           ELSE level[p]
    BY <1>4, <2>1
  <2>6. by * (level[p] + 1) = by * level[p] + by /\ by * level[p] \in Int
    BY <2>5
  <2>7. CASE entries[p + 1] = entries[p]
    BY <2>2, <2>5, <2>7
  <2>8. CASE entries[p + 1] # entries[p]
    <3>1. entries[p + 1] = entries[p] + by
      BY <2>3, <2>4, <2>8
    <3>2. level[p + 1] = level[p] + 1
      BY <2>5, <2>8
    <3> QED BY <2>2, <2>6, <3>1, <3>2
  <2> QED BY <2>7, <2>8
<1> HIDE DEF Same
<1>8. \A p \in 0..LastEntry : Same(p)
  <2>1. 0 \in Reached
    BY <1>6
  <2>2. ASSUME NEW p \in Nat, p \in Reached
        PROVE  p + 1 \in Reached
    BY <1>7, <2>2
  <2> HIDE DEF Reached
  <2>3. Nat \subseteq Reached
    BY <2>1, <2>2, SetInduction
  <2>4. ASSUME NEW p \in 0..LastEntry
        PROVE  Same(p)
    <3>1. p \in Nat /\ p <= LastEntry
      BY HalfTypes
    <3> QED BY <2>3, <3>1 DEF Reached
  <2> QED BY <2>4
<1> QED BY <1>5, <1>8 DEF Same

\* Entries that never fall reach a level once and stay above the ones before.
LEMMA StepsUp ==
  ASSUME NEW level, Steps(level), NEW p \in 0..LastEntry, NEW q \in 0..LastEntry, p <= q
  PROVE  level[p] <= level[q]
<1> DEFINE Up(n) == level[p] <= level[n]
           Reached == {n \in Nat : p + n <= LastEntry => Up(p + n)}
<1>1. LastEntry \in Nat /\ p \in Nat /\ q \in Nat /\ level[p] \in Nat
  BY HalfTypes DEF Steps
<1>2. p + 0 = p /\ Up(p)
  BY <1>1
<1>3. ASSUME NEW n \in Nat, n \in Reached, p + (n + 1) <= LastEntry
      PROVE  Up(p + (n + 1))
  <2>1. p + n <= LastEntry /\ p + n \in 0..LastEntry /\ p + (n + 1) \in 1..LastEntry
        /\ (p + (n + 1)) - 1 = p + n
    BY <1>1, <1>3
  <2>2. level[p] <= level[p + n] /\ level[p + n] \in Nat
    BY <1>3, <2>1 DEF Steps
  <2>3. level[p + (n + 1)] = level[p + n] \/ level[p + (n + 1)] = level[p + n] + 1
    BY <2>1 DEF Steps
  <2> QED BY <1>1, <2>2, <2>3
<1> HIDE DEF Up
<1>4. 0 \in Reached
  BY <1>2
<1>5. ASSUME NEW n \in Nat, n \in Reached
      PROVE  n + 1 \in Reached
  BY <1>3, <1>5
<1> HIDE DEF Reached
<1>6. q - p \in Reached
  <2>1. Nat \subseteq Reached
    BY <1>4, <1>5, SetInduction
  <2> QED BY <1>1, <2>1
<1>7. p + (q - p) = q /\ q <= LastEntry
  BY <1>1
<1>8. Up(q)
  BY <1>6, <1>7 DEF Reached
<1> QED BY <1>8 DEF Up

\* first[n] is where the run behind n others begins.
Stairs(first, entries, by, runs) ==
  /\ runs \in Nat /\ runs >= 1
  /\ first \in [0..runs -> 0..Half]
  /\ first[0] = 0 /\ first[runs] = Half
  /\ \A n \in 0..(runs - 1) :
       /\ first[n] < first[n + 1]
       /\ {p \in 0..LastEntry : entries[p] = by * n} = first[n]..(first[n + 1] - 1)

\* The first entry that as many steps lead to.
LEMMA FirstOfLevel ==
  ASSUME NEW level, Steps(level), NEW n \in 0..level[LastEntry]
  PROVE  \E p \in 0..LastEntry : level[p] = n /\ \A q \in 0..LastEntry : q < p => level[q] < n
<1> DEFINE A == {p \in 0..LastEntry : level[p] >= n}
<1>1. LastEntry \in Nat /\ level \in [0..LastEntry -> Nat] /\ level[LastEntry] \in Nat
  BY HalfTypes DEF Steps
<1>2. LastEntry \in A /\ A \subseteq Nat
  BY <1>1
<1>3. PICK p \in A : \A q \in A : p <= q
  BY <1>2, LeastElement
<1>4. ASSUME NEW q \in 0..LastEntry, q < p
      PROVE  level[q] < n
  <2>1. q \notin A
    BY <1>2, <1>3, <1>4
  <2> QED BY <1>1, <2>1
<1>5. p \in 0..LastEntry /\ level[p] >= n /\ level[p] \in Nat
  BY <1>1
<1>6. level[p] <= n
  <2>1. CASE p = 0
    BY <1>1, <2>1 DEF Steps
  <2>2. CASE p # 0
    <3>1. p \in 1..LastEntry /\ p - 1 \in 0..LastEntry /\ p - 1 < p
      BY <1>1, <1>5, <2>2
    <3>2. level[p - 1] < n /\ level[p - 1] \in Nat
      BY <1>1, <1>4, <3>1
    <3>3. level[p] = level[p - 1] \/ level[p] = level[p - 1] + 1
      BY <3>1 DEF Steps
    <3> QED BY <1>1, <3>2, <3>3
  <2> QED BY <2>1, <2>2
<1> QED BY <1>1, <1>4, <1>5, <1>6

\* Multiples of a scale are ordered as what they are multiples of.
LEMMA Multiples ==
  ASSUME NEW a \in Nat, NEW b \in Nat, NEW by \in Nat, by >= 1
  PROVE  /\ by * a = by * b => a = b
         /\ by * a \in Nat
         /\ a < b => by * a < by * b
         /\ a <= b => by * a <= by * b
OBVIOUS

\* What the writer takes for a table are stairs: the n-th run holds the
\* n-th multiple of the scale (configuration_record_writer.cpp:65).
LEMMA EncodableStairs ==
  ASSUME NEW entries \in [Positions -> Int], NEW by \in Nat, by >= 1, Encodable(entries, by)
  PROVE  \E first : Stairs(first, entries, by, RunsOf(entries))
<1>1. PICK level : Steps(level) /\ \A p \in 0..LastEntry : entries[p] = by * level[p]
  BY StepsExist
<1> DEFINE M == level[LastEntry]
           IsFirst(p, n) == level[p] = n /\ \A q \in 0..LastEntry : q < p => level[q] < n
           first == [n \in 0..(M + 1) |-> IF n = M + 1 THEN Half
                                          ELSE CHOOSE p \in 0..LastEntry : IsFirst(p, n)]
<1>2. LastEntry \in Nat /\ Half = LastEntry + 1 /\ level \in [0..LastEntry -> Nat] /\ M \in Nat /\ level[0] = 0
      /\ LastEntry \in 0..LastEntry /\ 0 \in 0..LastEntry
  BY <1>1, HalfTypes DEF Steps
<1>3. ASSUME NEW n \in 0..M
      PROVE  first[n] \in 0..LastEntry /\ IsFirst(first[n], n)
  <2>1. \E p \in 0..LastEntry : IsFirst(p, n)
    BY <1>1, FirstOfLevel
  <2>2. first[n] = CHOOSE p \in 0..LastEntry : IsFirst(p, n)
    BY <1>2
  <2> HIDE DEF IsFirst, first
  <2> QED BY <2>1, <2>2
<1>4. first[M + 1] = Half
  BY <1>2
<1>5. first \in [0..(M + 1) -> 0..Half]
  <2>1. ASSUME NEW n \in 0..(M + 1)
        PROVE  first[n] \in 0..Half
    <3>1. CASE n = M + 1
      BY <1>2, <1>4, <3>1
    <3>2. CASE n # M + 1
      <4>1. n \in 0..M
        BY <1>2, <3>2
      <4>2. first[n] \in 0..LastEntry
        BY <1>3, <4>1
      <4> QED BY <1>2, <4>2
    <3> QED BY <3>1, <3>2
  <2>2. first = [n \in 0..(M + 1) |-> first[n]]
    OBVIOUS
  <2> HIDE DEF first
  <2> QED BY <2>1, <2>2
<1> HIDE DEF first
<1>6. \A p, q \in 0..LastEntry : p <= q => level[p] <= level[q]
  BY <1>1, StepsUp
<1>7. first[0] = 0
  <2>1. first[0] \in 0..LastEntry /\ \A q \in 0..LastEntry : q < first[0] => level[q] < 0
    BY <1>2, <1>3
  <2>2. ~(level[0] < 0)
    BY <1>2
  <2> QED BY <1>2, <2>1, <2>2
\* The bounds of a run.
<1>8. ASSUME NEW n \in 0..M, NEW p \in 0..LastEntry
      PROVE  /\ level[p] >= n <=> p >= first[n]
             /\ level[p] >= n + 1 <=> p >= first[n + 1]
  <2>1. ASSUME NEW m \in 0..M
        PROVE  level[p] >= m <=> p >= first[m]
    <3>1. first[m] \in 0..LastEntry /\ level[first[m]] = m
          /\ \A q \in 0..LastEntry : q < first[m] => level[q] < m
      BY <1>3
    <3>2. level[p] \in Nat /\ p \in Nat /\ first[m] \in Nat /\ m \in Nat
      BY <1>2, <3>1
    <3>3. p >= first[m] => level[p] >= m
      <4>1. first[m] <= p => level[first[m]] <= level[p]
        BY <1>6, <3>1
      <4> QED BY <3>1, <3>2, <4>1
    <3>4. p < first[m] => level[p] < m
      BY <3>1
    <3> QED BY <3>2, <3>3, <3>4
  <2>2. level[p] >= n + 1 <=> p >= first[n + 1]
    <3>1. CASE n = M
      <4>1. level[p] \in Nat /\ level[p] <= M /\ p \in Nat /\ p <= LastEntry
        BY <1>2, <1>6
      <4>2. first[n + 1] = LastEntry + 1
        BY <1>2, <1>4, <3>1
      <4> QED BY <1>2, <3>1, <4>1, <4>2
    <3>2. CASE n # M
      <4>1. n + 1 \in 0..M
        BY <1>2, <3>2
      <4> QED BY <2>1, <4>1
    <3> QED BY <3>1, <3>2
  <2> QED BY <2>1, <2>2
<1>9. ASSUME NEW n \in 0..((M + 1) - 1)
      PROVE  /\ first[n] < first[n + 1]
             /\ {p \in 0..LastEntry : entries[p] = by * n} = first[n]..(first[n + 1] - 1)
  <2>1. n \in 0..M /\ n \in Nat /\ n \in 0..(M + 1) /\ n + 1 \in 0..(M + 1)
    BY <1>2
  <2>2. first[n] \in 0..LastEntry /\ level[first[n]] = n
    BY <1>3, <2>1
  <2>3. first[n + 1] \in 0..Half
    BY <1>5, <2>1
  <2>4. first[n] < first[n + 1]
    <3>1. level[first[n]] >= n + 1 <=> first[n] >= first[n + 1]
      BY <1>8, <2>1, <2>2
    <3> QED BY <1>2, <2>1, <2>2, <2>3, <3>1
  <2>5. ASSUME NEW p \in 0..LastEntry
        PROVE  entries[p] = by * n <=> p >= first[n] /\ p < first[n + 1]
    <3>1. level[p] \in Nat /\ entries[p] = by * level[p] /\ p \in Nat
      BY <1>1, <1>2
    <3>2. entries[p] = by * n <=> level[p] = n
      BY <2>1, <3>1, Multiples
    <3>3. /\ level[p] >= n <=> p >= first[n]
          /\ level[p] >= n + 1 <=> p >= first[n + 1]
      BY <1>8, <2>1
    <3> QED BY <1>2, <2>1, <2>2, <2>3, <3>1, <3>2, <3>3
  <2>6. first[n]..(first[n + 1] - 1) \subseteq 0..LastEntry
    BY <1>2, <2>2, <2>3
  <2>7. ASSUME NEW p
        PROVE  p \in {q \in 0..LastEntry : entries[q] = by * n} <=> p \in first[n]..(first[n + 1] - 1)
    <3>1. CASE p \notin 0..LastEntry
      BY <2>6, <3>1
    <3>2. CASE p \in 0..LastEntry
      <4>1. p \in {q \in 0..LastEntry : entries[q] = by * n} <=> entries[p] = by * n
        BY <3>2
      <4>2. p \in first[n]..(first[n + 1] - 1) <=> p >= first[n] /\ p < first[n + 1]
        BY <1>2, <2>2, <2>3, <3>2
      <4> QED BY <2>5, <3>2, <4>1, <4>2
    <3> QED BY <3>1, <3>2
  <2> QED BY <2>4, <2>7
<1>10. RunsOf(entries) = M + 1
  <2> DEFINE Values == {entries[p] : p \in 0..(Half - 1)}
             f == [n \in 0..M |-> by * n]
  <2>1. Values = {entries[p] : p \in 0..LastEntry}
    BY DEF LastEntry
  <2>2. \A n \in 0..M : f[n] = by * n /\ f[n] \in Values
    <3>1. ASSUME NEW n \in 0..M
          PROVE  f[n] = by * n /\ f[n] \in Values
      <4>1. first[n] \in 0..LastEntry /\ level[first[n]] = n
        BY <1>3
      <4>2. entries[first[n]] = by * n
        BY <1>1, <4>1
      <4> QED BY <2>1, <4>1, <4>2
    <3> QED BY <3>1
  <2>3. f \in [0..M -> Values]
    <3>1. f = [n \in 0..M |-> f[n]]
      OBVIOUS
    <3> HIDE DEF f, Values
    <3> QED BY <2>2, <3>1
  <2>4. \A a, b \in 0..M : f[a] = f[b] => a = b
    <3>1. ASSUME NEW a \in 0..M, NEW b \in 0..M, f[a] = f[b]
          PROVE  a = b
      <4>1. a \in Nat /\ b \in Nat /\ by * a = by * b
        BY <1>2, <2>2, <3>1
      <4> QED BY <4>1, Multiples
    <3> QED BY <3>1
  <2>5. \A v \in Values : \E n \in 0..M : f[n] = v
    <3>1. ASSUME NEW p \in 0..LastEntry
          PROVE  \E n \in 0..M : f[n] = entries[p]
      <4>1. level[p] \in Nat /\ level[p] <= M
        BY <1>2, <1>6
      <4>2. level[p] \in 0..M /\ entries[p] = by * level[p]
        BY <1>1, <1>2, <4>1
      <4> QED BY <2>2, <4>2
    <3> QED BY <2>1, <3>1
  <2> HIDE DEF f, Values
  <2>6. f \in Bijection(0..M, Values)
    BY <2>3, <2>4, <2>5, Fun_IsBij
  <2>7. ExistsBijection(0..M, Values)
    BY <2>6 DEF ExistsBijection
  <2>8. IsFiniteSet(0..M) /\ Cardinality(0..M) = M + 1
    BY <1>2, FS_Interval
  <2>9. Cardinality(Values) = M + 1
    BY <2>7, <2>8, FS_Bijection
  <2> QED BY <2>9 DEF RunsOf, Values
<1> HIDE DEF M
<1>11. Stairs(first, entries, by, M + 1)
  <2>1. M + 1 \in Nat /\ M + 1 >= 1
    BY <1>2
  <2> QED BY <1>4, <1>5, <1>7, <1>9, <2>1 DEF Stairs
<1> QED BY <1>10, <1>11

\* A product of positive numbers is one.
LEMMA ProductPositive ==
  ASSUME NEW a \in Nat \ {0}, NEW b \in Nat \ {0}
  PROVE  a * b \in Nat \ {0}
OBVIOUS

\* The scales of the tables of a set.
LEMMA ScalesGrow ==
  ASSUME NEW set, \A i \in Inputs : RunsOf(set.tables[i]) \in Nat /\ RunsOf(set.tables[i]) >= 1
  PROVE  /\ Scales(set) \in [1..6 -> Nat \ {0}]
         /\ Scales(set)[1] = 1
         /\ \A i \in Inputs : Scales(set)[i + 1] = Scales(set)[i] * Multiplier(RunsOf(set.tables[i]))
<1> DEFINE m == [i \in Inputs |-> Multiplier(RunsOf(set.tables[i]))]
           Positive == Nat \ {0}
           F(at) == [i \in 1..6 |-> IF i = 1 THEN 1
                                    ELSE at[i - 1] * Multiplier(RunsOf(set.tables[i - 1]))]
           h == CHOOSE at : at = F(at)
           step == [w \in Nat \X Positive |-> IF w[1] \in Inputs THEN w[2] * m[w[1]] ELSE w[2]]
<1>1. \A i \in Inputs : m[i] \in Positive
  <2>1. ASSUME NEW n \in Nat, n >= 1
        PROVE  Multiplier(n) \in Positive
    BY <2>1 DEF Multiplier
  <2> QED BY <2>1
<1>2. step \in [Nat \X Positive -> Positive]
  <2> HIDE DEF m
  <2>1. ASSUME NEW w \in Nat \X Positive
        PROVE  (IF w[1] \in Inputs THEN w[2] * m[w[1]] ELSE w[2]) \in Positive
    BY <1>1, ProductPositive
  <2> QED BY <2>1
<1>3. PICK g : Iterates(g, Positive, 1, step, 5)
  <2> HIDE DEF step
  <2>1. 1 \in Positive
    OBVIOUS
  <2> HIDE DEF Positive
  <2> QED BY <1>2, <2>1, IterationExists
<1>4. g \in [0..5 -> Positive] /\ g[0] = 1
  BY <1>3 DEF Iterates
<1>5. ASSUME NEW i \in Inputs
      PROVE  g[i - 1] \in Positive /\ g[i] = g[i - 1] * m[i]
  <2>1. i - 1 \in 0..5 /\ i \in Nat
    BY DEF Inputs
  <2>2. g[i - 1] \in Positive
    BY <1>4, <2>1
  <2>3. g[i] = step[<<i, g[i - 1]>>]
    <3> HIDE DEF step
    <3> QED BY <1>3 DEF Iterates, Inputs
  <2> HIDE DEF m
  <2> QED BY <2>1, <2>2, <2>3
<1> DEFINE b == [i \in 1..6 |-> g[i - 1]]
<1>6. b = F(b)
  <2>1. ASSUME NEW i \in 1..6
        PROVE  g[i - 1] = IF i = 1 THEN 1
                          ELSE b[i - 1] * Multiplier(RunsOf(set.tables[i - 1]))
    <3>1. CASE i = 1
      BY <1>4, <3>1
    <3>2. CASE i # 1
      <4>1. i - 1 \in Inputs /\ i - 1 \in 1..6
        BY <3>2 DEF Inputs
      <4>2. g[i - 1] = g[(i - 1) - 1] * m[i - 1]
        BY <1>5, <4>1
      <4>3. b[i - 1] = g[(i - 1) - 1] /\ m[i - 1] = Multiplier(RunsOf(set.tables[i - 1]))
        BY <4>1
      <4> QED BY <3>2, <4>2, <4>3
    <3> QED BY <3>1, <3>2
  <2> QED BY <2>1
<1> HIDE DEF b
<1>7. h = F(h)
  BY <1>6
<1>8. Scales(set) = h
  BY DEF Scales
<1> HIDE DEF h
<1>9. \A i \in 1..6 : h[i] = IF i = 1 THEN 1 ELSE h[i - 1] * Multiplier(RunsOf(set.tables[i - 1]))
  BY <1>7
<1>10. \A i \in Inputs : h[i + 1] = h[i] * m[i]
  <2>1. ASSUME NEW i \in Inputs
        PROVE  h[i + 1] = h[i] * m[i]
    <3>1. i + 1 \in 1..6 /\ i + 1 # 1 /\ (i + 1) - 1 = i
      BY DEF Inputs
    <3> QED BY <1>9, <3>1
  <2> QED BY <2>1
<1> HIDE DEF m
<1>11. h[1] = 1 /\ h[2] \in Positive /\ h[3] \in Positive /\ h[4] \in Positive /\ h[5] \in Positive /\ h[6] \in Positive
  <2>1. h[1] = 1
    BY <1>9
  <2>2. ASSUME NEW i \in Inputs, h[i] \in Positive
        PROVE  h[i + 1] \in Positive
    BY <1>1, <1>10, <2>2, ProductPositive
  <2>3. h[1 + 1] \in Positive
    BY <2>1, <2>2 DEF Inputs
  <2>4. h[2 + 1] \in Positive
    BY <2>2, <2>3 DEF Inputs
  <2>5. h[3 + 1] \in Positive
    BY <2>2, <2>4 DEF Inputs
  <2>6. h[4 + 1] \in Positive
    BY <2>2, <2>5 DEF Inputs
  <2>7. h[5 + 1] \in Positive
    BY <2>2, <2>6 DEF Inputs
  <2> QED BY <2>1, <2>3, <2>4, <2>5, <2>6, <2>7
<1>12. h \in [1..6 -> Nat \ {0}]
  <2>1. h = [i \in 1..6 |-> h[i]]
    BY <1>7
  <2>2. \A i \in 1..6 : h[i] \in Positive
    BY <1>11
  <2> QED BY <2>1, <2>2
<1> QED BY <1>8, <1>10, <1>11, <1>12 DEF m

\* Every table has a run (configuration_parser.cpp:350).
LEMMA RunsPositive ==
  ASSUME NEW entries
  PROVE  RunsOf(entries) \in Nat /\ RunsOf(entries) >= 1
<1> DEFINE Values == {entries[p] : p \in 0..(Half - 1)}
           f == [p \in 0..(Half - 1) |-> entries[p]]
<1>1. f \in Surjection(0..(Half - 1), Values)
  BY Fun_IsSurj
<1>2. IsFiniteSet(0..(Half - 1))
  BY HalfTypes, FS_Interval DEF LastEntry
<1> HIDE DEF f
<1>3. IsFiniteSet(Values)
  <2> HIDE DEF Values
  <2> QED BY <1>1, <1>2, FS_Surjection
<1>4. Values # {}
  <2>1. 0 \in 0..(Half - 1)
    BY HalfTypes DEF LastEntry
  <2> QED BY <2>1
<1> HIDE DEF Values
<1>5. Cardinality(Values) \in Nat /\ Cardinality(Values) # 0
  BY <1>3, <1>4, FS_CardinalityType, FS_EmptySet
<1> QED BY <1>5 DEF RunsOf, Values

Sets == [tables : [Inputs -> [Positions -> Int]], contexts : Nat]
Symbols == {"unsigned", "bool", "signed"} \X Int \X Int

\* Where the runs of a table begin.
FirstOf(set, i) ==
  CHOOSE first : Stairs(first, set.tables[i], Scales(set)[i], RunsOf(set.tables[i]))

\* The scales of a set, each from the one before it (configuration_parser.cpp:325,
\* configuration_record_writer.cpp:141).
LEMMA SetScales ==
  ASSUME NEW set
  PROVE  /\ Scales(set) \in [1..6 -> Nat \ {0}]
         /\ Scales(set)[1] = 1
         /\ \A i \in Inputs : Scales(set)[i + 1] = Scales(set)[i] * Multiplier(RunsOf(set.tables[i]))
BY RunsPositive, ScalesGrow

\* The tables of a set the writer took are stairs of their scale.
LEMMA FirstIs ==
  ASSUME NEW set \in Sets, EncodableSet(set), NEW i \in Inputs
  PROVE  /\ Stairs(FirstOf(set, i), set.tables[i], Scales(set)[i], RunsOf(set.tables[i]))
         /\ Scales(set)[i] \in Nat /\ Scales(set)[i] >= 1
<1>1. set.tables[i] \in [Positions -> Int]
  BY DEF Sets
<1>2. Scales(set)[i] \in Nat /\ Scales(set)[i] >= 1
  BY SetScales DEF Inputs
<1>3. Encodable(set.tables[i], Scales(set)[i])
  BY DEF EncodableSet
<1>4. \E first : Stairs(first, set.tables[i], Scales(set)[i], RunsOf(set.tables[i]))
  BY <1>1, <1>2, <1>3, EncodableStairs
<1> QED BY <1>2, <1>4 DEF FirstOf

\* The symbols of a table are the lengths of its runs
\* (configuration_record_writer.cpp:111).
LEMMA TableWritten ==
  ASSUME NEW set \in Sets, EncodableSet(set), NEW i \in Inputs
  PROVE  /\ WrittenTable(set, i) \in Seq(Symbols)
         /\ Len(WrittenTable(set, i)) = RunsOf(set.tables[i])
         /\ \A n \in 1..RunsOf(set.tables[i]) :
              WrittenTable(set, i)[n] =
                <<"unsigned", -i, (FirstOf(set, i)[n] - FirstOf(set, i)[n - 1]) - 1>>
<1> DEFINE first == FirstOf(set, i)
           entries == set.tables[i]
           by == Scales(set)[i]
           runs == RunsOf(set.tables[i])
           symbol(n) == Run(i, Cardinality({p \in 0..(Half - 1) : entries[p] = by * (n - 1)}))
           as(n) == <<"unsigned", -i, (first[n] - first[n - 1]) - 1>>
<1>1. Stairs(first, entries, by, runs)
  BY FirstIs
<1>2. WrittenTable(set, i) = [n \in 1..runs |-> symbol(n)]
  BY DEF WrittenTable
<1> HIDE DEF first, entries, by, runs
<1>3. runs \in Nat /\ first \in [0..runs -> 0..Half]
      /\ \A n \in 0..(runs - 1) :
           /\ first[n] < first[n + 1]
           /\ {p \in 0..LastEntry : entries[p] = by * n} = first[n]..(first[n + 1] - 1)
  BY <1>1 DEF Stairs
<1>4. ASSUME NEW n \in 1..runs
      PROVE  symbol(n) = as(n) /\ as(n) \in Symbols
  <2>1. n - 1 \in 0..(runs - 1) /\ (n - 1) + 1 = n /\ n - 1 \in 0..runs /\ n \in 0..runs
    BY <1>3
  <2>2. first[n - 1] \in Int /\ first[n] \in Int /\ first[n - 1] < first[n]
    <3>1. first[n - 1] \in 0..Half /\ first[n] \in 0..Half
      BY <1>3, <2>1
    <3>2. first[n - 1] < first[(n - 1) + 1]
      BY <1>3, <2>1
    <3> QED BY <2>1, <3>1, <3>2, HalfTypes
  <2>3. {p \in 0..(Half - 1) : entries[p] = by * (n - 1)} = first[n - 1]..(first[n] - 1)
    <3>1. {p \in 0..LastEntry : entries[p] = by * (n - 1)} = first[n - 1]..(first[(n - 1) + 1] - 1)
      BY <1>3, <2>1
    <3> QED BY <2>1, <3>1 DEF LastEntry
  <2> DEFINE a == first[n - 1]
             b == first[n] - 1
  <2>4. Cardinality(a..b) = (b - a) + 1
    <3>1. a \in Int /\ b \in Int /\ a <= b
      BY <2>2
    <3> HIDE DEF a, b
    <3>2. Cardinality(a..b) = IF a > b THEN 0 ELSE (b - a) + 1
      BY <3>1, FS_Interval
    <3> QED BY <3>1, <3>2
  <2>5. ((b - a) + 1) - 1 = (first[n] - first[n - 1]) - 1
    BY <2>2
  <2>6. symbol(n) = <<"unsigned", -i, Cardinality(a..b) - 1>>
    BY <2>3 DEF Run
  <2>7. symbol(n) = as(n)
    BY <2>4, <2>5, <2>6
  <2>8. as(n) \in Symbols
    <3>1. -i \in Int /\ (first[n] - first[n - 1]) - 1 \in Int
      BY <2>2 DEF Inputs
    <3> QED BY <3>1 DEF Symbols
  <2> QED BY <2>7, <2>8
<1> HIDE DEF symbol, as
<1>5. WrittenTable(set, i) = [n \in 1..runs |-> as(n)]
  BY <1>2, <1>4
<1>6. WrittenTable(set, i) \in [1..runs -> Symbols]
  BY <1>4, <1>5
<1>7. WrittenTable(set, i) \in Seq(Symbols) /\ Len(WrittenTable(set, i)) = runs
  BY <1>3, <1>6
<1>8. \A n \in 1..runs : WrittenTable(set, i)[n] = as(n)
  BY <1>5
<1> QED BY <1>7, <1>8 DEF as, first, runs

TableWords(set) == [i \in Inputs |-> WrittenTable(set, i)]

\* A function over 1..n is a sequence of that length.
LEMMA FunctionSequence ==
  ASSUME NEW T, NEW n \in Nat, NEW f \in [1..n -> T]
  PROVE  f \in Seq(T) /\ Len(f) = n
OBVIOUS

\* The symbols of a set are those of its tables, one after the other.
LEMMA TableWordsTypes ==
  ASSUME NEW set \in Sets, EncodableSet(set)
  PROVE  /\ TableWords(set) \in Seq(Seq(Symbols)) /\ Len(TableWords(set)) = 5
         /\ \A i \in Inputs : TableWords(set)[i] = WrittenTable(set, i)
         /\ WrittenSet(set) = FlattenSeq(TableWords(set))
         /\ WrittenSet(set) \in Seq(Symbols)
<1>1. TableWords(set) \in [1..5 -> Seq(Symbols)]
  BY TableWritten DEF TableWords, Inputs
<1>2. TableWords(set) \in Seq(Seq(Symbols)) /\ Len(TableWords(set)) = 5
  <2>1. 5 \in Nat
    OBVIOUS
  <2> DEFINE f == TableWords(set)
  <2> HIDE DEF f
  <2>2. f \in Seq(Seq(Symbols)) /\ Len(f) = 5
    BY <1>1, <2>1, FunctionSequence DEF f
  <2> QED BY <2>2 DEF f
<1>3. WrittenSet(set) = FlattenSeq(TableWords(set))
  BY DEF WrittenSet, TableWords
<1>4. FlattenSeq(After(TableWords(set), 0)) \in Seq(Symbols)
  BY <1>2, FlattenType
<1>5. After(TableWords(set), 0) = TableWords(set)
  BY <1>2, AfterNone
<1> QED BY <1>2, <1>3, <1>4, <1>5 DEF TableWords

(***************************************************************************)
(* Reading the tables of a set that was written.                           *)
(***************************************************************************)
InTable(set, behind) ==
  /\ verdict = "reading" /\ table \in Inputs
  /\ value \in 0..RunsOf(set.tables[table])
  /\ k = FirstOf(set, table)[value]
  /\ scale = Scales(set)[table]
  /\ contexts = 0
  /\ tables \in [Inputs -> [Positions -> Int]]
  /\ \A i \in Inputs : i < table => tables[i] = set.tables[i]
  /\ \A p \in 0..(k - 1) : tables[table][p] = set.tables[table][p]
  /\ record = After(WrittenTable(set, table), value)
                \o (FlattenSeq(After(TableWords(set), table)) \o behind)

BehindTables(set, behind) ==
  /\ verdict \in {"reading", "read"} /\ table = 6
  /\ k = 0 /\ value = 0
  /\ scale = Scales(set)[6]
  /\ verdict = "read" => contexts = set.contexts
  /\ tables = set.tables
  /\ record = behind

TooManyContexts(set) == verdict = "refused" /\ ContextCount(Scales(set)[6]) > MaxContexts

TableStage(set, behind) ==
  InTable(set, behind) \/ BehindTables(set, behind) \/ TooManyContexts(set)

\* What a stage is about: a set the writer took.
Taken(set, behind) == set \in Sets /\ EncodableSet(set) /\ behind \in Seq(Symbols)

\* What follows the symbols of a table is a sequence of symbols.
LEMMA WordsBehind ==
  ASSUME NEW set, NEW behind, Taken(set, behind), NEW i \in Inputs
  PROVE  /\ FlattenSeq(After(TableWords(set), i)) \o behind \in Seq(Symbols)
         /\ i = 5 => FlattenSeq(After(TableWords(set), i)) \o behind = behind
         /\ i # 5 => FlattenSeq(After(TableWords(set), i)) \o behind
                       = After(WrittenTable(set, i + 1), 0)
                           \o (FlattenSeq(After(TableWords(set), i + 1)) \o behind)
<1> DEFINE words == TableWords(set)
           a == FlattenSeq(After(words, i))
<1>1. words \in Seq(Seq(Symbols)) /\ Len(words) = 5
      /\ \A j \in Inputs : words[j] = WrittenTable(set, j)
  BY TableWordsTypes DEF Taken
<1>2. behind \in Seq(Symbols)
  BY DEF Taken
<1>3. i \in 0..Len(words)
  BY <1>1 DEF Inputs
<1> HIDE DEF words
<1>4. a \in Seq(Symbols)
  BY <1>1, <1>3, FlattenType
<1>5. a \o behind \in Seq(Symbols)
  <2> HIDE DEF a
  <2> QED BY <1>2, <1>4, ConcatProperties
<1>6. i = 5 => a \o behind = behind
  <2>1. i = 5 => a = <<>>
    BY <1>1, FlattenNothing
  <2> QED BY <1>2, <2>1, ConcatEmptySeq
<1>7. ASSUME i # 5
      PROVE  a \o behind = After(WrittenTable(set, i + 1), 0)
                             \o (FlattenSeq(After(words, i + 1)) \o behind)
  <2>1. i < Len(words) /\ i + 1 \in Inputs
    BY <1>1, <1>7 DEF Inputs
  <2> DEFINE b == words[i + 1]
             c == FlattenSeq(After(words, i + 1))
  <2>2. a = b \o c /\ b \in Seq(Symbols) /\ c \in Seq(Symbols)
    BY <1>1, <1>3, <2>1, FlattenAfter
  <2>3. b = WrittenTable(set, i + 1)
    BY <1>1, <2>1
  <2> HIDE DEF a, b, c
  <2>4. (b \o c) \o behind = b \o (c \o behind)
    BY <1>2, <2>2, ConcatAssociative
  <2>5. After(b, 0) = b
    BY <2>2, AfterNone
  <2> QED BY <2>2, <2>3, <2>4, <2>5 DEF c
<1> QED BY <1>5, <1>6, <1>7 DEF a, words

\* A run that is still to be read is the next symbol.
LEMMA RunRead ==
  ASSUME NEW set, NEW behind, Taken(set, behind), InTable(set, behind), k < Half
  PROVE  LET first == FirstOf(set, table)
         IN /\ value + 1 \in 1..RunsOf(set.tables[table]) /\ value \in Nat
            /\ first[value] = k /\ first[value] \in Nat /\ first[value + 1] \in Nat
            /\ first[value] < first[value + 1] /\ first[value + 1] <= Half
            /\ record # <<>>
            /\ Head(record) = <<"unsigned", -table, (first[value + 1] - k) - 1>>
            /\ Tail(record) = After(WrittenTable(set, table), value + 1)
                                \o (FlattenSeq(After(TableWords(set), table)) \o behind)
            /\ \A p \in k..(first[value + 1] - 1) : set.tables[table][p] = scale * value
            /\ value = 0 => k = 0
<1> DEFINE first == FirstOf(set, table)
           entries == set.tables[table]
           runs == RunsOf(entries)
           word == WrittenTable(set, table)
           rest == FlattenSeq(After(TableWords(set), table)) \o behind
<1>1. /\ table \in Inputs /\ value \in 0..runs /\ k = first[value] /\ scale = Scales(set)[table]
      /\ record = After(word, value) \o rest
  BY DEF InTable
<1>2. Stairs(first, entries, scale, runs)
  BY <1>1, FirstIs DEF Taken
<1>3. word \in Seq(Symbols) /\ Len(word) = runs
      /\ \A n \in 1..runs : word[n] = <<"unsigned", -table, (first[n] - first[n - 1]) - 1>>
  BY <1>1, TableWritten DEF Taken
<1>4. rest \in Seq(Symbols)
  BY <1>1, WordsBehind
<1> HIDE DEF first, entries, runs, word, rest
<1>5. runs \in Nat /\ first \in [0..runs -> 0..Half] /\ first[runs] = Half /\ first[0] = 0
      /\ \A n \in 0..(runs - 1) :
           /\ first[n] < first[n + 1]
           /\ {p \in 0..LastEntry : entries[p] = scale * n} = first[n]..(first[n + 1] - 1)
  BY <1>2 DEF Stairs
<1>6. value \in Nat /\ value < runs
  BY <1>1, <1>5
<1>7. value \in 0..(runs - 1) /\ value + 1 \in 1..runs /\ value + 1 \in 0..runs
      /\ (value + 1) - 1 = value
  BY <1>5, <1>6
<1>8. first[value] \in 0..Half /\ first[value + 1] \in 0..Half /\ first[value] < first[value + 1]
  BY <1>1, <1>5, <1>7
<1>9. word[value + 1] = <<"unsigned", -table, (first[value + 1] - k) - 1>>
  <2>1. word[value + 1] = <<"unsigned", -table, (first[value + 1] - first[(value + 1) - 1]) - 1>>
    BY <1>3, <1>7
  <2> QED BY <1>1, <1>7, <2>1
<1>10. /\ record # <<>> /\ Head(record) = word[value + 1]
       /\ Tail(record) = After(word, value + 1) \o rest
  <2>1. value \in 0..Len(word) /\ value < Len(word)
    BY <1>3, <1>6, <1>1
  <2> QED BY <1>1, <1>3, <1>4, <2>1, TakeOne
<1>11. \A p \in k..(first[value + 1] - 1) : entries[p] = scale * value
  <2>1. {p \in 0..LastEntry : entries[p] = scale * value} = k..(first[value + 1] - 1)
    BY <1>1, <1>5, <1>7
  <2> QED BY <2>1
<1>12. /\ value + 1 \in 1..runs /\ value \in Nat
       /\ first[value] = k /\ first[value] \in Nat /\ first[value + 1] \in Nat
       /\ first[value] < first[value + 1] /\ first[value + 1] <= Half
  BY <1>1, <1>6, <1>7, <1>8, HalfTypes
<1>13. Head(record) = <<"unsigned", -table, (first[value + 1] - k) - 1>>
  BY <1>9, <1>10
<1>14. value = 0 => k = 0
  BY <1>1, <1>5
<1> QED BY <1>10, <1>11, <1>12, <1>13, <1>14 DEF first, entries, runs, word, rest

\* A run that was written is read: its entries are the ones of the writer,
\* and the next run is in front (configuration_parser.cpp:350).
LEMMA ReadRunIntact ==
  ASSUME NEW set, NEW behind, Taken(set, behind), TableStage(set, behind), intact,
         NEW coded \in Readable("unsigned", -table), ReadRun(coded), Consume
  PROVE  InTable(set, behind)'
<1> DEFINE first == FirstOf(set, table)
           end == first[value + 1]
<1>1. InTable(set, behind) /\ k < Half
  BY DEF ReadRun, ReadingRuns, TableStage, BehindTables, TooManyContexts, Inputs
<1>2. /\ value + 1 \in 1..RunsOf(set.tables[table]) /\ value \in Nat
      /\ k \in Nat /\ end \in Nat /\ k < end /\ end <= Half
      /\ record # <<>>
      /\ Head(record) = <<"unsigned", -table, (end - k) - 1>>
      /\ Tail(record) = After(WrittenTable(set, table), value + 1)
                          \o (FlattenSeq(After(TableWords(set), table)) \o behind)
      /\ \A p \in k..(end - 1) : set.tables[table][p] = scale * value
  BY <1>1, RunRead
<1>3. coded = (end - k) - 1 /\ record' = Tail(record)
  BY <1>2 DEF Readable, Consume
<1> HIDE DEF end
<1>4. RunEnd(coded) = end
  <2>1. k + coded + 1 = end /\ (coded + 1 < Half - k \/ end = Half)
    <3>1. /\ k \in Nat /\ end \in Nat /\ end <= Half /\ Half \in Nat
          /\ coded = (end - k) - 1
      BY <1>2, <1>3, HalfTypes
    <3> QED BY ONLY <3>1
  <2> QED BY <2>1 DEF RunEnd
<1>5. /\ table \in Inputs /\ tables \in [Inputs -> [Positions -> Int]]
      /\ scale = Scales(set)[table] /\ scale \in Nat
      /\ \A i \in Inputs : i < table => tables[i] = set.tables[i]
      /\ \A p \in 0..(k - 1) : tables[table][p] = set.tables[table][p]
  <2>1. table \in Inputs
    BY <1>1 DEF InTable
  <2>2. Scales(set)[table] \in Nat
    BY <2>1, FirstIs DEF Taken
  <2> QED BY <1>1, <2>2 DEF InTable
<1> DEFINE row == [p \in Positions |-> IF p \in k..(end - 1) THEN scale * value
                                       ELSE tables[table][p]]
<1>6. /\ tables' = [tables EXCEPT ![table] = row]
      /\ k' = end /\ value' = value + 1
      /\ table' = table /\ scale' = scale /\ contexts' = contexts /\ verdict' = verdict
  BY <1>4 DEF ReadRun
<1>7. row \in [Positions -> Int]
  <2>1. scale * value \in Int
    BY <1>2, <1>5
  <2>2. \A p \in Positions : tables[table][p] \in Int
    BY <1>5
  <2> QED BY <2>1, <2>2
<1>8. ASSUME NEW p \in 0..(end - 1)
      PROVE  row[p] = set.tables[table][p]
  <2>1. p \in Positions /\ p \in Nat
    BY <1>2, HalfTypes DEF Positions
  <2>2. CASE p \in k..(end - 1)
    BY <1>2, <2>1, <2>2
  <2>3. CASE p \notin k..(end - 1)
    <3>1. p \in 0..(k - 1)
      BY <1>2, <2>1, <2>3
    <3>2. row[p] = tables[table][p]
      BY <2>1, <2>3
    <3> QED BY <1>5, <3>1, <3>2
  <2> QED BY <2>2, <2>3
<1> HIDE DEF row
<1>9. tables' \in [Inputs -> [Positions -> Int]] /\ tables'[table] = row
      /\ \A i \in Inputs : i # table => tables'[i] = tables[i]
  BY <1>5, <1>6, <1>7
<1>10. \A i \in Inputs : i < table' => tables'[i] = set.tables[i]
  BY <1>5, <1>6, <1>9 DEF Inputs
<1>11. \A p \in 0..(k' - 1) : tables'[table'][p] = set.tables[table'][p]
  BY <1>6, <1>8, <1>9
<1>12. value' \in 0..RunsOf(set.tables[table'])
  BY <1>2, <1>6
<1>13. verdict = "reading" /\ contexts = 0
  BY <1>1 DEF InTable
<1>14. k' = FirstOf(set, table')[value']
  BY <1>6 DEF end
<1>15. record' = After(WrittenTable(set, table'), value')
                   \o (FlattenSeq(After(TableWords(set), table')) \o behind)
  BY <1>2, <1>3, <1>6
<1> QED BY <1>5, <1>6, <1>9, <1>10, <1>11, <1>12, <1>13, <1>14, <1>15 DEF InTable

\* Scales only grow, and the last one leaves room for the entries of every table.
LEMMA ScalesUp ==
  ASSUME NEW set, NEW i \in Inputs
  PROVE  /\ Scales(set)[i + 1] <= Scales(set)[6]
         /\ Scales(set)[i + 1] \in Nat /\ Scales(set)[6] \in Nat /\ Scales(set)[6] >= 1
<1> DEFINE at == Scales(set)
<1>1. at \in [1..6 -> Nat \ {0}]
      /\ \A j \in Inputs : at[j + 1] = at[j] * Multiplier(RunsOf(set.tables[j]))
  BY SetScales
<1> HIDE DEF at
<1>2. ASSUME NEW j \in Inputs
      PROVE  at[j] <= at[j + 1] /\ at[j] \in Nat /\ at[j + 1] \in Nat
  <2> DEFINE n == RunsOf(set.tables[j])
  <2>1. n \in Nat /\ n >= 1
    BY RunsPositive
  <2>2. at[j] \in Nat /\ at[j] >= 1 /\ at[j + 1] = at[j] * Multiplier(n)
    BY <1>1 DEF Inputs
  <2> HIDE DEF n
  <2>3. at[j + 1] = at[j] + 2 * (at[j] * (n - 1)) /\ at[j] * (n - 1) \in Nat
    BY <2>1, <2>2, NextScale
  <2> DEFINE m == at[j] * (n - 1)
  <2> HIDE DEF m
  <2>4. at[j + 1] = at[j] + 2 * m /\ m \in Nat
    BY <2>3 DEF m
  <2> QED BY <2>2, <2>4
<1>3. at[2] <= at[3] /\ at[3] <= at[4] /\ at[4] <= at[5] /\ at[5] <= at[6]
      /\ at[2] \in Nat /\ at[3] \in Nat /\ at[4] \in Nat /\ at[5] \in Nat /\ at[6] \in Nat
      /\ at[6] >= 1
  <2>1. at[2] <= at[2 + 1] /\ at[2] \in Nat
    BY <1>2 DEF Inputs
  <2>2. at[3] <= at[3 + 1] /\ at[3] \in Nat
    BY <1>2 DEF Inputs
  <2>3. at[4] <= at[4 + 1] /\ at[4] \in Nat
    BY <1>2 DEF Inputs
  <2>4. at[5] <= at[5 + 1] /\ at[5] \in Nat /\ at[5 + 1] \in Nat
    BY <1>2 DEF Inputs
  <2>5. at[6] \in Nat \ {0}
    BY <1>1
  <2> QED BY <2>1, <2>2, <2>3, <2>4, <2>5
<1>4. i \in {1, 2, 3, 4, 5}
  BY DEF Inputs
<1>5. at[i + 1] <= at[6] /\ at[i + 1] \in Nat
  BY <1>3, <1>4
<1> QED BY <1>3, <1>5 DEF at

\* A quotient that is exceeded is exceeded by the product.
LEMMA QuotientAbove ==
  ASSUME NEW a \in Nat, NEW b \in Nat, b >= 1, NEW m \in Nat, a > m \div b
  PROVE  b * a > m
<1> DEFINE q == m \div b
<1>1. q \in Nat /\ b * (q + 1) > m
  OBVIOUS
<1>2. a >= q + 1
  BY <1>1
<1> HIDE DEF q
<1>3. b * a >= b * (q + 1)
  BY <1>1, <1>2
<1>4. b * a \in Nat /\ b * (q + 1) \in Nat
  BY <1>1
<1> QED BY <1>1, <1>3, <1>4

\* A run that was written is refused for its entries alone, which are then
\* too large for as many contexts as a reader allows (configuration_parser.cpp:361).
LEMMA RefuseRunIntact ==
  ASSUME NEW set, NEW behind, Taken(set, behind), TableStage(set, behind), intact,
         NEW coded \in Readable("unsigned", -table), RefuseRun(coded)
  PROVE  TooManyContexts(set)'
<1>1. InTable(set, behind) /\ k < Half /\ RunRefused(coded) /\ verdict' = "refused"
  BY DEF RefuseRun, ReadingRuns, TableStage, BehindTables, TooManyContexts, Inputs
<1> DEFINE end == FirstOf(set, table)[value + 1]
           runs == RunsOf(set.tables[table])
<1>2. /\ value + 1 \in 1..runs /\ value \in Nat
      /\ k \in Nat /\ end \in Nat /\ k < end /\ end <= Half
      /\ record # <<>> /\ Head(record) = <<"unsigned", -table, (end - k) - 1>>
  BY <1>1, RunRead
<1>3. coded = (end - k) - 1
  BY <1>2 DEF Readable
<1> HIDE DEF end
<1>4. ~(k = 0 /\ coded >= Half)
  BY <1>2, <1>3, HalfTypes
<1>5. value > MaxEntry \div scale
  BY <1>1, <1>4 DEF RunRefused
<1>6. table \in Inputs /\ scale = Scales(set)[table]
  BY <1>1 DEF InTable
<1>7. scale \in Nat /\ scale >= 1
  BY <1>6, FirstIs DEF Taken
<1>8. scale * value > MaxEntry
  BY <1>2, <1>5, <1>7, QuotientAbove, QuantTablesAssumption
<1>9. runs \in Nat /\ runs >= 1
  BY RunsPositive
<1> HIDE DEF runs
<1> DEFINE a == scale * value
           b == scale * (runs - 1)
           next == Scales(set)[table + 1]
           last == Scales(set)[6]
<1>10. a \in Nat /\ b \in Nat /\ a <= b
  <2>1. value <= runs - 1 /\ runs - 1 \in Nat
    BY <1>2, <1>9
  <2> QED BY <1>2, <1>7, <2>1, Multiples
<1>11. next = scale + 2 * b
  <2>1. next = scale * Multiplier(runs)
    BY <1>6, SetScales DEF runs
  <2>2. scale * Multiplier(runs) = scale + 2 * b
    BY <1>7, <1>9, NextScale
  <2> QED BY <2>1, <2>2
<1>12. next <= last /\ next \in Nat /\ last \in Nat
  BY <1>6, ScalesUp
<1>13. a > MaxEntry
  BY <1>8
<1> HIDE DEF a, b, next, last
<1>14. last >= 1 + 2 * a
  BY <1>7, <1>10, <1>11, <1>12
<1>15. (last + 1) \div 2 >= a + 1
  BY <1>10, <1>12, <1>14
<1>16. MaxEntry >= MaxContexts /\ MaxEntry \in Nat /\ MaxContexts \in Nat
  BY QuantTablesAssumption, RecordAssumption
<1>17. (last + 1) \div 2 > MaxContexts
  <2>1. (last + 1) \div 2 \in Nat
    BY <1>12
  <2> QED BY <1>10, <1>13, <1>15, <1>16, <2>1
<1> QED BY <1>1, <1>17 DEF TooManyContexts, ContextCount, last

\* Only a whole half is mirrored, and that gives the table that was written.
LEMMA MirrorSame ==
  ASSUME NEW entries, NEW written \in [Positions -> Int],
         \A p \in 0..LastEntry : entries[p] = written[p], written = Mirrored(written)
  PROVE  Mirrored(entries) = written
<1>1. ASSUME NEW p \in Positions
      PROVE  Mirrored(entries)[p] = Mirrored(written)[p]
  <2>1. CASE p < Half
    <3>1. p \in 0..LastEntry
      BY <2>1, HalfTypes DEF Positions
    <3> QED BY <2>1, <3>1 DEF Mirrored
  <2>2. CASE p = Half
    <3>1. Half - 1 \in 0..LastEntry /\ ~(p < Half)
      BY <2>2, HalfTypes DEF LastEntry
    <3>2. entries[Half - 1] = written[Half - 1]
      BY <3>1
    <3> QED BY <2>2, <3>1, <3>2 DEF Mirrored
  <2>3. CASE p > Half
    <3>1. 2 * Half - p \in 0..LastEntry /\ ~(p < Half) /\ p # Half
      BY <2>3, HalfTypes DEF Positions, LastEntry
    <3>2. entries[2 * Half - p] = written[2 * Half - p]
      BY <3>1
    <3> QED BY <3>1, <3>2 DEF Mirrored
  <2>4. p < Half \/ p = Half \/ p > Half
    BY HalfTypes DEF Positions
  <2> QED BY <2>1, <2>2, <2>3, <2>4
<1>2. Mirrored(entries) = [p \in Positions |-> Mirrored(entries)[p]]
      /\ Mirrored(written) = [p \in Positions |-> Mirrored(written)[p]]
  BY DEF Mirrored
<1>3. Mirrored(entries) = Mirrored(written)
  BY <1>1, <1>2
<1> QED BY <1>3

\* The mirrored half and the next scale are the writer's too
\* (configuration_parser.cpp:377 and :321).
LEMMA EndTableIntact ==
  ASSUME NEW set, NEW behind, Taken(set, behind), TableStage(set, behind),
         EndTable, record' = record
  PROVE  TableStage(set, behind)'
<1> DEFINE first == FirstOf(set, table)
           entries == set.tables[table]
           runs == RunsOf(entries)
           rest == FlattenSeq(After(TableWords(set), table)) \o behind
<1>1. InTable(set, behind) /\ k = Half /\ table \in Inputs
  BY DEF EndTable, TableStage, BehindTables, TooManyContexts, Inputs
<1>2. Stairs(first, entries, Scales(set)[table], runs)
  BY <1>1, FirstIs DEF Taken
<1>3. value \in 0..runs /\ k = first[value]
  BY <1>1 DEF InTable
<1>4. runs \in Nat /\ value = runs
  <2> HIDE DEF first, runs, entries
  <2>1. runs \in Nat /\ first \in [0..runs -> 0..Half]
        /\ \A n \in 0..(runs - 1) : first[n] < first[n + 1]
    BY <1>2 DEF Stairs
  <2>2. value \in Nat /\ value <= runs
    BY <1>3, <2>1
  <2>3. ASSUME value < runs
        PROVE  FALSE
    <3>1. value \in 0..(runs - 1) /\ value + 1 \in 0..runs
      BY <2>1, <2>2, <2>3
    <3>2. first[value] < first[value + 1] /\ first[value + 1] \in 0..Half
      BY <2>1, <3>1
    <3> QED BY <1>1, <1>3, <3>2, HalfTypes
  <2> QED BY <2>1, <2>2, <2>3
<1>5. record = rest
  <2>1. WrittenTable(set, table) \in Seq(Symbols) /\ Len(WrittenTable(set, table)) = runs
    BY <1>1, TableWritten DEF Taken
  <2>2. rest \in Seq(Symbols)
    BY <1>1, WordsBehind
  <2>3. record = After(WrittenTable(set, table), runs) \o rest
    BY <1>1, <1>4 DEF InTable
  <2> HIDE DEF rest, runs
  <2> QED BY <2>1, <2>2, <2>3, AfterAll
<1>6. /\ tables' = [tables EXCEPT ![table] = Mirrored(@)]
      /\ scale' = scale * Multiplier(value)
      /\ table' = table + 1 /\ k' = 0 /\ value' = 0
      /\ contexts' = contexts /\ verdict' = verdict /\ verdict = "reading"
  BY DEF EndTable
<1>7. /\ tables \in [Inputs -> [Positions -> Int]]
      /\ \A i \in Inputs : i < table => tables[i] = set.tables[i]
      /\ \A p \in 0..(k - 1) : tables[table][p] = set.tables[table][p]
      /\ scale = Scales(set)[table] /\ contexts = 0
  BY <1>1 DEF InTable
<1>8. Mirrored(tables[table]) = entries
  <2>1. entries \in [Positions -> Int]
    BY <1>1 DEF Taken, Sets
  <2>2. Encodable(entries, Scales(set)[table])
    BY <1>1 DEF Taken, EncodableSet
  <2>3. entries = Mirrored(entries)
    BY <2>2 DEF Encodable
  <2>4. \A p \in 0..LastEntry : tables[table][p] = entries[p]
    BY <1>1, <1>7 DEF LastEntry
  <2> HIDE DEF entries
  <2> QED BY <2>1, <2>3, <2>4, MirrorSame
<1>9. /\ tables' \in [Inputs -> [Positions -> Int]]
      /\ \A i \in Inputs : i < table' => tables'[i] = set.tables[i]
  <2>1. set.tables[table] \in [Positions -> Int]
    BY <1>1 DEF Taken, Sets
  <2>2. tables' = [tables EXCEPT ![table] = set.tables[table]]
    BY <1>6, <1>8
  <2>3. tables' \in [Inputs -> [Positions -> Int]]
    BY <1>7, <2>1, <2>2
  <2>4. ASSUME NEW i \in Inputs, i < table'
        PROVE  tables'[i] = set.tables[i]
    <3>1. i = table \/ i < table
      BY <1>1, <1>6, <2>4 DEF Inputs
    <3> QED BY <1>1, <1>7, <2>2, <3>1
  <2> QED BY <2>3, <2>4
<1>10. scale' = Scales(set)[table']
  BY <1>1, <1>4, <1>6, <1>7, SetScales
<1>11. CASE table = 5
  <2>1. tables' = set.tables
    <3>1. \A i \in Inputs : tables'[i] = set.tables[i]
      BY <1>6, <1>9, <1>11 DEF Inputs
    <3>2. set.tables \in [Inputs -> [Positions -> Int]]
      BY DEF Taken, Sets
    <3> QED BY <1>9, <3>1, <3>2
  <2>2. record' = behind
    <3>1. rest = behind
      BY <1>1, <1>11, WordsBehind
    <3> HIDE DEF rest
    <3> QED BY <1>5, <3>1
  <2>3. BehindTables(set, behind)'
    <3>1. table' = 6 /\ k' = 0 /\ value' = 0 /\ verdict' = "reading"
      BY <1>6, <1>11
    <3>2. scale' = Scales(set)[6]
      BY <1>10, <3>1
    <3> QED BY <2>1, <2>2, <3>1, <3>2 DEF BehindTables
  <2> QED BY <2>3 DEF TableStage
<1>12. CASE table # 5
  <2>1. table' \in Inputs
    BY <1>1, <1>6, <1>12 DEF Inputs
  <2>2. record' = After(WrittenTable(set, table'), value')
                    \o (FlattenSeq(After(TableWords(set), table')) \o behind)
    <3>1. rest = After(WrittenTable(set, table + 1), 0)
                    \o (FlattenSeq(After(TableWords(set), table + 1)) \o behind)
      BY SMTT(30), <1>1, <1>12, WordsBehind
    <3> HIDE DEF rest
    <3> QED BY <1>5, <1>6, <3>1
  <2>3. Stairs(FirstOf(set, table'), set.tables[table'], Scales(set)[table'],
               RunsOf(set.tables[table']))
    BY <2>1, FirstIs DEF Taken
  <2>4. k' = FirstOf(set, table')[value'] /\ value' \in 0..RunsOf(set.tables[table'])
    BY <1>6, <2>3 DEF Stairs
  <2>5. \A p \in 0..(k' - 1) : tables'[table'][p] = set.tables[table'][p]
    BY <1>6
  <2>6. InTable(set, behind)'
    BY <1>6, <1>7, <1>9, <1>10, <2>1, <2>2, <2>4, <2>5 DEF InTable
  <2> QED BY <2>6 DEF TableStage
<1> QED BY <1>11, <1>12

\* The set is read with the number of contexts it was written with, or
\* there are too many (configuration_parser.cpp:328).
LEMMA EndSetIntact ==
  ASSUME NEW set, NEW behind, Taken(set, behind), TableStage(set, behind),
         EndSet, record' = record
  PROVE  TableStage(set, behind)'
<1>1. BehindTables(set, behind) /\ verdict = "reading"
  BY DEF EndSet, TableStage, InTable, TooManyContexts
<1>2. /\ table = 6 /\ k = 0 /\ value = 0 /\ scale = Scales(set)[6] /\ tables = set.tables
      /\ record = behind
  BY <1>1 DEF BehindTables
<1>3. scale \in Nat /\ scale >= 1
  <2>1. Scales(set)[6] \in Nat \ {0}
    BY SetScales
  <2> QED BY <1>2, <2>1
<1>4. ContextCount(scale) \in Nat /\ ContextCount(scale) >= 1
  BY <1>3 DEF ContextCount
<1>5. set.contexts = ContextCount(scale) % Word
  BY <1>2 DEF Taken, EncodableSet
<1>6. CASE ContextCount(scale) \in 1..MaxContexts
  <2>1. contexts' = ContextCount(scale) /\ verdict' = "read"
    BY <1>6 DEF EndSet
  <2>2. Word \in Nat /\ Word > MaxContexts /\ MaxContexts \in Nat
    BY RecordAssumption, QuantTablesAssumption
  <2> DEFINE count == ContextCount(scale)
  <2>3. count \in Nat /\ count < Word
    BY <1>4, <1>6, <2>2
  <2>4. count % Word = count
    <3> HIDE DEF count
    <3> QED BY <2>2, <2>3
  <2>5. contexts' = set.contexts
    BY <1>5, <2>1, <2>4
  <2>6. /\ tables' = tables /\ table' = table /\ k' = k /\ value' = value /\ scale' = scale
    BY DEF EndSet
  <2>7. BehindTables(set, behind)'
    BY <1>2, <2>1, <2>5, <2>6 DEF BehindTables
  <2> QED BY <2>7 DEF TableStage
<1>7. CASE ContextCount(scale) \notin 1..MaxContexts
  <2>1. verdict' = "refused"
    BY <1>7 DEF EndSet
  <2>2. ContextCount(scale) > MaxContexts
    BY <1>4, <1>7, QuantTablesAssumption
  <2>3. TooManyContexts(set)'
    BY <1>2, <2>1, <2>2 DEF TooManyContexts
  <2> QED BY <2>3 DEF TableStage
<1> QED BY <1>6, <1>7

FreshTables ==
  /\ table = 1 /\ k = 0 /\ value = 0 /\ scale = 1 /\ contexts = 0 /\ verdict = "reading"
  /\ tables = ZeroTables

\* A set that begins is in front of its first run.
LEMMA BeginSet ==
  ASSUME NEW set, NEW behind, Taken(set, behind), FreshTables,
         record = WrittenSet(set) \o behind
  PROVE  TableStage(set, behind)
<1> DEFINE words == TableWords(set)
           a == WrittenTable(set, 1)
           b == FlattenSeq(After(words, 1))
<1>1. behind \in Seq(Symbols) /\ 1 \in Inputs
  BY DEF Taken, Inputs
<1>2. words \in Seq(Seq(Symbols)) /\ Len(words) = 5 /\ words[1] = a
      /\ WrittenSet(set) = FlattenSeq(words)
  BY <1>1, TableWordsTypes DEF Taken
<1> HIDE DEF words
<1>3. WrittenSet(set) = a \o b /\ a \in Seq(Symbols) /\ b \in Seq(Symbols)
  <2>1. 0 \in 0..Len(words) /\ 0 < Len(words) /\ 0 + 1 = 1
    BY <1>2
  <2>2. FlattenSeq(After(words, 0)) = words[0 + 1] \o FlattenSeq(After(words, 0 + 1))
        /\ words[0 + 1] \in Seq(Symbols) /\ FlattenSeq(After(words, 0 + 1)) \in Seq(Symbols)
    BY <1>2, <2>1, FlattenAfter
  <2>3. After(words, 0) = words
    BY <1>2, AfterNone
  <2> QED BY <1>2, <2>1, <2>2, <2>3
<1> HIDE DEF a, b
<1>4. (a \o b) \o behind = a \o (b \o behind)
  BY <1>1, <1>3, ConcatAssociative
<1>5. After(a, 0) = a
  BY <1>3, AfterNone
<1>6. record = After(a, 0) \o (b \o behind)
  BY <1>3, <1>4, <1>5
<1>7. Stairs(FirstOf(set, 1), set.tables[1], Scales(set)[1], RunsOf(set.tables[1]))
  BY <1>1, FirstIs DEF Taken
<1>8. FirstOf(set, 1)[0] = 0 /\ 0 \in 0..RunsOf(set.tables[1])
  BY <1>7 DEF Stairs
<1>9. Scales(set)[1] = 1
  BY SetScales
<1>10. tables \in [Inputs -> [Positions -> Int]]
  BY DEF FreshTables, ZeroTables
<1>11. \A p \in 0..(k - 1) : tables[1][p] = set.tables[1][p]
  BY DEF FreshTables
<1>12. \A i \in Inputs : ~(i < 1)
  BY DEF Inputs
<1>13. InTable(set, behind)
  BY <1>1, <1>6, <1>8, <1>9, <1>10, <1>11, <1>12 DEF InTable, FreshTables, a, b, words
<1> QED BY <1>13 DEF TableStage

(***************************************************************************)
(* The fields of a record, and the symbols of those that were written.     *)
(***************************************************************************)
Fields ==
  << <<"micro_version", 0>>, <<"coder", 0>>, <<"colorspace", 0>>, <<"bits", 0>>,
     <<"chroma", 0>>, <<"log2_h", 0>>, <<"log2_v", 0>>, <<"extra", 0>>,
     <<"h", 0>>, <<"v", 0>>, <<"set_count", 0>>, <<"ec", 0>>, <<"intra", 0>> >>

FieldNames == Numbers \cup Flags \cup {"delta", "set", "coded", "state"}
Entries == FieldNames \X Nat

\* The fields behind version 3, one by one (configuration_parser.cpp:66).
LEMMA FieldsAre == FieldsOf(3) = Fields /\ Fields \in Seq(Entries) /\ Len(Fields) = 13
<1>1. FieldsOf(3) = Fields
  <2>1. NamesOf(3) = <<"micro_version", "coder", "colorspace", "bits", "chroma", "log2_h",
                       "log2_v", "extra", "h", "v", "set_count", "ec", "intra">>
    BY DEF NamesOf
  <2>2. DOMAIN NamesOf(3) = 1..13
    BY <2>1
  <2>3. FieldsOf(3) = [n \in 1..13 |-> <<NamesOf(3)[n], 0>>]
    BY <2>2 DEF FieldsOf
  <2>4. Fields = [n \in 1..13 |-> Fields[n]]
    BY DEF Fields
  <2>5. ASSUME NEW n \in 1..13
        PROVE  Fields[n] = <<NamesOf(3)[n], 0>>
    <3>1. n \in {1, 2, 3, 4, 5, 6, 7, 8, 9, 10, 11, 12, 13}
      OBVIOUS
    <3> QED BY <2>1, <3>1 DEF Fields
  <2> QED BY <2>3, <2>4, <2>5
<1>2. Fields \in Seq(Entries) /\ Len(Fields) = 13
  BY DEF Fields, Entries, FieldNames, Numbers, Flags
<1> QED BY <1>1, <1>2

\* A field that is repeated.
LEMMA TimesTypes ==
  ASSUME NEW field \in FieldNames, NEW n \in Nat
  PROVE  Times(field, n) \in Seq(Entries) /\ Len(Times(field, n)) = n
         /\ \A i \in 1..n : Times(field, n)[i] = <<field, i>>
<1>1. Times(field, n) \in [1..n -> Entries]
  BY DEF Times, Entries
<1>2. Times(field, n) \in Seq(Entries) /\ Len(Times(field, n)) = n
  BY <1>1, FunctionSequence
<1> QED BY <1>2 DEF Times

Good(s) == s \in Streams /\ Writable(s)

Three(s) == <<U(3), U(4), U(Coder(s))>>

Deltas(s) ==
  IF CustomTransition(s)
  THEN [n \in DOMAIN DefaultTransition |-> S(0, s.transition[n] - DefaultTransition[n])]
  ELSE <<>>

Nine(s) ==
  <<U(s.colorspace), U(s.bits), B(s.chroma), U(s.log2_h), U(s.log2_v), B(s.extra),
    U(s.h - 1), U(s.v - 1), U(Len(s.sets))>>

SetWords(s) == [n \in DOMAIN s.sets |-> WrittenSet(s.sets[n])]

StatesOf(s, n) == IF s.states = <<>> THEN <<>> ELSE s.states[n]

StateSymbols(states) ==
  [j \in DOMAIN states |-> S((j - 1) % StateCount, states[j] - Prediction(states, j))]

StateWords(s) == [n \in DOMAIN s.sets |-> WrittenStates(StatesOf(s, n))]

Ending(s) == <<U(IF s.ec THEN 1 ELSE 0), U(IF s.intra THEN 1 ELSE 0)>>

FromStates(s) == FlattenSeq(StateWords(s)) \o Ending(s)
FromSets(s) == FlattenSeq(SetWords(s)) \o FromStates(s)
FromNine(s) == Nine(s) \o FromSets(s)

\* What the writer's checks leave of the parameters
\* (configuration_record_writer.cpp:239).
LEMMA GoodTypes ==
  ASSUME NEW s, Good(s)
  PROVE  /\ s.version = 3 /\ s.micro_version = 4
         /\ s.entropy \in {"range", "golomb_rice"}
         /\ s.colorspace \in {0, 1} /\ s.bits \in Nat /\ s.bits >= 1 /\ s.bits <= 16
         /\ s.chroma \in BOOLEAN /\ s.extra \in BOOLEAN
         /\ s.log2_h \in {0, 1} /\ s.log2_v \in {0, 1}
         /\ s.h \in Nat /\ s.h >= 1 /\ s.h < Word /\ s.v \in Nat /\ s.v >= 1 /\ s.v < Word
         /\ s.ec \in BOOLEAN /\ s.intra \in BOOLEAN
         /\ ~InvalidRgb(s)
         /\ s.sets \in Seq(Sets) /\ Len(s.sets) \in Nat /\ Len(s.sets) >= 1 /\ Len(s.sets) <= 8
         /\ \A n \in 1..Len(s.sets) : s.sets[n] \in Sets /\ EncodableSet(s.sets[n])
         /\ s.transition \in [DOMAIN DefaultTransition -> 0..(Byte - 1)]
<1>1. s \in Parameters /\ Writable(s)
  BY RecordAssumption DEF Good
<1>2. s.entropy \in {"range", "golomb_rice"} /\ s.colorspace \in Int /\ s.bits \in Nat
      /\ s.chroma \in BOOLEAN /\ s.extra \in BOOLEAN /\ s.log2_h \in Nat /\ s.log2_v \in Nat
      /\ s.h \in 0..(Word - 1) /\ s.v \in 0..(Word - 1) /\ s.ec \in BOOLEAN /\ s.intra \in BOOLEAN
      /\ s.transition \in [DOMAIN DefaultTransition -> 0..(Byte - 1)]
  BY <1>1 DEF Parameters
<1>3. s.sets \in Seq(Sets)
  BY <1>1 DEF Parameters, Sets
<1>4. Len(s.sets) \in 1..8 /\ \A n \in DOMAIN s.sets : EncodableSet(s.sets[n])
  <2>1. Len(s.sets) \in 1..8
    BY Zenon, <1>1 DEF Writable
  <2>2. \A n \in DOMAIN s.sets : EncodableSet(s.sets[n])
    BY Zenon, <1>1 DEF Writable
  <2> QED BY <2>1, <2>2
<1>5. s.bits \in 1..16 /\ s.log2_h <= 1 /\ s.log2_v <= s.log2_h /\ s.h > 0 /\ s.v > 0
      /\ s.version = 3 /\ s.micro_version = 4 /\ s.colorspace \in {0, 1} /\ ~InvalidRgb(s)
  BY <1>1 DEF Writable
<1>6. Word \in Nat
  BY RecordAssumption
<1>7. s.log2_h \in {0, 1} /\ s.log2_v \in {0, 1}
  BY <1>2, <1>5
<1>8. s.h \in Nat /\ s.h >= 1 /\ s.h < Word /\ s.v \in Nat /\ s.v >= 1 /\ s.v < Word
  BY <1>2, <1>5, <1>6
<1>9. \A n \in 1..Len(s.sets) : s.sets[n] \in Sets /\ EncodableSet(s.sets[n])
  BY <1>3, <1>4
<1>10. Len(s.sets) \in Nat /\ Len(s.sets) >= 1 /\ Len(s.sets) <= 8
  <2> DEFINE l == Len(s.sets)
  <2>1. l \in 1..8
    BY <1>4
  <2> HIDE DEF l
  <2>2. l \in Nat /\ l >= 1 /\ l <= 8
    BY <2>1
  <2> QED BY <2>2 DEF l
<1>11. s.bits \in Nat /\ s.bits >= 1 /\ s.bits <= 16
  BY <1>5
<1> QED BY <1>2, <1>3, <1>5, <1>7, <1>8, <1>9, <1>10, <1>11

\* The initial states of a set are none or those of all its contexts.
LEMMA StatesTypes ==
  ASSUME NEW s, Good(s), NEW n \in 1..Len(s.sets)
  PROVE  /\ StatesOf(s, n) \in Seq(0..(Byte - 1))
         /\ StatesOf(s, n) # <<>> => Len(StatesOf(s, n)) = StateCount * s.sets[n].contexts
         /\ s.states # <<>> => Len(s.states) = Len(s.sets) /\ s.states[n] = StatesOf(s, n)
<1>1. s \in Parameters /\ Writable(s)
  BY RecordAssumption DEF Good
<1>2. s.states \in Seq(Seq(0..(Byte - 1)))
  BY <1>1 DEF Parameters
<1>3. CASE s.states = <<>>
  BY <1>3 DEF StatesOf
<1>4. CASE s.states # <<>>
  <2>1. Len(s.states) = Len(s.sets)
        /\ \A m \in DOMAIN s.states :
             s.states[m] # <<>> => Len(s.states[m]) = StateCount * s.sets[m].contexts
    BY <1>1, <1>4 DEF Writable
  <2>2. n \in 1..Len(s.states) /\ DOMAIN s.states = 1..Len(s.states)
    BY <1>2, <2>1
  <2>3. s.states[n] \in Seq(0..(Byte - 1))
    BY <1>2, <2>2, ElementOfSeq
  <2> QED BY <1>4, <2>1, <2>2, <2>3 DEF StatesOf
<1> QED BY <1>3, <1>4

\* Each of them is written as a difference that fits a byte
\* (configuration_record_writer.cpp:172).
LEMMA StateSymbolsTypes ==
  ASSUME NEW states \in Seq(0..(Byte - 1))
  PROVE  /\ StateSymbols(states) \in Seq(Symbols) /\ Len(StateSymbols(states)) = Len(states)
         /\ \A j \in 1..Len(states) :
              StateSymbols(states)[j] = S((j - 1) % StateCount, states[j] - Prediction(states, j))
         /\ \A j \in 1..Len(states) : Prediction(states, j) \in 0..(Byte - 1)
<1>1. Byte \in Nat /\ Byte >= 2 /\ StateCount \in Nat /\ StateCount >= 1
  BY RecordAssumption
<1>2. Len(states) \in Nat /\ DOMAIN states = 1..Len(states)
      /\ \A j \in 1..Len(states) : states[j] \in 0..(Byte - 1)
  BY <1>1
<1>3. ASSUME NEW j \in 1..Len(states)
      PROVE  Prediction(states, j) \in 0..(Byte - 1)
  <2>1. CASE j <= StateCount
    <3>1. Byte \div 2 \in 0..(Byte - 1)
      BY <1>1
    <3> QED BY <2>1, <3>1 DEF Prediction
  <2>2. CASE j > StateCount
    <3>1. j - StateCount \in 1..Len(states) /\ ~(j <= StateCount)
      BY <1>1, <1>2, <2>2
    <3> QED BY <1>2, <3>1 DEF Prediction
  <2> QED BY <1>1, <1>2, <2>1, <2>2
<1>4. ASSUME NEW j \in 1..Len(states)
      PROVE  S((j - 1) % StateCount, states[j] - Prediction(states, j)) \in Symbols
  <2>1. (j - 1) % StateCount \in Int
    <3>1. j - 1 \in Int
      BY <1>2
    <3> QED BY <1>1, <3>1
  <2>2. states[j] - Prediction(states, j) \in Int
    <3>1. states[j] \in Int /\ Prediction(states, j) \in Int
      BY <1>1, <1>2, <1>3
    <3> QED BY <3>1
  <2> QED BY <2>1, <2>2 DEF S, Symbols
<1>5. StateSymbols(states) \in [1..Len(states) -> Symbols]
  BY <1>2, <1>4 DEF StateSymbols
<1>6. StateSymbols(states) \in Seq(Symbols) /\ Len(StateSymbols(states)) = Len(states)
  BY <1>2, <1>5, FunctionSequence
<1>7. \A j \in 1..Len(states) :
        StateSymbols(states)[j] = S((j - 1) % StateCount, states[j] - Prediction(states, j))
  BY <1>2 DEF StateSymbols
<1> QED BY <1>3, <1>6, <1>7

\* The parts of a record are sequences of symbols.
LEMMA WordsTypes ==
  ASSUME NEW s, Good(s)
  PROVE  /\ Three(s) \in Seq(Symbols) /\ Len(Three(s)) = 3
         /\ Deltas(s) \in Seq(Symbols)
         /\ Nine(s) \in Seq(Symbols) /\ Len(Nine(s)) = 9
         /\ SetWords(s) \in Seq(Seq(Symbols)) /\ Len(SetWords(s)) = Len(s.sets)
         /\ \A n \in 1..Len(s.sets) : SetWords(s)[n] = WrittenSet(s.sets[n])
         /\ StateWords(s) \in Seq(Seq(Symbols)) /\ Len(StateWords(s)) = Len(s.sets)
         /\ \A n \in 1..Len(s.sets) :
              StateWords(s)[n] = <<B(StatesOf(s, n) # <<>>)>> \o StateSymbols(StatesOf(s, n))
         /\ Ending(s) \in Seq(Symbols) /\ Len(Ending(s)) = 2
<1>1. Three(s) \in Seq(Symbols) /\ Len(Three(s)) = 3
  <2>1. Coder(s) \in Int
    BY DEF Coder
  <2> QED BY <2>1 DEF Three, U, Symbols
<1>2. Deltas(s) \in Seq(Symbols)
  <2>1. CASE CustomTransition(s)
    <3> DEFINE d == Len(DefaultTransition)
    <3>1. d \in Nat /\ DOMAIN DefaultTransition = 1..d
          /\ \A n \in 1..d : DefaultTransition[n] \in Int
      BY RecordAssumption
    <3>2. \A n \in 1..d : s.transition[n] \in Int
      <4>1. s.transition \in [DOMAIN DefaultTransition -> 0..(Byte - 1)]
        BY GoodTypes
      <4>2. 0..(Byte - 1) \subseteq Int
        BY RecordAssumption
      <4> HIDE DEF d
      <4> QED BY <3>1, <4>1, <4>2
    <3> HIDE DEF d
    <3>3. \A n \in 1..d : S(0, s.transition[n] - DefaultTransition[n]) \in Symbols
      BY <3>1, <3>2 DEF S, Symbols
    <3>4. Deltas(s) \in [1..d -> Symbols]
      BY <2>1, <3>1, <3>3 DEF Deltas
    <3> QED BY <3>1, <3>4, FunctionSequence
  <2>2. CASE ~CustomTransition(s)
    BY <2>2 DEF Deltas
  <2> QED BY <2>1, <2>2
<1>3. Nine(s) \in Seq(Symbols) /\ Len(Nine(s)) = 9
  <2>1. s.colorspace \in Int /\ s.bits \in Int /\ s.log2_h \in Int /\ s.log2_v \in Int
        /\ s.h - 1 \in Int /\ s.v - 1 \in Int /\ Len(s.sets) \in Int
    BY GoodTypes
  <2>2. U(s.colorspace) \in Symbols /\ U(s.bits) \in Symbols /\ U(s.log2_h) \in Symbols
        /\ U(s.log2_v) \in Symbols /\ U(s.h - 1) \in Symbols /\ U(s.v - 1) \in Symbols
        /\ U(Len(s.sets)) \in Symbols
    BY <2>1 DEF U, Symbols
  <2>3. B(s.chroma) \in Symbols /\ B(s.extra) \in Symbols
    BY DEF B, Symbols
  <2> QED BY <2>2, <2>3 DEF Nine
<1>4. SetWords(s) \in Seq(Seq(Symbols)) /\ Len(SetWords(s)) = Len(s.sets)
      /\ \A n \in 1..Len(s.sets) : SetWords(s)[n] = WrittenSet(s.sets[n])
  <2>1. s.sets \in Seq(Sets) /\ Len(s.sets) \in Nat /\ DOMAIN s.sets = 1..Len(s.sets)
    BY GoodTypes
  <2>2. \A n \in 1..Len(s.sets) : WrittenSet(s.sets[n]) \in Seq(Symbols)
    BY GoodTypes, TableWordsTypes
  <2>3. SetWords(s) \in [1..Len(s.sets) -> Seq(Symbols)]
    BY <2>1, <2>2 DEF SetWords
  <2>4. SetWords(s) \in Seq(Seq(Symbols)) /\ Len(SetWords(s)) = Len(s.sets)
    BY <2>1, <2>3, FunctionSequence
  <2> QED BY <2>1, <2>4 DEF SetWords
<1>5. StateWords(s) \in Seq(Seq(Symbols)) /\ Len(StateWords(s)) = Len(s.sets)
      /\ \A n \in 1..Len(s.sets) :
           StateWords(s)[n] = <<B(StatesOf(s, n) # <<>>)>> \o StateSymbols(StatesOf(s, n))
  <2> DEFINE word(n) == <<B(StatesOf(s, n) # <<>>)>> \o StateSymbols(StatesOf(s, n))
  <2>1. Len(s.sets) \in Nat /\ DOMAIN s.sets = 1..Len(s.sets)
    BY GoodTypes
  <2>2. ASSUME NEW n \in 1..Len(s.sets)
        PROVE  word(n) \in Seq(Symbols)
    <3>1. StateSymbols(StatesOf(s, n)) \in Seq(Symbols)
      BY StatesTypes, StateSymbolsTypes
    <3>2. <<B(StatesOf(s, n) # <<>>)>> \in Seq(Symbols)
      BY DEF B, Symbols
    <3> QED BY <3>1, <3>2, ConcatProperties
  <2>3. StateWords(s) = [n \in 1..Len(s.sets) |-> word(n)]
    BY <2>1 DEF StateWords, WrittenStates, StateSymbols
  <2> HIDE DEF word
  <2>4. StateWords(s) \in [1..Len(s.sets) -> Seq(Symbols)]
    BY <2>2, <2>3
  <2>5. StateWords(s) \in Seq(Seq(Symbols)) /\ Len(StateWords(s)) = Len(s.sets)
    BY <2>1, <2>4, FunctionSequence
  <2>6. \A n \in 1..Len(s.sets) : StateWords(s)[n] = word(n)
    BY <2>3
  <2> QED BY <2>5, <2>6 DEF word
<1>6. Ending(s) \in Seq(Symbols) /\ Len(Ending(s)) = 2
  BY DEF Ending, U, Symbols
<1> QED BY <1>1, <1>2, <1>3, <1>4, <1>5, <1>6

\* A sequence with one more entry.
LEMMA OneMore ==
  ASSUME NEW T, NEW s \in Seq(T), NEW t \in Seq(T), NEW e \in T, Len(t) = Len(s) + 1,
         \A i \in 1..Len(s) : t[i] = s[i], t[Len(t)] = e
  PROVE  s \o <<e>> = t
<1> DEFINE u == <<e>>
           l == s \o u
<1>1. u \in Seq(T) /\ Len(u) = 1 /\ u[1] = e
  OBVIOUS
<1> HIDE DEF u
<1>2. l \in Seq(T) /\ Len(l) = Len(s) + Len(u)
      /\ \A i \in 1..(Len(s) + Len(u)) : l[i] = IF i <= Len(s) THEN s[i] ELSE u[i - Len(s)]
  BY <1>1, ConcatProperties
<1> HIDE DEF l
<1>3. ASSUME NEW i \in 1..Len(l)
      PROVE  l[i] = t[i]
  <2>1. Len(s) \in Nat /\ i \in 1..(Len(s) + Len(u)) /\ i \in Nat /\ i >= 1 /\ i <= Len(s) + 1
    BY <1>1, <1>2
  <2>2. CASE i <= Len(s)
    BY <1>2, <2>1, <2>2
  <2>3. CASE i = Len(s) + 1
    <3>1. i - Len(s) = 1 /\ ~(i <= Len(s)) /\ i = Len(t)
      BY <2>1, <2>3
    <3> QED BY <1>1, <1>2, <2>1, <3>1
  <2> QED BY <2>1, <2>2, <2>3
<1>4. Len(l) = Len(t)
  BY <1>1, <1>2
<1> QED BY <1>2, <1>3, <1>4, SeqEqual DEF l, u

UpTo(s, c) == [n \in 1..c |-> s[n]]

\* What was taken of a sequence grows by the entry that comes next.
LEMMA UpToTypes ==
  ASSUME NEW T, NEW s \in Seq(T), NEW c \in 0..Len(s)
  PROVE  /\ UpTo(s, c) \in Seq(T) /\ Len(UpTo(s, c)) = c
         /\ c < Len(s) => UpTo(s, c) \o <<s[c + 1]>> = UpTo(s, c + 1)
         /\ c < Len(s) => Append(UpTo(s, c), s[c + 1]) = UpTo(s, c + 1)
         /\ c = Len(s) => UpTo(s, c) = s
         /\ c = 0 => UpTo(s, c) = <<>>
<1>1. Len(s) \in Nat /\ c \in Nat /\ \A i \in 1..Len(s) : s[i] \in T
  BY ElementOfSeq
<1>2. ASSUME NEW b \in 0..Len(s)
      PROVE  UpTo(s, b) \in Seq(T) /\ Len(UpTo(s, b)) = b /\ \A i \in 1..b : UpTo(s, b)[i] = s[i]
  <2>1. b \in Nat /\ UpTo(s, b) \in [1..b -> T]
    BY <1>1 DEF UpTo
  <2>2. UpTo(s, b) \in Seq(T) /\ Len(UpTo(s, b)) = b
    BY <2>1, FunctionSequence
  <2> QED BY <2>1, <2>2 DEF UpTo
<1>3. ASSUME c < Len(s)
      PROVE  UpTo(s, c) \o <<s[c + 1]>> = UpTo(s, c + 1)
             /\ Append(UpTo(s, c), s[c + 1]) = UpTo(s, c + 1)
  <2>1. c + 1 \in 0..Len(s) /\ c + 1 \in 1..Len(s)
    BY <1>1, <1>3
  <2> DEFINE a == UpTo(s, c)
             b == UpTo(s, c + 1)
             e == s[c + 1]
  <2>2. a \in Seq(T) /\ Len(a) = c /\ \A i \in 1..c : a[i] = s[i]
    BY <1>2
  <2>3. b \in Seq(T) /\ Len(b) = c + 1 /\ \A i \in 1..(c + 1) : b[i] = s[i]
    BY <1>2, <2>1
  <2>4. e \in T
    BY <1>1, <2>1
  <2>5. \A i \in 1..c : b[i] = a[i]
    BY <1>1, <2>2, <2>3
  <2>6. b[c + 1] = e
    BY <1>1, <2>3
  <2> HIDE DEF a, b, e
  <2>7. a \o <<e>> = b
    BY <2>2, <2>3, <2>4, <2>5, <2>6, OneMore
  <2>8. Append(a, e) = a \o <<e>>
    BY <2>2, <2>4, AppendIsConcat
  <2> QED BY <2>7, <2>8 DEF a, b, e
<1>4. ASSUME c = Len(s)
      PROVE  UpTo(s, c) = s
  BY <1>1, <1>2, <1>4, SeqEqual
<1>5. ASSUME c = 0
      PROVE  UpTo(s, c) = <<>>
  BY <1>5, <1>2
<1> QED BY <1>2, <1>3, <1>4, <1>5

\* Before anything is taken it is empty.
LEMMA UpToNone ==
  ASSUME NEW T, NEW s \in Seq(T)
  PROVE  UpTo(s, 0) = <<>>
<1>1. Len(s) \in Nat /\ 0 \in 0..Len(s)
  BY ElementOfSeq
<1> QED BY <1>1, UpToTypes

(***************************************************************************)
(* The parameters that have been read.                                     *)
(***************************************************************************)
Names == {"version", "micro_version", "entropy", "transition", "colorspace", "bits", "chroma",
          "log2_h", "log2_v", "extra", "h", "v", "sets", "states", "ec", "intra"}

\* The parameters that the fields give, in their order.
Given == <<"micro_version", "entropy", "colorspace", "bits", "chroma", "log2_h", "log2_v",
           "extra", "h", "v", "set_count", "ec", "intra">>

Known(j) == {Given[i] : i \in 1..j}

Expected(s, j, transition, sets, states) ==
  [x \in Names |-> IF x = "transition" THEN transition
                   ELSE IF x = "sets" THEN sets
                   ELSE IF x = "states" THEN states
                   ELSE IF x \in Known(j) THEN s[x] ELSE NoParameters[x]]

\* The parameters before anything is read (configuration_parser.cpp:53).
LEMMA NothingRead ==
  ASSUME NEW s
  PROVE  NoParameters = Expected(s, 0, DefaultTransition, <<>>, <<>>)
<1>1. DOMAIN NoParameters = Names /\ NoParameters = [x \in Names |-> NoParameters[x]]
  BY DEF NoParameters, Names
<1>2. NoParameters["transition"] = DefaultTransition /\ NoParameters["sets"] = <<>>
      /\ NoParameters["states"] = <<>>
  BY DEF NoParameters
<1>3. Known(0) = {}
  BY DEF Known
<1> DEFINE e == Expected(s, 0, DefaultTransition, <<>>, <<>>)
<1>4. \A x \in Names : e[x] = NoParameters[x]
  BY <1>2, <1>3 DEF Expected
<1>5. e = [x \in Names |-> e[x]]
  BY DEF Expected
<1> QED BY <1>1, <1>4, <1>5

\* A field that is read adds its parameter to those that are known.
LEMMA NextRead ==
  ASSUME NEW s, NEW j \in 0..12, NEW transition, NEW sets, NEW states
  PROVE  LET read == Expected(s, j, transition, sets, states)
         IN /\ Given[j + 1] \in Names =>
                 [read EXCEPT ![Given[j + 1]] = s[Given[j + 1]]]
                   = Expected(s, j + 1, transition, sets, states)
            /\ Given[j + 1] \notin Names =>
                 read = Expected(s, j + 1, transition, sets, states)
<1> DEFINE name == Given[j + 1]
<1>1. Known(j + 1) = Known(j) \cup {name}
  <2>1. 1..(j + 1) = 1..j \cup {j + 1}
    OBVIOUS
  <2> QED BY <2>1 DEF Known
<1>2. name \notin {"transition", "sets", "states"}
  <2>1. j \in {0, 1, 2, 3, 4, 5, 6, 7, 8, 9, 10, 11, 12}
    OBVIOUS
  <2> QED BY <2>1 DEF Given
<1> HIDE DEF name
<1> DEFINE read == Expected(s, j, transition, sets, states)
           next == Expected(s, j + 1, transition, sets, states)
<1>3. DOMAIN read = Names /\ read = [x \in Names |-> read[x]]
  BY DEF Expected
<1>4. DOMAIN next = Names /\ next = [x \in Names |-> next[x]]
  BY DEF Expected
<1>5. ASSUME NEW x \in Names, x # name
      PROVE  next[x] = read[x]
  BY <1>1, <1>5 DEF Expected
<1>6. name \in Names => next[name] = s[name]
  BY <1>1, <1>2 DEF Expected
<1> HIDE DEF read, next
<1>7. ASSUME name \in Names
      PROVE  [read EXCEPT ![name] = s[name]] = next
  BY <1>3, <1>4, <1>5, <1>6, <1>7
<1>8. ASSUME name \notin Names
      PROVE  read = next
  BY <1>3, <1>4, <1>5, <1>8
<1> QED BY <1>7, <1>8 DEF read, next, name

\* The transition table, the sets and the states are read apart from them.
LEMMA OthersRead ==
  ASSUME NEW s, NEW j, NEW transition, NEW sets, NEW states, NEW other
  PROVE  LET read == Expected(s, j, transition, sets, states)
         IN /\ [read EXCEPT !.transition = other] = Expected(s, j, other, sets, states)
            /\ [read EXCEPT !.sets = other] = Expected(s, j, transition, other, states)
            /\ [read EXCEPT !.states = other] = Expected(s, j, transition, sets, other)
            /\ read.transition = transition /\ read.sets = sets /\ read.states = states
<1> DEFINE read == Expected(s, j, transition, sets, states)
           a == Expected(s, j, other, sets, states)
           b == Expected(s, j, transition, other, states)
           c == Expected(s, j, transition, sets, other)
<1>1. /\ DOMAIN read = Names /\ read = [x \in Names |-> read[x]]
      /\ DOMAIN a = Names /\ a = [x \in Names |-> a[x]]
      /\ DOMAIN b = Names /\ b = [x \in Names |-> b[x]]
      /\ DOMAIN c = Names /\ c = [x \in Names |-> c[x]]
  BY DEF Expected
<1>2. "transition" \in Names /\ "sets" \in Names /\ "states" \in Names
  BY DEF Names
<1>3. /\ \A x \in Names : x # "transition" => a[x] = read[x]
      /\ \A x \in Names : x # "sets" => b[x] = read[x]
      /\ \A x \in Names : x # "states" => c[x] = read[x]
  BY DEF Expected
<1>4. a["transition"] = other /\ b["sets"] = other /\ c["states"] = other
      /\ read["transition"] = transition /\ read["sets"] = sets /\ read["states"] = states
  BY <1>2 DEF Expected
<1> HIDE DEF read, a, b, c
<1>5. [read EXCEPT !["transition"] = other] = a
  BY <1>1, <1>2, <1>3, <1>4
<1>6. [read EXCEPT !["sets"] = other] = b
  BY <1>1, <1>2, <1>3, <1>4
<1>7. [read EXCEPT !["states"] = other] = c
  BY <1>1, <1>2, <1>3, <1>4
<1> QED BY <1>4, <1>5, <1>6, <1>7 DEF read, a, b, c

ReadTransition(s) == IF CustomTransition(s) THEN s.transition ELSE DefaultTransition
ReadStates(s) == [n \in 1..Len(s.sets) |-> StatesOf(s, n)]

\* The parameters behind the last field are the ones recorded
\* (configuration_parser.cpp:295).
LEMMA AllRead ==
  ASSUME NEW s, Good(s)
  PROVE  Expected(s, 13, ReadTransition(s), s.sets, ReadStates(s)) = Recorded(s)
<1> DEFINE e == Expected(s, 13, ReadTransition(s), s.sets, ReadStates(s))
           r == Recorded(s)
<1>1. DOMAIN e = Names /\ e = [x \in Names |-> e[x]]
  BY DEF Expected
<1>2. DOMAIN s = Names /\ s = [x \in Names |-> s[x]]
  <2>1. s \in Parameters
    BY RecordAssumption DEF Good
  <2> QED BY <2>1 DEF Parameters, Names
<1>3. DOMAIN r = Names /\ r = [x \in Names |-> r[x]]
  BY <1>2 DEF Recorded
<1>4. ASSUME NEW x \in Names, x \notin {"transition", "states"}
      PROVE  r[x] = s[x]
  BY <1>2, <1>4 DEF Recorded
<1>5. ASSUME NEW x \in Names, x \notin {"transition", "states"}
      PROVE  e[x] = s[x]
  <2>1. x = "sets" \/ x = "version" \/ x \in Known(13)
    <3>1. \A i \in 1..13 : Given[i] \in Known(13)
      BY DEF Known
    <3>2. /\ Given[1] \in Known(13) /\ Given[2] \in Known(13) /\ Given[3] \in Known(13)
          /\ Given[4] \in Known(13) /\ Given[5] \in Known(13) /\ Given[6] \in Known(13)
          /\ Given[7] \in Known(13) /\ Given[8] \in Known(13) /\ Given[9] \in Known(13)
          /\ Given[10] \in Known(13) /\ Given[12] \in Known(13) /\ Given[13] \in Known(13)
      BY <3>1
    <3> QED BY <1>5, <3>2 DEF Given, Names
  <2>2. CASE x = "sets"
    BY <2>2 DEF Expected
  <2>3. CASE x # "sets" /\ x \in Known(13)
    BY <1>5, <2>3 DEF Expected
  <2>4. CASE x = "version"
    <3>1. NoParameters.version = 3 /\ s.version = 3
      BY GoodTypes DEF NoParameters
    <3>2. e[x] = s[x] \/ e[x] = NoParameters[x]
      BY <1>5, <2>4 DEF Expected
    <3> QED BY <2>4, <3>1, <3>2
  <2> QED BY <2>1, <2>2, <2>3, <2>4
<1>6. e.transition = r.transition
  <2>1. e.transition = ReadTransition(s)
    BY OthersRead
  <2>2. r.transition = IF s.entropy = "range" THEN s.transition ELSE DefaultTransition
    BY <1>2 DEF Recorded, Names
  <2> QED BY <2>1, <2>2 DEF ReadTransition, CustomTransition
<1>7. e.states = r.states
  <2>1. e.states = ReadStates(s)
    BY OthersRead
  <2>2. r.states = IF s.states = <<>> THEN [n \in DOMAIN s.sets |-> <<>>] ELSE s.states
    BY <1>2 DEF Recorded, Names
  <2>3. Len(s.sets) \in Nat /\ DOMAIN s.sets = 1..Len(s.sets)
    BY GoodTypes
  <2>4. CASE s.states = <<>>
    BY <2>1, <2>2, <2>3, <2>4 DEF ReadStates, StatesOf
  <2>5. CASE s.states # <<>>
    <3>1. s.states \in Seq(Seq(0..(Byte - 1)))
      BY RecordAssumption DEF Good, Parameters
    <3>2. Len(s.states) = Len(s.sets)
      <4>1. 1 \in 1..Len(s.sets)
        BY GoodTypes
      <4> QED BY <2>5, <4>1, StatesTypes
    <3>3. s.states = [n \in 1..Len(s.sets) |-> s.states[n]]
      BY <3>1, <3>2
    <3> QED BY <2>1, <2>2, <2>5, <3>3 DEF ReadStates, StatesOf
  <2> QED BY <2>4, <2>5
<1> HIDE DEF e, r
<1>8. \A x \in Names : e[x] = r[x]
  BY <1>4, <1>5, <1>6, <1>7
<1> QED BY <1>1, <1>3, <1>8 DEF e, r

(***************************************************************************)
(* The symbols of a record, part by part.                                  *)
(***************************************************************************)
Six(T, a, b, c, d, e, f) ==
  /\ a \in Seq(T) /\ b \in Seq(T) /\ c \in Seq(T)
  /\ d \in Seq(T) /\ e \in Seq(T) /\ f \in Seq(T)

SixJoined(a, b, c, d, e, f) ==
  a \o b \o c \o d \o e \o f = a \o (b \o (c \o (d \o (e \o f))))

\* Six parts joined, bracketed from the right.
LEMMA ConcatSix ==
  ASSUME NEW T, NEW a, NEW b, NEW c, NEW d, NEW e, NEW f, Six(T, a, b, c, d, e, f)
  PROVE  SixJoined(a, b, c, d, e, f)
<1> DEFINE v == e \o f
           w == d \o v
           x == c \o w
           y == b \o x
           p == a \o b
           q == p \o c
           r == q \o d
<1>1. \A g, h \in Seq(T) : g \o h \in Seq(T)
  BY ConcatProperties
<1>2. /\ a \in Seq(T) /\ b \in Seq(T) /\ c \in Seq(T)
       /\ d \in Seq(T) /\ e \in Seq(T) /\ f \in Seq(T)
  BY DEF Six
<1>3. v \in Seq(T)
  BY <1>1, <1>2
<1>4. w \in Seq(T)
  BY <1>1, <1>2, <1>3
<1>5. x \in Seq(T)
  BY <1>1, <1>2, <1>4
<1>6. p \in Seq(T)
  BY <1>1, <1>2
<1>7. q \in Seq(T)
  BY <1>1, <1>2, <1>6
<1>8. r \in Seq(T)
  BY <1>1, <1>2, <1>7
<1>9. p \o x = a \o y
  <2> HIDE DEF x
  <2>1. a \in Seq(T) /\ b \in Seq(T) /\ x \in Seq(T)
    BY <1>2, <1>5
  <2>2. (a \o b) \o x = a \o (b \o x)
    BY ONLY <2>1, ConcatAssociative
  <2> QED BY <2>2
<1>10. q \o w = p \o x
  <2> HIDE DEF p, w
  <2>1. p \in Seq(T) /\ c \in Seq(T) /\ w \in Seq(T)
    BY <1>2, <1>4, <1>6
  <2>2. (p \o c) \o w = p \o (c \o w)
    BY ONLY <2>1, ConcatAssociative
  <2> QED BY <2>2
<1>11. r \o v = q \o w
  <2> HIDE DEF q, v
  <2>1. q \in Seq(T) /\ d \in Seq(T) /\ v \in Seq(T)
    BY <1>2, <1>3, <1>7
  <2>2. (q \o d) \o v = q \o (d \o v)
    BY ONLY <2>1, ConcatAssociative
  <2> QED BY <2>2
<1>12. (r \o e) \o f = r \o v
  <2> HIDE DEF r
  <2>1. r \in Seq(T) /\ e \in Seq(T) /\ f \in Seq(T)
    BY <1>2, <1>8
  <2>2. (r \o e) \o f = r \o (e \o f)
    BY ONLY <2>1, ConcatAssociative
  <2> QED BY <2>2
<1> HIDE DEF p, q, r, v, w, x, y
<1>13. (r \o e) \o f = a \o y
  BY <1>9, <1>10, <1>11, <1>12
<1> QED BY <1>13 DEF SixJoined, p, q, r, v, w, x, y

\* A record is the version and the coder, the transition table, and the rest
\* (configuration_record_writer.cpp:235).
LEMMA WrittenIs ==
  ASSUME NEW s, Good(s)
  PROVE  /\ Written(s) = Three(s) \o (Deltas(s) \o FromNine(s))
         /\ FromNine(s) \in Seq(Symbols) /\ FromSets(s) \in Seq(Symbols)
         /\ FromStates(s) \in Seq(Symbols) /\ Deltas(s) \o FromNine(s) \in Seq(Symbols)
<1> DEFINE a == Three(s)
           b == Deltas(s)
           c == Nine(s)
           d == FlattenSeq(SetWords(s))
           e == FlattenSeq(StateWords(s))
           f == Ending(s)
<1>1. Written(s) = a \o b \o c \o d \o e \o f
  BY DEF Written, Three, Deltas, Nine, SetWords, StateWords, StatesOf, Ending
<1>2. d \in Seq(Symbols)
  <2>1. SetWords(s) \in Seq(Seq(Symbols)) /\ 0 \in 0..Len(SetWords(s))
    BY WordsTypes
  <2>2. FlattenSeq(After(SetWords(s), 0)) \in Seq(Symbols)
    BY <2>1, FlattenType
  <2> QED BY <2>1, <2>2, AfterNone
<1>3. e \in Seq(Symbols)
  <2>1. StateWords(s) \in Seq(Seq(Symbols)) /\ 0 \in 0..Len(StateWords(s))
    BY WordsTypes
  <2>2. FlattenSeq(After(StateWords(s), 0)) \in Seq(Symbols)
    BY <2>1, FlattenType
  <2> QED BY <2>1, <2>2, AfterNone
<1>4. a \in Seq(Symbols) /\ b \in Seq(Symbols) /\ c \in Seq(Symbols) /\ f \in Seq(Symbols)
  BY WordsTypes
<1> HIDE DEF a, b, c, d, e, f
<1>5. a \o b \o c \o d \o e \o f = a \o (b \o (c \o (d \o (e \o f))))
  <2> DEFINE T == Symbols
  <2>1. Six(T, a, b, c, d, e, f)
    BY <1>2, <1>3, <1>4 DEF Six
  <2> HIDE DEF T
  <2>2. SixJoined(a, b, c, d, e, f)
    BY <2>1, ConcatSix
  <2> QED BY <2>2 DEF SixJoined
<1>6. FromStates(s) = e \o f /\ FromSets(s) = d \o FromStates(s) /\ FromNine(s) = c \o FromSets(s)
  BY DEF FromStates, FromSets, FromNine, c, d, e, f
<1>7. FromStates(s) \in Seq(Symbols)
  BY <1>3, <1>4, <1>6, ConcatProperties
<1>8. FromSets(s) \in Seq(Symbols)
  BY <1>2, <1>6, <1>7, ConcatProperties
<1>9. FromNine(s) \in Seq(Symbols)
  BY <1>4, <1>6, <1>8, ConcatProperties
<1>10. b \o FromNine(s) \in Seq(Symbols)
  BY <1>4, <1>9, ConcatProperties
<1>11. a \o b \o c \o d \o e \o f = a \o (b \o FromNine(s))
  BY <1>5, <1>6
<1> QED BY <1>1, <1>7, <1>8, <1>9, <1>10, <1>11 DEF a, b

\* The last of a sequence needs nothing behind it.
LEMMA TakeLast ==
  ASSUME NEW T, NEW s \in Seq(T), NEW j \in 0..Len(s)
  PROVE  /\ j < Len(s) => /\ After(s, j) # <<>>
                          /\ Head(After(s, j)) = s[j + 1]
                          /\ Tail(After(s, j)) = After(s, j + 1)
         /\ j = Len(s) => After(s, j) = <<>>
<1>1. ASSUME j < Len(s)
      PROVE  /\ After(s, j) # <<>>
             /\ Head(After(s, j)) = s[j + 1]
             /\ Tail(After(s, j)) = After(s, j + 1)
  <2> DEFINE a == After(s, j)
             b == After(s, j + 1)
             t == <<>>
  <2>1. j + 1 \in 0..Len(s)
    BY <1>1
  <2>2. a \in Seq(T) /\ b \in Seq(T) /\ t \in Seq(T)
    BY <2>1, AfterTypes
  <2>3. a \o t # <<>> /\ Head(a \o t) = s[j + 1] /\ Tail(a \o t) = b \o t
    BY <1>1, <2>2, TakeOne
  <2> HIDE DEF a, b
  <2>4. a \o <<>> = a /\ b \o <<>> = b
    BY <2>2, ConcatEmptySeq
  <2> QED BY <2>3, <2>4 DEF a, b
<1>2. ASSUME j = Len(s)
      PROVE  After(s, j) = <<>>
  BY <1>2, AfterTypes
<1> QED BY <1>1, <1>2

(***************************************************************************)
(* How far the parameters of an intact record have been read.              *)
(***************************************************************************)
\* The field that is read next, and the symbol it is read from.
Facing(entry, rest, symbol, behind) ==
  /\ todo # <<>> /\ Head(todo) = entry /\ Tail(todo) = rest
  /\ record # <<>> /\ Head(record) = symbol /\ Tail(record) = behind

\* In front of the transition table.
HeadShape(s, j) ==
  /\ j \in 0..1 /\ FreshTables
  /\ todo = After(Fields, j)
  /\ record = After(Three(s), j + 1) \o (Deltas(s) \o FromNine(s))
  /\ parsed = Expected(s, j, DefaultTransition, <<>>, <<>>)

PartTransition(s, c) ==
  [n \in DOMAIN DefaultTransition |-> IF n <= c THEN s.transition[n] ELSE DefaultTransition[n]]

\* In the transition table.
DeltaShape(s, c) ==
  /\ CustomTransition(s) /\ c \in 0..Len(DefaultTransition) /\ FreshTables
  /\ todo = After(Times("delta", Len(DefaultTransition)), c) \o After(Fields, 2)
  /\ record = After(Deltas(s), c) \o FromNine(s)
  /\ parsed = Expected(s, 2, PartTransition(s, c), <<>>, <<>>)

\* Between the transition table and the sets of tables.
NineShape(s, j) ==
  /\ j \in 2..10 /\ FreshTables
  /\ todo = After(Fields, j)
  /\ record = After(Nine(s), j - 2) \o FromSets(s)
  /\ parsed = Expected(s, j, ReadTransition(s), <<>>, <<>>)

BlankStates(s) == [n \in 1..Len(s.sets) |-> <<>>]
CodedTodo(s, c) == After(Times("coded", Len(s.sets)), c) \o After(Fields, 11)
BehindSets(s, c) == FlattenSeq(After(SetWords(s), c)) \o FromStates(s)
BehindStates(s, c) == FlattenSeq(After(StateWords(s), c)) \o Ending(s)

\* In the sets of tables: so many of them are read.
SetsRead(s, c) ==
  /\ todo = After(Times("set", Len(s.sets)), c) \o CodedTodo(s, 0)
  /\ parsed = Expected(s, 11, ReadTransition(s), UpTo(s.sets, c), BlankStates(s))

SetShape(s, c) ==
  /\ c \in 0..Len(s.sets) /\ SetsRead(s, c) /\ FreshTables
  /\ record = BehindSets(s, c)

SetStage(s, c) ==
  /\ c \in 0..(Len(s.sets) - 1) /\ SetsRead(s, c)
  /\ TableStage(s.sets[c + 1], BehindSets(s, c + 1))

PartStates(s, c) == [n \in 1..Len(s.sets) |-> IF n <= c THEN StatesOf(s, n) ELSE <<>>]

\* In front of the initial states of a set, and in them.
CodedShape(s, c) ==
  /\ c \in 0..Len(s.sets)
  /\ todo = CodedTodo(s, c)
  /\ record = BehindStates(s, c)
  /\ parsed = Expected(s, 11, ReadTransition(s), s.sets, PartStates(s, c))

StateTodo(s, c) == [j \in 1..Len(StatesOf(s, c)) |-> <<"state", c>>]

StateShape(s, c, q) ==
  /\ c \in 1..Len(s.sets) /\ q \in 0..Len(StatesOf(s, c))
  /\ todo = After(StateTodo(s, c), q) \o CodedTodo(s, c)
  /\ record = After(StateSymbols(StatesOf(s, c)), q) \o BehindStates(s, c)
  /\ parsed = Expected(s, 11, ReadTransition(s), s.sets,
                       [PartStates(s, c) EXCEPT ![c] = UpTo(StatesOf(s, c), q)])

\* Behind them.
EndShape(s, j) ==
  /\ j \in 11..13
  /\ todo = After(Fields, j)
  /\ record = After(Ending(s), j - 11)
  /\ parsed = Expected(s, j, ReadTransition(s), s.sets, ReadStates(s))

\* The fields that are left, and the one in front of them.
LEMMA FieldsLeft ==
  ASSUME NEW j \in 0..13
  PROVE  /\ After(Fields, j) \in Seq(Entries)
         /\ j < 13 => /\ After(Fields, j) # <<>>
                      /\ Head(After(Fields, j)) = Fields[j + 1]
                      /\ Tail(After(Fields, j)) = After(Fields, j + 1)
         /\ j = 13 => After(Fields, j) = <<>>
<1> DEFINE l == Len(Fields)
<1>1. Fields \in Seq(Entries) /\ l = 13
  BY FieldsAre
<1> HIDE DEF l
<1>2. j \in 0..l
  BY <1>1
<1>3. After(Fields, j) \in Seq(Entries)
  BY <1>1, <1>2, AfterTypes DEF l
<1>4. j < l => /\ After(Fields, j) # <<>>
               /\ Head(After(Fields, j)) = Fields[j + 1]
               /\ Tail(After(Fields, j)) = After(Fields, j + 1)
  BY <1>1, <1>2, TakeLast DEF l
<1>5. j = l => After(Fields, j) = <<>>
  BY <1>1, <1>2, TakeLast DEF l
<1> QED BY <1>1, <1>3, <1>4, <1>5

\* In front of the transition table the reader faces the field the writer wrote.
LEMMA HeadFacing ==
  ASSUME NEW s, Good(s), NEW j, HeadShape(s, j)
  PROVE  Facing(Fields[j + 1], After(Fields, j + 1), Three(s)[j + 2],
                After(Three(s), j + 2) \o (Deltas(s) \o FromNine(s)))
<1> DEFINE a == Three(s)
           b == Deltas(s) \o FromNine(s)
           i == j + 1
<1>1. j \in 0..13 /\ j < 13 /\ i \in 0..3 /\ i < 3 /\ i + 1 = j + 2
  BY DEF HeadShape
<1>2. todo # <<>> /\ Head(todo) = Fields[j + 1] /\ Tail(todo) = After(Fields, j + 1)
  BY <1>1, FieldsLeft DEF HeadShape
<1>3. a \in Seq(Symbols) /\ Len(a) = 3 /\ b \in Seq(Symbols)
  BY WordsTypes, WrittenIs
<1>4. record = After(a, i) \o b
  BY DEF HeadShape
<1> HIDE DEF a, b, i
<1>5. i \in 0..Len(a) /\ i < Len(a)
  BY <1>1, <1>3
<1>6. record # <<>> /\ Head(record) = a[i + 1] /\ Tail(record) = After(a, i + 1) \o b
  BY <1>3, <1>4, <1>5, TakeOne
<1>7. record # <<>> /\ Head(record) = a[j + 2] /\ Tail(record) = After(a, j + 2) \o b
  BY <1>1, <1>6
<1> QED BY <1>2, <1>7 DEF Facing, a, b

\* The symbols of a transition table of its own
\* (configuration_record_writer.cpp:266).
LEMMA DeltaWords ==
  ASSUME NEW s, Good(s), CustomTransition(s)
  PROVE  /\ Len(DefaultTransition) \in Nat /\ DOMAIN DefaultTransition = 1..Len(DefaultTransition)
         /\ Deltas(s) \in Seq(Symbols) /\ Len(Deltas(s)) = Len(DefaultTransition)
         /\ \A n \in 1..Len(DefaultTransition) :
              /\ Deltas(s)[n] = S(0, s.transition[n] - DefaultTransition[n])
              /\ s.transition[n] \in 0..(Byte - 1) /\ DefaultTransition[n] \in 0..(Byte - 1)
         /\ s.transition \in [1..Len(DefaultTransition) -> 0..(Byte - 1)]
<1> DEFINE d == Len(DefaultTransition)
<1>1. d \in Nat /\ DOMAIN DefaultTransition = 1..d
      /\ \A n \in 1..d : DefaultTransition[n] \in 0..(Byte - 1)
  BY RecordAssumption
<1>2. s.transition \in [DOMAIN DefaultTransition -> 0..(Byte - 1)]
  BY GoodTypes
<1>3. Deltas(s) \in Seq(Symbols)
  BY WordsTypes
<1>4. Deltas(s) = [n \in 1..d |-> S(0, s.transition[n] - DefaultTransition[n])]
  BY <1>1 DEF Deltas
<1> HIDE DEF d
<1>5. Len(Deltas(s)) = d
  <2>1. DOMAIN Deltas(s) = 1..d
    BY <1>4
  <2> QED BY <1>1, <1>3, <2>1, LenProperties
<1> QED BY <1>1, <1>2, <1>3, <1>4, <1>5 DEF d

\* In the transition table the reader faces the next difference.
LEMMA DeltaFacing ==
  ASSUME NEW s, Good(s), NEW c, DeltaShape(s, c), c < Len(DefaultTransition)
  PROVE  Facing(<<"delta", c + 1>>,
                After(Times("delta", Len(DefaultTransition)), c + 1) \o After(Fields, 2),
                Deltas(s)[c + 1], After(Deltas(s), c + 1) \o FromNine(s))
<1> DEFINE d == Len(DefaultTransition)
           a == Times("delta", d)
           b == After(Fields, 2)
           e == Deltas(s)
           f == FromNine(s)
<1>1. d \in Nat /\ e \in Seq(Symbols) /\ Len(e) = d
  BY DeltaWords DEF DeltaShape
<1>3. record = After(e, c) \o f /\ todo = After(a, c) \o b /\ c \in 0..d /\ c < d
  BY DEF DeltaShape
<1>4. f \in Seq(Symbols)
  BY WrittenIs
<1>5. b \in Seq(Entries)
  BY FieldsLeft
<1> HIDE DEF d
<1>6. a \in Seq(Entries) /\ Len(a) = d /\ \A i \in 1..d : a[i] = <<"delta", i>>
  <2>1. "delta" \in FieldNames
    BY DEF FieldNames
  <2> QED BY <1>1, <2>1, TimesTypes
<1> HIDE DEF a, b, e, f
<1>7. c \in 0..Len(a) /\ c < Len(a) /\ c \in 0..Len(e) /\ c < Len(e) /\ c + 1 \in 1..d
  BY <1>1, <1>3, <1>6
<1>8. todo # <<>> /\ Head(todo) = a[c + 1] /\ Tail(todo) = After(a, c + 1) \o b
  BY <1>3, <1>5, <1>6, <1>7, TakeOne
<1>9. record # <<>> /\ Head(record) = e[c + 1] /\ Tail(record) = After(e, c + 1) \o f
  BY <1>1, <1>3, <1>4, <1>7, TakeOne
<1>10. a[c + 1] = <<"delta", c + 1>>
  BY <1>6, <1>7
<1> QED BY <1>8, <1>9, <1>10 DEF Facing, a, b, e, f, d

\* Behind it the reader faces the field the writer wrote.
LEMMA NineFacing ==
  ASSUME NEW s, Good(s), NEW j, NineShape(s, j)
  PROVE  Facing(Fields[j + 1], After(Fields, j + 1), Nine(s)[j - 1],
                After(Nine(s), j - 1) \o FromSets(s))
<1> DEFINE a == Nine(s)
           b == FromSets(s)
           i == j - 2
<1>1. j \in 0..13 /\ j < 13 /\ i \in 0..9 /\ i < 9 /\ i + 1 = j - 1
  BY DEF NineShape
<1>2. todo # <<>> /\ Head(todo) = Fields[j + 1] /\ Tail(todo) = After(Fields, j + 1)
  BY <1>1, FieldsLeft DEF NineShape
<1>3. a \in Seq(Symbols) /\ Len(a) = 9 /\ b \in Seq(Symbols)
  BY WordsTypes, WrittenIs
<1>4. record = After(a, i) \o b
  BY DEF NineShape
<1> HIDE DEF a, b, i
<1>5. i \in 0..Len(a) /\ i < Len(a)
  BY <1>1, <1>3
<1>6. record # <<>> /\ Head(record) = a[i + 1] /\ Tail(record) = After(a, i + 1) \o b
  BY <1>3, <1>4, <1>5, TakeOne
<1>7. record # <<>> /\ Head(record) = a[j - 1] /\ Tail(record) = After(a, j - 1) \o b
  BY <1>1, <1>6
<1> QED BY <1>2, <1>7 DEF Facing, a, b

\* The same at the end of the record, behind which nothing is left.
LEMMA EndFacing ==
  ASSUME NEW s, Good(s), NEW j, EndShape(s, j)
  PROVE  /\ j < 13 => Facing(Fields[j + 1], After(Fields, j + 1), Ending(s)[j - 10],
                             After(Ending(s), j - 10))
         /\ j = 13 => todo = <<>> /\ record = <<>>
<1> DEFINE a == Ending(s)
           i == j - 11
<1>1. j \in 0..13 /\ i \in 0..2 /\ i + 1 = j - 10 /\ (j < 13 => i < 2) /\ (j = 13 => i = 2)
  BY DEF EndShape
<1>2. a \in Seq(Symbols) /\ Len(a) = 2
  BY WordsTypes
<1>3. record = After(a, i) /\ todo = After(Fields, j)
  BY DEF EndShape
<1> HIDE DEF a, i
<1>4. i \in 0..Len(a) /\ (j < 13 => i < Len(a)) /\ (j = 13 => i = Len(a))
  BY <1>1, <1>2
<1>5. ASSUME j < 13
      PROVE  Facing(Fields[j + 1], After(Fields, j + 1), a[j - 10], After(a, j - 10))
  <2>1. todo # <<>> /\ Head(todo) = Fields[j + 1] /\ Tail(todo) = After(Fields, j + 1)
    BY <1>1, <1>3, <1>5, FieldsLeft
  <2>2. record # <<>> /\ Head(record) = a[i + 1] /\ Tail(record) = After(a, i + 1)
    BY <1>2, <1>3, <1>4, <1>5, TakeLast
  <2> QED BY <1>1, <2>1, <2>2 DEF Facing
<1>6. ASSUME j = 13
      PROVE  todo = <<>> /\ record = <<>>
  <2>1. todo = <<>>
    BY <1>1, <1>3, <1>6, FieldsLeft
  <2>2. record = <<>>
    BY <1>2, <1>3, <1>4, <1>6, TakeLast
  <2> QED BY <2>1, <2>2
<1> QED BY <1>5, <1>6 DEF a

\* The fields behind the sets of tables.
LEMMA CodedTodoIs ==
  ASSUME NEW s, Good(s), NEW c \in 0..Len(s.sets)
  PROVE  /\ CodedTodo(s, c) \in Seq(Entries)
         /\ c < Len(s.sets) => /\ CodedTodo(s, c) # <<>>
                               /\ Head(CodedTodo(s, c)) = <<"coded", c + 1>>
                               /\ Tail(CodedTodo(s, c)) = CodedTodo(s, c + 1)
         /\ c = Len(s.sets) => CodedTodo(s, c) = After(Fields, 11)
<1> DEFINE n == Len(s.sets)
           a == Times("coded", n)
           b == After(Fields, 11)
<1>1. n \in Nat
  BY GoodTypes
<1>2. b \in Seq(Entries)
  BY FieldsLeft
<1> HIDE DEF n
<1>3. a \in Seq(Entries) /\ Len(a) = n /\ \A i \in 1..n : a[i] = <<"coded", i>>
  <2>1. "coded" \in FieldNames
    BY DEF FieldNames
  <2> QED BY <1>1, <2>1, TimesTypes
<1> HIDE DEF a, b
<1>4. c \in 0..Len(a) /\ c \in 0..n /\ c \in Nat
  BY <1>1, <1>3 DEF n
<1>5. After(a, c) \o b \in Seq(Entries)
  <2> DEFINE e == After(a, c)
  <2>1. e \in Seq(Entries)
    BY <1>3, <1>4, AfterTypes
  <2> HIDE DEF e
  <2>2. e \o b \in Seq(Entries)
    BY <1>2, <2>1, ConcatProperties
  <2> QED BY <2>2 DEF e
<1>6. ASSUME c < n
      PROVE  /\ After(a, c) \o b # <<>>
             /\ Head(After(a, c) \o b) = <<"coded", c + 1>>
             /\ Tail(After(a, c) \o b) = After(a, c + 1) \o b
  <2>1. c < Len(a) /\ c + 1 \in 1..n
    BY <1>1, <1>3, <1>4, <1>6
  <2>2. /\ After(a, c) \o b # <<>> /\ Head(After(a, c) \o b) = a[c + 1]
        /\ Tail(After(a, c) \o b) = After(a, c + 1) \o b
    BY <1>2, <1>3, <1>4, <2>1, TakeOne
  <2> QED BY <1>3, <2>1, <2>2
<1>7. ASSUME c = n
      PROVE  After(a, c) \o b = b
  <2>1. c = Len(a)
    BY <1>3, <1>7
  <2> QED BY <1>2, <1>3, <2>1, AfterAll
<1> QED BY <1>5, <1>6, <1>7 DEF CodedTodo, a, b, n

\* Among the sets the reader faces the next one.
LEMMA SetsTodo ==
  ASSUME NEW s, Good(s), NEW c \in 0..Len(s.sets), SetsRead(s, c)
  PROVE  /\ c < Len(s.sets) => /\ todo # <<>>
                               /\ Head(todo) = <<"set", c + 1>>
                               /\ Tail(todo) = After(Times("set", Len(s.sets)), c + 1)
                                                 \o CodedTodo(s, 0)
         /\ c = Len(s.sets) => todo = CodedTodo(s, 0)
<1> DEFINE n == Len(s.sets)
           a == Times("set", n)
           b == CodedTodo(s, 0)
<1>1. n \in Nat
  BY GoodTypes
<1>2. b \in Seq(Entries)
  <2>1. 0 \in 0..Len(s.sets)
    BY <1>1
  <2> QED BY <2>1, CodedTodoIs
<1>3. todo = After(a, c) \o b
  BY DEF SetsRead
<1> HIDE DEF n
<1>4. a \in Seq(Entries) /\ Len(a) = n /\ \A i \in 1..n : a[i] = <<"set", i>>
  <2>1. "set" \in FieldNames
    BY DEF FieldNames
  <2> QED BY <1>1, <2>1, TimesTypes
<1> HIDE DEF a, b
<1>5. c \in 0..Len(a) /\ c \in 0..n /\ c \in Nat
  BY <1>1, <1>4 DEF n
<1>6. ASSUME c < n
      PROVE  /\ todo # <<>> /\ Head(todo) = <<"set", c + 1>>
             /\ Tail(todo) = After(a, c + 1) \o b
  <2>1. c < Len(a) /\ c + 1 \in 1..n
    BY <1>1, <1>4, <1>5, <1>6
  <2>2. /\ todo # <<>> /\ Head(todo) = a[c + 1]
        /\ Tail(todo) = After(a, c + 1) \o b
    BY <1>2, <1>3, <1>4, <1>5, <2>1, TakeOne
  <2> QED BY <1>4, <2>1, <2>2
<1>7. ASSUME c = n
      PROVE  todo = b
  <2>1. c = Len(a)
    BY <1>4, <1>7
  <2> QED BY <1>2, <1>3, <1>4, <2>1, AfterAll
<1> QED BY <1>6, <1>7 DEF a, b, n

\* What is written behind the initial states of so many sets.
LEMMA BehindStatesIs ==
  ASSUME NEW s, Good(s), NEW c \in 0..Len(s.sets)
  PROVE  /\ BehindStates(s, c) \in Seq(Symbols)
         /\ c < Len(s.sets) =>
              /\ BehindStates(s, c) # <<>>
              /\ Head(BehindStates(s, c)) = B(StatesOf(s, c + 1) # <<>>)
              /\ Tail(BehindStates(s, c)) = StateSymbols(StatesOf(s, c + 1)) \o BehindStates(s, c + 1)
         /\ c = Len(s.sets) => BehindStates(s, c) = Ending(s)
         /\ c = 0 => BehindStates(s, c) = FromStates(s)
<1> DEFINE n == Len(s.sets)
           words == StateWords(s)
           b == Ending(s)
           a == FlattenSeq(After(words, c))
<1>1. n \in Nat /\ words \in Seq(Seq(Symbols)) /\ Len(words) = n /\ b \in Seq(Symbols)
      /\ \A i \in 1..n :
           words[i] = <<B(StatesOf(s, i) # <<>>)>> \o StateSymbols(StatesOf(s, i))
  BY GoodTypes, WordsTypes
<1>2. BehindStates(s, c) = a \o b
  BY DEF BehindStates
<1> HIDE DEF words, b
<1>3. c \in 0..Len(words) /\ c \in 0..n /\ c \in Nat
  BY <1>1
<1>4. a \in Seq(Symbols)
  BY <1>1, <1>3, FlattenType
<1>5. a \o b \in Seq(Symbols)
  <2> HIDE DEF a
  <2> QED BY <1>1, <1>4, ConcatProperties
<1>6. c = n => a \o b = b
  <2>1. c = n => a = <<>>
    BY <1>1, FlattenNothing
  <2> QED BY <1>1, <2>1, ConcatEmptySeq
<1>7. c = 0 => a \o b = FromStates(s)
  <2>1. After(words, 0) = words
    BY <1>1, AfterNone
  <2> QED BY <2>1 DEF FromStates, words, b
<1>8. ASSUME c < n
      PROVE  /\ a \o b # <<>>
             /\ Head(a \o b) = B(StatesOf(s, c + 1) # <<>>)
             /\ Tail(a \o b) = StateSymbols(StatesOf(s, c + 1)) \o BehindStates(s, c + 1)
  <2> DEFINE coded == B(StatesOf(s, c + 1) # <<>>)
             e == <<coded>>
             f == StateSymbols(StatesOf(s, c + 1))
             g == FlattenSeq(After(words, c + 1))
  <2>1. c < Len(words) /\ c + 1 \in 1..n
    BY <1>1, <1>3, <1>8
  <2>2. a = words[c + 1] \o g /\ g \in Seq(Symbols)
    BY <1>1, <1>3, <2>1, FlattenAfter
  <2>3. words[c + 1] = e \o f
    BY <1>1, <2>1
  <2>4. f \in Seq(Symbols)
    BY <2>1, StatesTypes, StateSymbolsTypes
  <2>5. coded \in Symbols
    BY DEF B, Symbols
  <2>6. BehindStates(s, c + 1) = g \o b
    BY DEF BehindStates, words, b
  <2> HIDE DEF coded, f, g
  <2>7. e \in Seq(Symbols) /\ Len(e) = 1 /\ e[1] = coded
    BY <2>5
  <2> HIDE DEF a, e
  <2> DEFINE h == f \o (g \o b)
             i == f \o g
  <2>8. i \in Seq(Symbols)
    BY <2>2, <2>4, ConcatProperties
  <2>9. a = e \o i
    BY <2>2, <2>3, <2>4, <2>7, ConcatAssociative
  <2>10. i \o b = h
    <3>1. f \in Seq(Symbols) /\ g \in Seq(Symbols) /\ b \in Seq(Symbols)
      BY <1>1, <2>2, <2>4
    <3> QED BY <3>1, ConcatAssociative
  <2> HIDE DEF i
  <2>11. a \o b = e \o (i \o b)
    BY <1>1, <2>7, <2>8, <2>9, ConcatAssociative
  <2>12. i \o b \in Seq(Symbols)
    BY <1>1, <2>8, ConcatProperties
  <2>13. h \in Seq(Symbols) /\ a \o b = e \o h
    BY <2>10, <2>11, <2>12
  <2> HIDE DEF h
  <2>14. After(e, 0) = e
    BY <2>7, AfterNone
  <2>15. After(e, Len(e)) \o h = h
    BY <2>7, <2>13, AfterAll
  <2>16. 0 \in 0..Len(e) /\ 0 < Len(e)
    BY <2>7
  <2>17. After(e, 0) \o h # <<>> /\ Head(After(e, 0) \o h) = e[0 + 1]
         /\ Tail(After(e, 0) \o h) = After(e, 0 + 1) \o h
    BY <2>7, <2>13, <2>16, TakeOne
  <2>18. e \o h # <<>> /\ Head(e \o h) = coded /\ Tail(e \o h) = h
    BY <2>7, <2>14, <2>15, <2>17
  <2> QED BY <2>6, <2>13, <2>18 DEF h, coded, f
<1> QED BY <1>2, <1>5, <1>6, <1>7, <1>8 DEF b

\* What is written behind so many sets.
LEMMA BehindSetsIs ==
  ASSUME NEW s, Good(s), NEW c \in 0..Len(s.sets)
  PROVE  /\ BehindSets(s, c) \in Seq(Symbols)
         /\ c < Len(s.sets) =>
              BehindSets(s, c) = WrittenSet(s.sets[c + 1]) \o BehindSets(s, c + 1)
         /\ c = Len(s.sets) => BehindSets(s, c) = BehindStates(s, 0)
         /\ c = 0 => BehindSets(s, c) = FromSets(s)
<1> DEFINE n == Len(s.sets)
           words == SetWords(s)
           b == FromStates(s)
           a == FlattenSeq(After(words, c))
<1>1. n \in Nat /\ words \in Seq(Seq(Symbols)) /\ Len(words) = n
      /\ \A i \in 1..n : words[i] = WrittenSet(s.sets[i])
  BY GoodTypes, WordsTypes
<1>2. BehindSets(s, c) = a \o b /\ b \in Seq(Symbols)
  BY WrittenIs DEF BehindSets
<1>9. b = BehindStates(s, 0)
  <2>1. 0 \in 0..Len(s.sets)
    BY <1>1
  <2> QED BY <2>1, BehindStatesIs
<1> HIDE DEF words, b
<1>3. c \in 0..Len(words) /\ c \in 0..n /\ c \in Nat
  BY <1>1
<1>4. a \in Seq(Symbols)
  BY <1>1, <1>3, FlattenType
<1>5. a \o b \in Seq(Symbols)
  <2> HIDE DEF a
  <2> QED BY <1>2, <1>4, ConcatProperties
<1>6. c = n => a \o b = b
  <2>1. c = n => a = <<>>
    BY <1>1, FlattenNothing
  <2> QED BY <1>2, <2>1, ConcatEmptySeq
<1>7. c = 0 => a \o b = FromSets(s)
  <2>1. After(words, 0) = words
    BY <1>1, AfterNone
  <2> QED BY <2>1 DEF FromSets, words, b
<1>8. ASSUME c < n
      PROVE  a \o b = WrittenSet(s.sets[c + 1]) \o BehindSets(s, c + 1)
  <2> DEFINE e == words[c + 1]
             g == FlattenSeq(After(words, c + 1))
  <2>1. c < Len(words) /\ c + 1 \in 1..n
    BY <1>1, <1>3, <1>8
  <2>2. a = e \o g /\ g \in Seq(Symbols) /\ e \in Seq(Symbols)
    BY <1>1, <1>3, <2>1, FlattenAfter
  <2>3. e = WrittenSet(s.sets[c + 1])
    BY <1>1, <2>1
  <2>4. BehindSets(s, c + 1) = g \o b
    BY DEF BehindSets, words, b
  <2> HIDE DEF a, e, g
  <2>5. (e \o g) \o b = e \o (g \o b)
    BY <1>2, <2>2, ConcatAssociative
  <2> QED BY <2>2, <2>3, <2>4, <2>5
<1> QED BY <1>2, <1>5, <1>6, <1>7, <1>8, <1>9

\* In front of the initial states of a set the reader faces their flag
\* (configuration_record_writer.cpp:157).
LEMMA CodedFacing ==
  ASSUME NEW s, Good(s), NEW c, CodedShape(s, c), c < Len(s.sets)
  PROVE  Facing(<<"coded", c + 1>>, CodedTodo(s, c + 1), B(StatesOf(s, c + 1) # <<>>),
                StateSymbols(StatesOf(s, c + 1)) \o BehindStates(s, c + 1))
<1>1. c \in 0..Len(s.sets) /\ todo = CodedTodo(s, c) /\ record = BehindStates(s, c)
  BY DEF CodedShape
<1>2. todo # <<>> /\ Head(todo) = <<"coded", c + 1>> /\ Tail(todo) = CodedTodo(s, c + 1)
  BY <1>1, CodedTodoIs
<1>3. /\ record # <<>> /\ Head(record) = B(StatesOf(s, c + 1) # <<>>)
      /\ Tail(record) = StateSymbols(StatesOf(s, c + 1)) \o BehindStates(s, c + 1)
  BY <1>1, BehindStatesIs
<1> QED BY <1>2, <1>3 DEF Facing

\* As many states are to be read as there are (configuration_parser.cpp:250).
LEMMA StateTodoTypes ==
  ASSUME NEW s, Good(s), NEW c \in 1..Len(s.sets)
  PROVE  /\ StateTodo(s, c) \in Seq(Entries) /\ Len(StateTodo(s, c)) = Len(StatesOf(s, c))
         /\ Len(StatesOf(s, c)) \in Nat
         /\ \A j \in 1..Len(StatesOf(s, c)) : StateTodo(s, c)[j] = <<"state", c>>
<1> DEFINE l == Len(StatesOf(s, c))
<1>1. l \in Nat
  BY StatesTypes
<1>2. <<"state", c>> \in Entries
  <2>1. c \in Nat
    BY GoodTypes
  <2> QED BY <2>1 DEF Entries, FieldNames
<1>3. StateTodo(s, c) = [j \in 1..l |-> <<"state", c>>]
  BY DEF StateTodo
<1> HIDE DEF l
<1>4. StateTodo(s, c) \in [1..l -> Entries]
  BY <1>2, <1>3
<1>5. StateTodo(s, c) \in Seq(Entries) /\ Len(StateTodo(s, c)) = l
  BY <1>1, <1>4, FunctionSequence
<1> QED BY <1>1, <1>3, <1>5 DEF l

\* In the initial states of a set the reader faces the next difference.
LEMMA StateFacing ==
  ASSUME NEW s, Good(s), NEW c, NEW q, StateShape(s, c, q), q < Len(StatesOf(s, c))
  PROVE  Facing(<<"state", c>>, After(StateTodo(s, c), q + 1) \o CodedTodo(s, c),
                StateSymbols(StatesOf(s, c))[q + 1],
                After(StateSymbols(StatesOf(s, c)), q + 1) \o BehindStates(s, c))
<1> DEFINE l == Len(StatesOf(s, c))
           a == StateTodo(s, c)
           b == CodedTodo(s, c)
           e == StateSymbols(StatesOf(s, c))
           f == BehindStates(s, c)
<1>1. c \in 1..Len(s.sets) /\ q \in 0..l /\ q < l
      /\ todo = After(a, q) \o b /\ record = After(e, q) \o f
  BY DEF StateShape
<1>2. a \in Seq(Entries) /\ Len(a) = l /\ l \in Nat /\ \A j \in 1..l : a[j] = <<"state", c>>
  BY <1>1, StateTodoTypes
<1>3. b \in Seq(Entries) /\ f \in Seq(Symbols)
  <2>1. c \in 0..Len(s.sets)
    BY <1>1, GoodTypes
  <2> QED BY <2>1, CodedTodoIs, BehindStatesIs
<1>4. e \in Seq(Symbols) /\ Len(e) = l
  BY <1>1, StatesTypes, StateSymbolsTypes
<1> HIDE DEF l, a, b, e, f
<1>5. q \in 0..Len(a) /\ q < Len(a) /\ q \in 0..Len(e) /\ q < Len(e) /\ q + 1 \in 1..l
  BY <1>1, <1>2, <1>4
<1>6. todo # <<>> /\ Head(todo) = a[q + 1] /\ Tail(todo) = After(a, q + 1) \o b
  BY <1>1, <1>2, <1>3, <1>5, TakeOne
<1>7. record # <<>> /\ Head(record) = e[q + 1] /\ Tail(record) = After(e, q + 1) \o f
  BY <1>1, <1>3, <1>4, <1>5, TakeOne
<1>8. a[q + 1] = <<"state", c>>
  BY <1>2, <1>5
<1> QED BY <1>6, <1>7, <1>8 DEF Facing, a, b, e, f

(***************************************************************************)
(* What ends with a part begins with the next one.                         *)
(***************************************************************************)
\* Behind the last difference of the transition table comes the colorspace.
LEMMA DeltasDone ==
  ASSUME NEW s, Good(s), DeltaShape(s, Len(DefaultTransition))
  PROVE  NineShape(s, 2)
<1> DEFINE d == Len(DefaultTransition)
<1>1. CustomTransition(s) /\ FreshTables
      /\ todo = After(Times("delta", d), d) \o After(Fields, 2)
      /\ record = After(Deltas(s), d) \o FromNine(s)
      /\ parsed = Expected(s, 2, PartTransition(s, d), <<>>, <<>>)
  BY DEF DeltaShape
<1>2. d \in Nat /\ DOMAIN DefaultTransition = 1..d /\ Deltas(s) \in Seq(Symbols)
      /\ Len(Deltas(s)) = d /\ s.transition \in [1..d -> 0..(Byte - 1)]
  BY <1>1, DeltaWords
<1> HIDE DEF d
<1>3. todo = After(Fields, 2)
  <2> DEFINE a == Times("delta", d)
             b == After(Fields, 2)
  <2>1. "delta" \in FieldNames
    BY DEF FieldNames
  <2>2. a \in Seq(Entries) /\ Len(a) = d
    BY <1>2, <2>1, TimesTypes
  <2>3. b \in Seq(Entries)
    BY FieldsLeft
  <2> HIDE DEF a, b
  <2>4. After(a, Len(a)) \o b = b
    BY <2>2, <2>3, AfterAll
  <2>5. After(a, d) \o b = b
    BY <2>2, <2>4
  <2> QED BY <1>1, <2>5 DEF a, b
<1>4. record = After(Nine(s), 0) \o FromSets(s)
  <2> DEFINE a == Deltas(s)
             b == FromNine(s)
  <2>1. b \in Seq(Symbols)
    BY WrittenIs
  <2>2. a \in Seq(Symbols) /\ Len(a) = d
    BY <1>2
  <2> HIDE DEF a, b
  <2>3. After(a, Len(a)) \o b = b
    BY <2>1, <2>2, AfterAll
  <2>4. record = b
    BY <1>1, <2>2, <2>3 DEF a, b
  <2>5. After(Nine(s), 0) = Nine(s)
    BY WordsTypes, AfterNone
  <2> QED BY <2>4, <2>5 DEF b, FromNine
<1>5. PartTransition(s, d) = ReadTransition(s)
  <2>1. PartTransition(s, d) = [n \in 1..d |-> s.transition[n]]
    BY <1>2 DEF PartTransition
  <2>2. s.transition = [n \in 1..d |-> s.transition[n]]
    BY <1>2
  <2> QED BY <1>1, <2>1, <2>2 DEF ReadTransition
<1>6. 2 - 2 = 0 /\ 2 \in 2..10
  OBVIOUS
<1> QED BY <1>1, <1>3, <1>4, <1>5, <1>6 DEF NineShape

\* Until then there is a next difference.
LEMMA DeltasGoOn ==
  ASSUME NEW s, Good(s), NEW c, DeltaShape(s, c)
  PROVE  NineShape(s, 2) \/ (c < Len(DefaultTransition) /\ c \in Nat)
<1>1. c \in 0..Len(DefaultTransition) /\ Len(DefaultTransition) \in Nat
  BY DeltaWords DEF DeltaShape
<1>2. c = Len(DefaultTransition) \/ c < Len(DefaultTransition)
  BY <1>1
<1> QED BY <1>1, <1>2, DeltasDone

\* Behind the last state of a set comes the flag of the next set.
LEMMA StatesDone ==
  ASSUME NEW s, Good(s), NEW c, StateShape(s, c, Len(StatesOf(s, c)))
  PROVE  CodedShape(s, c)
<1> DEFINE l == Len(StatesOf(s, c))
           a == StateTodo(s, c)
           b == CodedTodo(s, c)
           e == StateSymbols(StatesOf(s, c))
           f == BehindStates(s, c)
<1>1. c \in 1..Len(s.sets) /\ todo = After(a, l) \o b /\ record = After(e, l) \o f
      /\ parsed = Expected(s, 11, ReadTransition(s), s.sets,
                           [PartStates(s, c) EXCEPT ![c] = UpTo(StatesOf(s, c), l)])
  BY DEF StateShape
<1>2. c \in 0..Len(s.sets) /\ c \in Nat
  BY <1>1, GoodTypes
<1>3. a \in Seq(Entries) /\ Len(a) = l /\ l \in Nat
  BY <1>1, StateTodoTypes
<1>4. b \in Seq(Entries) /\ f \in Seq(Symbols)
  BY <1>2, CodedTodoIs, BehindStatesIs
<1>5. StatesOf(s, c) \in Seq(0..(Byte - 1)) /\ e \in Seq(Symbols) /\ Len(e) = l
  BY <1>1, StatesTypes, StateSymbolsTypes
<1>6. [PartStates(s, c) EXCEPT ![c] = UpTo(StatesOf(s, c), l)] = PartStates(s, c)
  <2> DEFINE t == StatesOf(s, c)
  <2>1. UpTo(t, l) = t
    <3>1. Len(t) \in 0..Len(t)
      BY <1>3
    <3>2. t \in Seq(0..(Byte - 1))
      BY <1>5
    <3> HIDE DEF t
    <3>3. UpTo(t, Len(t)) = t
      BY <3>1, <3>2, UpToTypes
    <3> QED BY <3>3 DEF t
  <2> HIDE DEF t
  <2>2. PartStates(s, c)[c] = t
    BY <1>1, <1>2 DEF PartStates, t
  <2>3. PartStates(s, c) = [n \in 1..Len(s.sets) |-> PartStates(s, c)[n]]
    BY DEF PartStates
  <2> DEFINE g == PartStates(s, c)
  <2> HIDE DEF g
  <2>4. [g EXCEPT ![c] = t] = g
    BY <2>2, <2>3 DEF g
  <2> QED BY <2>1, <2>4 DEF g, t
<1> HIDE DEF l, a, b, e, f
<1>7. After(a, Len(a)) \o b = b
  BY <1>3, <1>4, AfterAll
<1>8. After(e, Len(e)) \o f = f
  BY <1>4, <1>5, AfterAll
<1>9. todo = b /\ record = f
  BY <1>1, <1>3, <1>5, <1>7, <1>8
<1> QED BY <1>1, <1>2, <1>6, <1>9 DEF CodedShape, b, f

\* Behind the states of the last set comes the end of the record.
LEMMA CodedDone ==
  ASSUME NEW s, Good(s), CodedShape(s, Len(s.sets))
  PROVE  EndShape(s, 11)
<1> DEFINE n == Len(s.sets)
<1>1. todo = CodedTodo(s, n) /\ record = BehindStates(s, n)
      /\ parsed = Expected(s, 11, ReadTransition(s), s.sets, PartStates(s, n))
  BY DEF CodedShape
<1>2. n \in Nat /\ n \in 0..n
  BY GoodTypes
<1>3. todo = After(Fields, 11) /\ record = Ending(s)
  BY <1>1, <1>2, CodedTodoIs, BehindStatesIs
<1>4. After(Ending(s), 0) = Ending(s)
  BY WordsTypes, AfterNone
<1>5. PartStates(s, n) = ReadStates(s)
  <2>1. \A i \in 1..n : i <= n
    BY <1>2
  <2> QED BY <2>1 DEF PartStates, ReadStates
<1>6. 11 - 11 = 0 /\ 11 \in 11..13
  OBVIOUS
<1> QED BY <1>1, <1>3, <1>4, <1>5, <1>6 DEF EndShape

\* Until then there is a next set.
LEMMA CodedGoOn ==
  ASSUME NEW s, Good(s), NEW c, CodedShape(s, c)
  PROVE  EndShape(s, 11) \/ (c < Len(s.sets) /\ c \in Nat)
<1>1. c \in 0..Len(s.sets) /\ Len(s.sets) \in Nat
  BY GoodTypes DEF CodedShape
<1>2. c = Len(s.sets) \/ c < Len(s.sets)
  BY <1>1
<1> QED BY <1>1, <1>2, CodedDone

\* Behind a set comes the next one, and behind the last the initial states.
LEMMA SetsGoOn ==
  ASSUME NEW s, Good(s), NEW c, SetShape(s, c)
  PROVE  CodedShape(s, 0) \/ (SetStage(s, c) /\ c < Len(s.sets))
<1> DEFINE n == Len(s.sets)
<1>1. c \in 0..n /\ n \in Nat /\ SetsRead(s, c) /\ FreshTables /\ record = BehindSets(s, c)
  BY GoodTypes DEF SetShape
<1>2. CASE c < n
  <2>1. c + 1 \in 1..n /\ c + 1 \in 0..n /\ c \in 0..(n - 1)
    BY <1>1, <1>2
  <2>2. record = WrittenSet(s.sets[c + 1]) \o BehindSets(s, c + 1)
    BY <1>1, <1>2, BehindSetsIs
  <2>3. BehindSets(s, c + 1) \in Seq(Symbols)
    BY <2>1, BehindSetsIs
  <2>4. Taken(s.sets[c + 1], BehindSets(s, c + 1))
    BY <2>1, <2>3, GoodTypes DEF Taken
  <2>5. TableStage(s.sets[c + 1], BehindSets(s, c + 1))
    BY <1>1, <2>2, <2>4, BeginSet
  <2> QED BY <1>1, <1>2, <2>1, <2>5 DEF SetStage
<1>3. CASE c = n
  <2>1. todo = CodedTodo(s, 0)
    BY <1>1, <1>3, SetsTodo
  <2>2. record = BehindStates(s, 0)
    BY <1>1, <1>3, BehindSetsIs
  <2>3. UpTo(s.sets, c) = s.sets
    <3> DEFINE t == s.sets
    <3>1. t \in Seq(Sets) /\ c \in 0..Len(t) /\ c = Len(t)
      BY <1>1, <1>3, GoodTypes
    <3> HIDE DEF t
    <3>2. UpTo(t, c) = t
      BY <3>1, UpToTypes
    <3> QED BY <3>2 DEF t
  <2>4. PartStates(s, 0) = BlankStates(s)
    <3>1. ASSUME NEW i \in 1..n
          PROVE  (IF i <= 0 THEN StatesOf(s, i) ELSE <<>>) = <<>>
      <4>1. ~(i <= 0)
        BY <1>1
      <4> QED BY <4>1
    <3> DEFINE g == PartStates(s, 0)
               h == BlankStates(s)
    <3>2. \A i \in 1..n : g[i] = h[i]
      BY <3>1 DEF PartStates, BlankStates
    <3>3. g = [i \in 1..n |-> g[i]] /\ h = [i \in 1..n |-> h[i]]
      BY DEF PartStates, BlankStates
    <3> HIDE DEF g, h
    <3>4. g = h
      BY <3>2, <3>3
    <3> QED BY <3>4 DEF g, h
  <2>5. parsed = Expected(s, 11, ReadTransition(s), UpTo(s.sets, c), BlankStates(s))
    BY <1>1 DEF SetsRead
  <2>6. 0 \in 0..n
    BY <1>1
  <2>7. parsed = Expected(s, 11, ReadTransition(s), s.sets, PartStates(s, 0))
    BY <2>3, <2>4, <2>5
  <2>8. CodedShape(s, 0)
    BY <2>1, <2>2, <2>6, <2>7, Zenon DEF CodedShape
  <2> QED BY <2>8
<1>4. c < n \/ c = n
  BY <1>1
<1> QED BY <1>2, <1>3, <1>4

\* How far the reader of an intact record has come.
Stage(s) ==
  \/ \E j : HeadShape(s, j)
  \/ \E c : DeltaShape(s, c) /\ c < Len(DefaultTransition)
  \/ \E j : NineShape(s, j)
  \/ \E c : SetStage(s, c)
  \/ \E c : CodedShape(s, c) /\ c < Len(s.sets)
  \/ \E c, q : StateShape(s, c, q) /\ q < Len(StatesOf(s, c))
  \/ \E j : EndShape(s, j)

\* Also at the end of a part.
AnyShape(s) ==
  \/ \E j : HeadShape(s, j) \/ NineShape(s, j) \/ EndShape(s, j)
  \/ \E c : DeltaShape(s, c) \/ SetShape(s, c) \/ SetStage(s, c) \/ CodedShape(s, c)
  \/ \E c, q : StateShape(s, c, q)

StagesReached == \A s : Good(s) /\ AnyShape(s) => Stage(s)

\* The end of a part is the beginning of the next one.
LEMMA StageReached == StagesReached
<1> SUFFICES ASSUME NEW s, Good(s), AnyShape(s)
             PROVE  Stage(s)
  BY DEF StagesReached
<1>1. ASSUME NEW j, HeadShape(s, j) \/ NineShape(s, j) \/ EndShape(s, j)
      PROVE  Stage(s)
  BY <1>1 DEF Stage
<1>2. ASSUME NEW c, DeltaShape(s, c)
      PROVE  Stage(s)
  BY <1>2, DeltasGoOn DEF Stage
<1>3. ASSUME NEW c, CodedShape(s, c)
      PROVE  Stage(s)
  BY <1>3, CodedGoOn DEF Stage
<1>4. ASSUME NEW c, SetStage(s, c)
      PROVE  Stage(s)
  BY <1>4 DEF Stage
<1>5. ASSUME NEW c, SetShape(s, c)
      PROVE  Stage(s)
  BY <1>3, <1>4, <1>5, SetsGoOn
<1>6. ASSUME NEW c, NEW q, StateShape(s, c, q)
      PROVE  Stage(s)
  <2> DEFINE l == Len(StatesOf(s, c))
  <2>1. l \in Nat /\ q \in 0..l
    BY <1>6, StateTodoTypes DEF StateShape
  <2>2. q < l \/ q = l
    BY <2>1
  <2>3. CASE q < l
    BY <1>6, <2>3 DEF Stage
  <2>4. CASE q = l
    <3>1. CodedShape(s, c)
      BY <1>6, <2>4, StatesDone
    <3> QED BY <1>3, <3>1
  <2> QED BY <2>2, <2>3, <2>4
<1> QED BY <1>1, <1>2, <1>3, <1>4, <1>5, <1>6 DEF AnyShape

\* The same of the next state.
LEMMA StageReachedNext == StagesReached'
BY StageReached, PTL

\* A step that ends in one of the shapes ends in one that goes on.
LEMMA NextStage ==
  ASSUME NEW s, Good(s), AnyShape(s)'
  PROVE  Stage(s)'
BY StageReachedNext DEF StagesReached
(***************************************************************************)
(* A field that is read: its number, and what becomes of the parameters.   *)
(***************************************************************************)
Bit(flag) == IF flag THEN 1 ELSE 0

\* The number that the field behind so many others was written as.
Value(s, j) ==
  <<4, Coder(s), s.colorspace, s.bits, Bit(s.chroma), s.log2_h, s.log2_v, Bit(s.extra),
    s.h - 1, s.v - 1, Len(s.sets), Bit(s.ec), Bit(s.intra)>>[j + 1]

\* The symbol in front of the transition table holds the number of its field.
LEMMA HeadValue ==
  ASSUME NEW s, NEW j, HeadShape(s, j)
  PROVE  Three(s)[j + 2][3] = Value(s, j)
<1>1. j = 0 \/ j = 1
  BY DEF HeadShape
<1>2. Three(s)[2] = U(4) /\ Three(s)[3] = U(Coder(s))
  BY DEF Three
<1>3. U(4)[3] = 4 /\ U(Coder(s))[3] = Coder(s)
  BY DEF U
<1>4. CASE j = 0
  BY <1>2, <1>3, <1>4 DEF Value
<1>5. CASE j = 1
  BY <1>2, <1>3, <1>5 DEF Value
<1> QED BY <1>1, <1>4, <1>5

\* So does the one behind it,
LEMMA NineValue ==
  ASSUME NEW s, NEW j, NineShape(s, j)
  PROVE  Nine(s)[j - 1][3] = Value(s, j)
<1>1. j \in {2, 3, 4, 5, 6, 7, 8, 9, 10}
  BY DEF NineShape
<1> QED BY <1>1 DEF Nine, Value, U, B, Bit

\* and the one at the end of the record.
LEMMA EndValue ==
  ASSUME NEW s, NEW j, EndShape(s, j), j < 13
  PROVE  Ending(s)[j - 10][3] = Value(s, j)
<1>1. j \in {11, 12}
  BY DEF EndShape
<1> QED BY <1>1 DEF Ending, Value, U, Bit

\* A number that is the parameter of the writer makes it known.
LEMMA NameRead ==
  ASSUME NEW s, NEW j \in 0..12, NEW transition, NEW sets, NEW states,
         parsed = Expected(s, j, transition, sets, states),
         NEW name, name = Given[j + 1], name \in Names, NEW number, number = s[name]
  PROVE  [parsed EXCEPT ![name] = number] = Expected(s, j + 1, transition, sets, states)
<1> DEFINE next == Expected(s, j + 1, transition, sets, states)
<1>1. Given[j + 1] \in Names
  OBVIOUS
<1>2. [parsed EXCEPT ![Given[j + 1]] = s[Given[j + 1]]] = next
  BY <1>1, NextRead
<1> HIDE DEF next
<1> QED BY <1>2 DEF next

\* The fields whose numbers are kept as they are.
Kept == {0, 2, 5, 6}

\* The numbers kept as they are pass their checks and are the writer's
\* (configuration_parser.cpp:71, :117, :148 and :157).
LEMMA KeptRead ==
  ASSUME NEW s, Good(s), NEW j \in Kept, NEW transition, NEW sets, NEW states,
         parsed = Expected(s, j, transition, sets, states)
  PROVE  /\ Acceptable(Fields[j + 1][1], Value(s, j))
         /\ Parsed(Fields[j + 1][1], Value(s, j)) = Expected(s, j + 1, transition, sets, states)
<1> DEFINE field == Fields[j + 1][1]
           number == Value(s, j)
<1>1. j \in {0, 2, 5, 6} /\ j \in 0..12
  BY DEF Kept
<1>2. field = Given[j + 1] /\ field \in {"micro_version", "colorspace", "log2_h", "log2_v"}
  BY <1>1 DEF Fields, Given
<1>3. number = s[field]
  <2>1. CASE j = 0
    <3>1. field = "micro_version" /\ number = 4
      BY <2>1 DEF Fields, Value
    <3> HIDE DEF field, number
    <3> QED BY <3>1, GoodTypes
  <2>2. CASE j = 2
    BY <2>2 DEF Fields, Value
  <2>3. CASE j = 5
    BY <2>3 DEF Fields, Value
  <2>4. CASE j = 6
    BY <2>4 DEF Fields, Value
  <2> QED BY <1>1, <2>1, <2>2, <2>3, <2>4
<1>4. Given[j + 1] \in Names
  BY <1>2 DEF Names
<1>5. [parsed EXCEPT ![field] = number] = Expected(s, j + 1, transition, sets, states)
  BY <1>1, <1>2, <1>3, <1>4, NextRead
<1>6. Acceptable(field, number)
  <2>1. MaxInt \in Nat /\ MaxInt >= 4 /\ Byte \in Nat /\ Byte >= 2
    BY RecordAssumption
  <2>2. /\ s.micro_version = 4 /\ s.colorspace \in {0, 1}
        /\ s.log2_h \in {0, 1} /\ s.log2_v \in {0, 1}
    BY GoodTypes
  <2> QED BY <1>2, <1>3, <2>1, <2>2 DEF Acceptable
<1> HIDE DEF field, number
<1>7. Parsed(field, number) = [parsed EXCEPT ![field] = number]
  BY <1>2 DEF Parsed, Flags
<1> QED BY <1>5, <1>6, <1>7 DEF field, number

\* Those that say yes or no.
Booleans == {4, 7, 11, 12}

\* So are the flags (configuration_parser.cpp:142, :166, :275 and :285).
LEMMA BooleanRead ==
  ASSUME NEW s, Good(s), NEW j \in Booleans, NEW transition, NEW sets, NEW states,
         parsed = Expected(s, j, transition, sets, states)
  PROVE  /\ Acceptable(Fields[j + 1][1], Value(s, j))
         /\ Parsed(Fields[j + 1][1], Value(s, j)) = Expected(s, j + 1, transition, sets, states)
<1> DEFINE field == Fields[j + 1][1]
           number == Value(s, j)
           flag == s[field]
<1>1. j \in {4, 7, 11, 12} /\ j \in 0..12
  BY DEF Booleans
<1>2. field = Given[j + 1] /\ field \in {"chroma", "extra", "ec", "intra"}
  BY <1>1 DEF Fields, Given
<1>3. number = Bit(s[field])
  BY <1>1 DEF Fields, Value
<1>4. Given[j + 1] \in Names
  BY <1>2 DEF Names
<1>5. s.chroma \in BOOLEAN /\ s.extra \in BOOLEAN /\ s.ec \in BOOLEAN /\ s.intra \in BOOLEAN
  BY GoodTypes
<1>6. flag \in BOOLEAN
  BY <1>2, <1>5
<1>7. [parsed EXCEPT ![field] = flag] = Expected(s, j + 1, transition, sets, states)
  <2> DEFINE next == Expected(s, j + 1, transition, sets, states)
  <2>1. field \in Names
    BY <1>2 DEF Names
  <2> HIDE DEF field, flag
  <2>2. flag = s[field]
    BY DEF flag
  <2> QED BY <1>1, <1>2, <2>1, <2>2, NameRead
<1> HIDE DEF field, number
<1>8. (number = 1) = flag
  BY <1>3, <1>6 DEF Bit
<1>9. number <= 1
  BY <1>3 DEF Bit
<1>10. Acceptable(field, number)
  BY <1>2, <1>9 DEF Acceptable
<1>11. Parsed(field, number) = [parsed EXCEPT ![field] = number = 1]
  BY <1>2 DEF Parsed, Flags
<1>12. Parsed(field, number) = [parsed EXCEPT ![field] = flag]
  BY <1>8, <1>11
<1> QED BY <1>7, <1>10, <1>12 DEF field, number

\* The rest: the coder, the bits, and the numbers of slices.
LEMMA OtherRead ==
  ASSUME NEW s, Good(s), NEW j \in {1, 3, 8, 9}, NEW transition, NEW sets, NEW states,
         parsed = Expected(s, j, transition, sets, states)
  PROVE  /\ Acceptable(Fields[j + 1][1], Value(s, j))
         /\ Parsed(Fields[j + 1][1], Value(s, j)) = Expected(s, j + 1, transition, sets, states)
<1> DEFINE field == Fields[j + 1][1]
           number == Value(s, j)
           name == Given[j + 1]
           next == Expected(s, j + 1, transition, sets, states)
<1>1. name \in Names /\ j \in 0..12
  BY DEF Given, Names
<1>2. [parsed EXCEPT ![name] = s[name]] = next
  BY <1>1, NextRead
<1> HIDE DEF next
<1>3. CASE j = 1
  <2>1. field = "coder" /\ name = "entropy" /\ number = Coder(s)
    BY <1>3 DEF Fields, Given, Value
  <2>2. s.entropy \in {"range", "golomb_rice"}
    BY GoodTypes
  <2>3. number \in 0..2 /\ s.entropy = IF number = 0 THEN "golomb_rice" ELSE "range"
    BY <2>1, <2>2 DEF Coder, CustomTransition
  <2> HIDE DEF field, number, name
  <2>4. Parsed(field, number) = [parsed EXCEPT !.entropy = IF number = 0 THEN "golomb_rice" ELSE "range"]
    BY <2>1 DEF Parsed, Flags
  <2>5. Acceptable(field, number)
    BY <2>1, <2>3 DEF Acceptable
  <2> QED BY <1>2, <2>1, <2>3, <2>4, <2>5 DEF field, number, next
<1>4. CASE j = 3
  <2>1. field = "bits" /\ name = "bits" /\ number = s.bits
    BY <1>4 DEF Fields, Given, Value
  <2>2. s.bits \in Nat /\ s.bits >= 1 /\ s.bits <= 16
    BY GoodTypes
  <2> HIDE DEF field, number, name
  <2>3. Parsed(field, number) = [parsed EXCEPT !.bits = IF number = 0 THEN 8 ELSE number]
    BY <2>1 DEF Parsed, Flags
  <2>4. (IF number = 0 THEN 8 ELSE number) = s.bits
    BY <2>1, <2>2
  <2>5. Acceptable(field, number)
    BY <2>1, <2>2 DEF Acceptable
  <2> QED BY <1>2, <2>1, <2>3, <2>4, <2>5 DEF field, number, next
<1>5. CASE j \in {8, 9}
  <2>1. field \in {"h", "v"} /\ name = field /\ number = s[field] - 1
    BY <1>5 DEF Fields, Given, Value
  <2>2. s.h \in Nat /\ s.h >= 1 /\ s.h < Word /\ s.v \in Nat /\ s.v >= 1 /\ s.v < Word
        /\ Word \in Nat
    BY GoodTypes, RecordAssumption
  <2> HIDE DEF field, number, name
  <2>3. Parsed(field, number) = [parsed EXCEPT ![field] = number + 1]
    BY <2>1 DEF Parsed, Flags
  <2>4. number + 1 = s[field] /\ number < Word - 1
    BY <2>1, <2>2
  <2>5. Acceptable(field, number)
    BY <2>1, <2>4 DEF Acceptable
  <2> QED BY <1>2, <2>1, <2>3, <2>4, <2>5 DEF field, number, next
<1> QED BY <1>3, <1>4, <1>5

\* The number of sets passes its check; each gets an empty set of states
\* (configuration_parser.cpp:208 and :242).
LEMMA CountRead ==
  ASSUME NEW s, Good(s), NEW transition, NEW sets, NEW states,
         parsed = Expected(s, 10, transition, sets, states)
  PROVE  /\ Acceptable("set_count", Len(s.sets))
         /\ Parsed("set_count", Len(s.sets)) = Expected(s, 11, transition, sets, BlankStates(s))
<1> DEFINE n == Len(s.sets)
           read == Expected(s, 11, transition, sets, states)
<1>1. n \in Nat /\ n >= 1 /\ n <= 8
  BY GoodTypes
<1>2. Given[10 + 1] \notin Names /\ 10 \in 0..12
  BY DEF Given, Names
<1>3. parsed = read
  BY <1>2, NextRead
<1>4. [read EXCEPT !.states = BlankStates(s)] = Expected(s, 11, transition, sets, BlankStates(s))
  BY OthersRead
<1> HIDE DEF n, read
<1>5. Parsed("set_count", n) = [parsed EXCEPT !.states = [i \in 1..n |-> <<>>]]
  BY DEF Parsed, Flags
<1>6. BlankStates(s) = [i \in 1..n |-> <<>>]
  BY DEF BlankStates, n
<1>7. Acceptable("set_count", n)
  BY <1>1 DEF Acceptable
<1> QED BY <1>3, <1>4, <1>5, <1>6, <1>7 DEF n

\* The colorspace is not checked before the last of what it depends on is read.
LEMMA RgbValid ==
  ASSUME NEW s, Good(s), NEW transition, NEW sets, NEW states
  PROVE  ~InvalidRgb(Expected(s, 8, transition, sets, states))
<1> DEFINE e == Expected(s, 8, transition, sets, states)
<1>1. /\ Given[2 + 1] = "colorspace" /\ Given[4 + 1] = "chroma" /\ Given[5 + 1] = "log2_h"
      /\ Given[6 + 1] = "log2_v"
  BY DEF Given
<1>2. "colorspace" \in Known(8) /\ "chroma" \in Known(8) /\ "log2_h" \in Known(8)
      /\ "log2_v" \in Known(8)
  BY <1>1 DEF Known
<1>3. \A x \in {"colorspace", "chroma", "log2_h", "log2_v"} : e[x] = s[x]
  BY <1>2 DEF Expected, Names
<1>4. ~InvalidRgb(s)
  BY GoodTypes
<1> HIDE DEF e
<1> QED BY <1>3, <1>4 DEF InvalidRgb, e
(***************************************************************************)
(* A field is read the way it was written.                                 *)
(***************************************************************************)
\* A plain field has no index.
LEMMA FieldsNamed ==
  \A j \in 0..12 : Fields[j + 1] = <<Fields[j + 1][1], 0>>
                   /\ Fields[j + 1][1] \in Numbers \cup Flags
<1> SUFFICES ASSUME NEW j \in 0..12
             PROVE  Fields[j + 1] = <<Fields[j + 1][1], 0>>
                    /\ Fields[j + 1][1] \in Numbers \cup Flags
  OBVIOUS
<1>1. j \in {0, 1, 2, 3, 4, 5, 6, 7, 8, 9, 10, 11, 12}
  OBVIOUS
<1> QED BY <1>1 DEF Fields, Numbers, Flags

\* Only these shapes have one of them in front.
LEMMA FieldAhead ==
  ASSUME NEW s, Good(s), Stage(s), NEW field \in Numbers \cup Flags, Parsing({field})
  PROVE  \E j \in 0..12 : /\ field = Fields[j + 1][1]
                          /\ HeadShape(s, j) \/ NineShape(s, j) \/ EndShape(s, j)
<1>1. todo # <<>> /\ Head(todo)[1] = field
  BY DEF Parsing
<1>2. field \notin {"delta", "set", "coded", "state"}
  BY DEF Numbers, Flags
<1>3. ASSUME NEW j, HeadShape(s, j)
      PROVE  j \in 0..12 /\ field = Fields[j + 1][1]
  <2>1. Head(todo) = Fields[j + 1]
    BY <1>3, HeadFacing DEF Facing
  <2>2. j \in 0..12
    BY <1>3 DEF HeadShape
  <2> QED BY <1>1, <2>1, <2>2
<1>4. ASSUME NEW j, NineShape(s, j)
      PROVE  j \in 0..12 /\ field = Fields[j + 1][1]
  <2>1. Head(todo) = Fields[j + 1]
    BY <1>4, NineFacing DEF Facing
  <2>2. j \in 0..12
    BY <1>4 DEF NineShape
  <2> QED BY <1>1, <2>1, <2>2
<1>5. ASSUME NEW j, EndShape(s, j)
      PROVE  j \in 0..12 /\ field = Fields[j + 1][1]
  <2>1. j # 13
    BY <1>1, <1>5, EndFacing
  <2>2. j \in 0..12 /\ j < 13
    BY <1>5, <2>1 DEF EndShape
  <2>3. Head(todo) = Fields[j + 1]
    BY <1>5, <2>2, EndFacing DEF Facing
  <2> QED BY <1>1, <2>2, <2>3
<1>6. ASSUME NEW c, DeltaShape(s, c), c < Len(DefaultTransition)
      PROVE  FALSE
  <2>1. Head(todo) = <<"delta", c + 1>>
    BY <1>6, DeltaFacing DEF Facing
  <2> QED BY <1>1, <1>2, <2>1
<1>7. ASSUME NEW c, SetStage(s, c)
      PROVE  FALSE
  <2>1. SetsRead(s, c) /\ c \in 0..Len(s.sets) /\ c < Len(s.sets)
    BY <1>7, GoodTypes DEF SetStage
  <2>2. Head(todo) = <<"set", c + 1>>
    BY <2>1, SetsTodo
  <2> QED BY <1>1, <1>2, <2>2
<1>8. ASSUME NEW c, CodedShape(s, c), c < Len(s.sets)
      PROVE  FALSE
  <2>1. Head(todo) = <<"coded", c + 1>>
    BY <1>8, CodedFacing DEF Facing
  <2> QED BY <1>1, <1>2, <2>1
<1>9. ASSUME NEW c, NEW q, StateShape(s, c, q), q < Len(StatesOf(s, c))
      PROVE  FALSE
  <2>1. Head(todo) = <<"state", c>>
    BY <1>9, StateFacing DEF Facing
  <2> QED BY <1>1, <1>2, <2>1
<1> QED BY <1>3, <1>4, <1>5, <1>6, <1>7, <1>8, <1>9 DEF Stage

\* What reading a field does that was written so.
LEMMA FieldTaken ==
  ASSUME NEW s, Good(s), NEW j \in 0..12, NEW transition, NEW sets, NEW states,
         NEW symbol, NEW behind, intact,
         Facing(Fields[j + 1], After(Fields, j + 1), symbol, behind), symbol[3] = Value(s, j),
         parsed = Expected(s, j, transition, sets, states),
         NEW kind, NEW number \in Readable(kind, 0), ReadField(Fields[j + 1][1], number)
  PROVE  /\ number = Value(s, j)
         /\ parsed' = (IF j = 10 THEN Expected(s, 11, transition, sets, BlankStates(s))
                       ELSE Expected(s, j + 1, transition, sets, states))
         /\ todo' = FieldsBehind(Fields[j + 1][1], number) \o After(Fields, j + 1)
         /\ record' = behind
         /\ phase' = phase /\ UNCHANGED tablesVars
<1> DEFINE field == Fields[j + 1][1]
           next == IF j = 10 THEN Expected(s, 11, transition, sets, BlankStates(s))
                   ELSE Expected(s, j + 1, transition, sets, states)
<1>1. number = Value(s, j)
  BY DEF Readable, Facing
<1>2. Acceptable(field, number) /\ Parsed(field, number) = next
  <2>1. CASE j \in Kept
    <3>1. j # 10
      BY <2>1 DEF Kept
    <3> QED BY <1>1, <2>1, <3>1, KeptRead
  <2>2. CASE j \in Booleans
    <3>1. j # 10
      BY <2>2 DEF Booleans
    <3> QED BY <1>1, <2>2, <3>1, BooleanRead
  <2>3. CASE j \in {1, 3, 8, 9}
    <3>1. j # 10
      BY <2>3
    <3> QED BY <1>1, <2>3, <3>1, OtherRead
  <2>4. CASE j = 10
    <3>1. field = "set_count" /\ number = Len(s.sets)
      BY <1>1, <2>4 DEF Fields, Value
    <3> HIDE DEF field
    <3> QED BY <2>4, <3>1, CountRead
  <2>5. j \in {0, 1, 2, 3, 4, 5, 6, 7, 8, 9, 10, 11, 12}
    OBVIOUS
  <2> QED BY <2>1, <2>2, <2>3, <2>4, <2>5 DEF Kept, Booleans
<1>3. field = "extra" => ~InvalidRgb(Parsed(field, number))
  <2>1. SUFFICES ASSUME field = "extra"
                 PROVE  ~InvalidRgb(next)
    BY <1>2
  <2>2. j \in {0, 1, 2, 3, 4, 5, 6, 7, 8, 9, 10, 11, 12}
    OBVIOUS
  <2>3. j = 7
    BY <2>1, <2>2 DEF Fields
  <2>4. next = Expected(s, 8, transition, sets, states)
    BY <2>3
  <2> HIDE DEF next
  <2> QED BY <2>4, RgbValid
<1> HIDE DEF field, next
<1>4. /\ parsed' = Parsed(field, number)
      /\ todo' = FieldsBehind(field, number) \o Tail(todo)
      /\ Consume /\ phase' = phase
  BY <1>2, <1>3 DEF ReadField, field
<1>5. UNCHANGED tablesVars
  BY DEF ReadField
<1>6. record' = behind /\ Tail(todo) = After(Fields, j + 1)
  BY <1>4 DEF Consume, Facing
<1> QED BY <1>1, <1>2, <1>4, <1>5, <1>6 DEF field, next
\* Only the coder and the number of sets bring fields with them.
LEMMA NothingBehind ==
  ASSUME NEW j \in 0..12, NEW s, j \notin {1, 10}
  PROVE  FieldsBehind(Fields[j + 1][1], Value(s, j)) = <<>>
<1> DEFINE field == Fields[j + 1][1]
<1>1. j \in {0, 2, 3, 4, 5, 6, 7, 8, 9, 11, 12}
  OBVIOUS
<1>2. field \notin {"coder", "set_count"}
  BY <1>1 DEF Fields
<1> HIDE DEF field
<1> QED BY <1>2 DEF FieldsBehind, field

\* Fields with nothing in front of them.
LEMMA NothingInFront ==
  ASSUME NEW j \in 0..13
  PROVE  <<>> \o After(Fields, j) = After(Fields, j)
<1> DEFINE a == After(Fields, j)
<1>1. a \in Seq(Entries)
  BY FieldsLeft
<1> HIDE DEF a
<1>2. <<>> \o a = a
  BY <1>1, ConcatEmptySeq
<1> QED BY <1>2 DEF a

\* Reading the micro version and the coder, which brings the transition table
\* (configuration_parser.cpp:67 and :81).
LEMMA HeadRead ==
  ASSUME NEW s, Good(s), NEW j \in 0..12, HeadShape(s, j), intact,
         NEW kind, NEW number \in Readable(kind, 0), ReadField(Fields[j + 1][1], number)
  PROVE  phase' = phase /\ AnyShape(s)'
<1> DEFINE a == Three(s)
           b == Deltas(s) \o FromNine(s)
           rest == After(a, j + 2) \o b
<1>1. Facing(Fields[j + 1], After(Fields, j + 1), a[j + 2], rest) /\ a[j + 2][3] = Value(s, j)
  BY HeadFacing, HeadValue
<1>2. parsed = Expected(s, j, DefaultTransition, <<>>, <<>>) /\ FreshTables /\ j \in 0..1
  BY DEF HeadShape
<1>3. a \in Seq(Symbols) /\ Len(a) = 3 /\ b \in Seq(Symbols)
  BY WordsTypes, WrittenIs
<1> HIDE DEF a, b, rest
<1>4. /\ number = Value(s, j) /\ j # 10
      /\ parsed' = Expected(s, j + 1, DefaultTransition, <<>>, <<>>)
      /\ todo' = FieldsBehind(Fields[j + 1][1], number) \o After(Fields, j + 1)
      /\ record' = rest /\ phase' = phase /\ UNCHANGED tablesVars
  <2>1. j # 10
    BY <1>2
  <2> QED BY ZenonT(30), <1>1, <1>2, <2>1, FieldTaken
<1>5. FreshTables'
  BY <1>2, <1>4 DEF FreshTables, tablesVars, ZeroTables
<1>6. CASE j = 0
  <2>1. todo' = After(Fields, 1)
    <3>1. FieldsBehind(Fields[j + 1][1], number) = <<>>
      BY <1>4, <1>6, NothingBehind
    <3>2. j + 1 = 1 /\ 1 \in 0..13
      BY <1>6
    <3> QED BY <1>4, <3>1, <3>2, NothingInFront
  <2>2. record' = After(Three(s), 1 + 1) \o (Deltas(s) \o FromNine(s))
    BY <1>4, <1>6 DEF rest, a, b
  <2>3. parsed' = Expected(s, 1, DefaultTransition, <<>>, <<>>)
    BY <1>4, <1>6
  <2>4. HeadShape(s, 1)'
    BY <1>5, <2>1, <2>2, <2>3 DEF HeadShape
  <2> QED BY <1>4, <2>4 DEF AnyShape
<1>7. CASE j = 1
  <2>1. Fields[j + 1][1] = "coder" /\ number = Coder(s)
    BY <1>4, <1>7 DEF Fields, Value
  <2>2. record' = b
    <3>1. j + 2 = Len(a)
      BY <1>3, <1>7
    <3> QED BY <1>3, <1>4, <3>1, AfterAll DEF rest
  <2>3. parsed' = Expected(s, 2, DefaultTransition, <<>>, <<>>)
    BY <1>4, <1>7
  <2>4. todo' = FieldsBehind("coder", number) \o After(Fields, 2)
    BY <1>4, <1>7, <2>1
  <2>5. CASE CustomTransition(s)
    <3> DEFINE d == Len(DefaultTransition)
               words == Times("delta", d)
    <3>1. number = 2
      BY <2>1, <2>5 DEF Coder, CustomTransition
    <3>2. FieldsBehind("coder", number) = words
      BY <3>1 DEF FieldsBehind
    <3>3. d \in Nat /\ Deltas(s) \in Seq(Symbols) /\ DOMAIN DefaultTransition = 1..d
      BY <2>5, DeltaWords
    <3>4. words \in Seq(Entries)
      <4>1. "delta" \in FieldNames
        BY DEF FieldNames
      <4> QED BY <3>3, <4>1, TimesTypes
    <3>5. After(words, 0) = words
      BY <3>4, AfterNone
    <3>6. After(Deltas(s), 0) = Deltas(s)
      BY <3>3, AfterNone
    <3>7. PartTransition(s, 0) = DefaultTransition
      <4>1. \A n \in 1..d : ~(n <= 0)
        BY <3>3
      <4>2. DefaultTransition = [n \in 1..d |-> DefaultTransition[n]]
        BY <3>3, RecordAssumption
      <4>3. PartTransition(s, 0) = [n \in 1..d |-> DefaultTransition[n]]
        BY <3>3, <4>1 DEF PartTransition
      <4> QED BY <4>2, <4>3
    <3>8. todo' = After(Times("delta", Len(DefaultTransition)), 0) \o After(Fields, 2)
      BY <2>4, <3>2, <3>5
    <3>9. record' = After(Deltas(s), 0) \o FromNine(s)
      BY <2>2, <3>6 DEF b
    <3>10. parsed' = Expected(s, 2, PartTransition(s, 0), <<>>, <<>>)
      BY <2>3, <3>7
    <3>11. 0 \in 0..Len(DefaultTransition)
      BY <3>3
    <3> HIDE DEF d, words
    <3>12. DeltaShape(s, 0)'
      BY <1>5, <2>5, <3>8, <3>9, <3>10, <3>11 DEF DeltaShape
    <3> QED BY <1>4, <3>12 DEF AnyShape
  <2>6. CASE ~CustomTransition(s)
    <3>1. number # 2
      BY <2>1, <2>6 DEF Coder
    <3>2. FieldsBehind("coder", number) = <<>>
      BY <3>1 DEF FieldsBehind
    <3>3. todo' = After(Fields, 2)
      <4>1. 2 \in 0..13
        OBVIOUS
      <4> QED BY <2>4, <3>2, <4>1, NothingInFront
    <3>4. record' = After(Nine(s), 2 - 2) \o FromSets(s)
      <4>1. FromNine(s) \in Seq(Symbols) /\ Nine(s) \in Seq(Symbols)
        BY WrittenIs, WordsTypes
      <4>2. b = <<>> \o FromNine(s)
        BY <2>6 DEF b, Deltas
      <4>3. <<>> \o FromNine(s) = FromNine(s)
        BY <4>1, ConcatEmptySeq
      <4>4. After(Nine(s), 0) = Nine(s)
        BY <4>1, AfterNone
      <4>5. 2 - 2 = 0
        OBVIOUS
      <4> QED BY <2>2, <4>2, <4>3, <4>4, <4>5 DEF FromNine
    <3>5. parsed' = Expected(s, 2, ReadTransition(s), <<>>, <<>>)
      BY <2>3, <2>6 DEF ReadTransition
    <3>6. NineShape(s, 2)'
      BY <1>5, <3>3, <3>4, <3>5 DEF NineShape
    <3> QED BY <1>4, <3>6 DEF AnyShape
  <2> QED BY <2>5, <2>6
<1>8. j = 0 \/ j = 1
  BY <1>2
<1> QED BY <1>6, <1>7, <1>8
\* Reading from the colorspace to the number of sets, which brings the sets
\* (configuration_parser.cpp:109 to :233).
LEMMA NineRead ==
  ASSUME NEW s, Good(s), NEW j \in 0..12, NineShape(s, j), intact,
         NEW kind, NEW number \in Readable(kind, 0), ReadField(Fields[j + 1][1], number)
  PROVE  phase' = phase /\ AnyShape(s)'
<1> DEFINE a == Nine(s)
           b == FromSets(s)
           rest == After(a, j - 1) \o b
           transition == ReadTransition(s)
<1>1. Facing(Fields[j + 1], After(Fields, j + 1), a[j - 1], rest) /\ a[j - 1][3] = Value(s, j)
  BY NineFacing, NineValue
<1>2. parsed = Expected(s, j, transition, <<>>, <<>>) /\ FreshTables /\ j \in 2..10
  BY DEF NineShape
<1>3. a \in Seq(Symbols) /\ Len(a) = 9 /\ b \in Seq(Symbols)
  BY WordsTypes, WrittenIs
<1> HIDE DEF a, b, rest, transition
<1>4. /\ number = Value(s, j)
      /\ parsed' = (IF j = 10 THEN Expected(s, 11, transition, <<>>, BlankStates(s))
                    ELSE Expected(s, j + 1, transition, <<>>, <<>>))
      /\ todo' = FieldsBehind(Fields[j + 1][1], number) \o After(Fields, j + 1)
      /\ record' = rest /\ phase' = phase /\ UNCHANGED tablesVars
  <2>1. CASE j = 10
    BY <1>1, <1>2, <2>1, FieldTaken
  <2>2. CASE j # 10
    BY <1>1, <1>2, <2>2, FieldTaken
  <2> QED BY <2>1, <2>2
<1>5. FreshTables'
  BY <1>2, <1>4 DEF FreshTables, tablesVars, ZeroTables
<1>6. CASE j # 10
  <2>1. j + 1 \in 2..10 /\ j + 1 \in 0..13 /\ j \notin {1, 10} /\ (j + 1) - 2 = j - 1
    BY <1>2, <1>6
  <2>2. todo' = After(Fields, j + 1)
    <3>1. FieldsBehind(Fields[j + 1][1], number) = <<>>
      BY <1>4, <2>1, NothingBehind
    <3> QED BY <1>4, <2>1, <3>1, NothingInFront
  <2>3. record' = After(Nine(s), (j + 1) - 2) \o FromSets(s)
    BY <1>4, <2>1 DEF rest, a, b
  <2>4. parsed' = Expected(s, j + 1, ReadTransition(s), <<>>, <<>>)
    BY <1>4, <1>6 DEF transition
  <2>5. NineShape(s, j + 1)'
    BY <1>5, <2>1, <2>2, <2>3, <2>4 DEF NineShape
  <2> QED BY <1>4, <2>5 DEF AnyShape
<1>7. CASE j = 10
  <2> DEFINE n == Len(s.sets)
             c == Times("set", n)
             d == Times("coded", n)
             e == After(Fields, 11)
  <2>1. Fields[j + 1][1] = "set_count" /\ number = n
    BY <1>4, <1>7 DEF Fields, Value
  <2>2. n \in Nat
    BY GoodTypes
  <2>3. e \in Seq(Entries)
    BY FieldsLeft
  <2> HIDE DEF n
  <2>4. c \in Seq(Entries) /\ d \in Seq(Entries)
    <3>1. "set" \in FieldNames /\ "coded" \in FieldNames
      BY DEF FieldNames
    <3> QED BY <2>2, <3>1, TimesTypes
  <2>5. FieldsBehind("set_count", number) = c \o d
    BY <2>1 DEF FieldsBehind
  <2>6. todo' = (c \o d) \o e
    <3>1. j + 1 = 11
      BY <1>7
    <3>2. todo' = FieldsBehind("set_count", number) \o After(Fields, 11)
      BY <1>4, <2>1, <3>1, Zenon
    <3> HIDE DEF c, d
    <3> QED BY <2>5, <3>2
  <2> HIDE DEF c, d, e
  <2>7. (c \o d) \o e = c \o (d \o e)
    BY <2>3, <2>4, ConcatAssociative
  <2>8. After(c, 0) = c /\ After(d, 0) = d
    BY <2>4, AfterNone
  <2>9. todo' = After(c, 0) \o (After(d, 0) \o e)
    BY <2>6, <2>7, <2>8
  <2>10. todo' = After(Times("set", Len(s.sets)), 0) \o CodedTodo(s, 0)
    BY <2>9 DEF c, d, e, n, CodedTodo
  <2>11. record' = b
    <3>1. j - 1 = Len(a)
      BY <1>3, <1>7
    <3> QED BY <1>3, <1>4, <3>1, AfterAll DEF rest
  <2>12. 0 \in 0..Len(s.sets)
    BY <2>2 DEF n
  <2>13. record' = BehindSets(s, 0)
    BY <2>11, <2>12, BehindSetsIs DEF b
  <2>14. UpTo(s.sets, 0) = <<>>
    <3> DEFINE t == s.sets
    <3>1. t \in Seq(Sets) /\ 0 \in 0..Len(t)
      BY <2>12, GoodTypes
    <3> HIDE DEF t
    <3>2. UpTo(t, 0) = <<>>
      BY <3>1, UpToTypes
    <3> QED BY <3>2 DEF t
  <2>15. parsed' = Expected(s, 11, ReadTransition(s), UpTo(s.sets, 0), BlankStates(s))
    BY <1>4, <1>7, <2>14 DEF transition
  <2>16. SetsRead(s, 0)'
    BY <2>10, <2>15 DEF SetsRead
  <2>17. SetShape(s, 0)'
    BY <1>5, <2>12, <2>13, <2>16 DEF SetShape
  <2> QED BY <1>4, <2>17 DEF AnyShape
<1> QED BY <1>6, <1>7

\* Reading the two fields behind the initial states (configuration_parser.cpp:268).
LEMMA EndRead ==
  ASSUME NEW s, Good(s), NEW j \in 0..12, EndShape(s, j), intact,
         NEW kind, NEW number \in Readable(kind, 0), ReadField(Fields[j + 1][1], number)
  PROVE  phase' = phase /\ AnyShape(s)'
<1> DEFINE rest == After(Ending(s), j - 10)
           symbol == Ending(s)[j - 10]
           transition == ReadTransition(s)
           states == ReadStates(s)
           sets == s.sets
<1>1. j < 13 /\ j # 10 /\ j \in 11..13
  BY DEF EndShape
<1>2. Facing(Fields[j + 1], After(Fields, j + 1), symbol, rest) /\ symbol[3] = Value(s, j)
  BY <1>1, EndFacing, EndValue
<1>3. parsed = Expected(s, j, transition, sets, states)
  BY DEF EndShape
<1> HIDE DEF rest, symbol, transition, states, sets
<1>4. /\ number = Value(s, j)
      /\ parsed' = Expected(s, j + 1, transition, sets, states)
      /\ todo' = FieldsBehind(Fields[j + 1][1], number) \o After(Fields, j + 1)
      /\ record' = rest /\ phase' = phase
  BY ZenonT(30), <1>1, <1>2, <1>3, FieldTaken
<1>5. j + 1 \in 11..13 /\ j + 1 \in 0..13 /\ j \notin {1, 10} /\ (j + 1) - 11 = j - 10
  BY <1>1
<1>6. todo' = After(Fields, j + 1)
  <2>1. FieldsBehind(Fields[j + 1][1], number) = <<>>
    BY <1>4, <1>5, NothingBehind
  <2> QED BY <1>4, <1>5, <2>1, NothingInFront
<1>7. record' = After(Ending(s), (j + 1) - 11)
  BY <1>4, <1>5 DEF rest
<1>8. parsed' = Expected(s, j + 1, ReadTransition(s), s.sets, ReadStates(s))
  BY <1>4 DEF transition, sets, states
<1>9. EndShape(s, j + 1)'
  BY <1>5, <1>6, <1>7, <1>8 DEF EndShape
<1> QED BY <1>4, <1>9 DEF AnyShape

\* A field of an intact record is the next one of the writer's.
LEMMA ReadFieldIntact ==
  ASSUME NEW s, Good(s), Stage(s), intact, NEW field \in Numbers \cup Flags,
         NEW kind, NEW number \in Readable(kind, 0), ReadField(field, number)
  PROVE  phase' = phase /\ Stage(s)'
<1>1. Parsing({field})
  BY DEF ReadField
<1>2. PICK j \in 0..12 : /\ field = Fields[j + 1][1]
                         /\ HeadShape(s, j) \/ NineShape(s, j) \/ EndShape(s, j)
  BY <1>1, FieldAhead
<1>3. ReadField(Fields[j + 1][1], number)
  BY <1>2
<1>4. phase' = phase /\ AnyShape(s)'
  BY <1>2, <1>3, HeadRead, NineRead, EndRead
<1> QED BY <1>4, NextStage
\* What is in front of the reader, by the name of the field.
LEMMA Ahead ==
  ASSUME NEW s, Good(s), Stage(s)
  PROVE  \/ todo = <<>> /\ EndShape(s, 13)
         \/ todo # <<>> /\ Head(todo)[1] \in Numbers \cup Flags
         \/ \E c : /\ DeltaShape(s, c) /\ c < Len(DefaultTransition)
                   /\ todo # <<>> /\ Head(todo)[1] = "delta"
         \/ \E c : SetStage(s, c) /\ todo # <<>> /\ Head(todo)[1] = "set"
         \/ \E c : /\ CodedShape(s, c) /\ c < Len(s.sets)
                   /\ todo # <<>> /\ Head(todo)[1] = "coded"
         \/ \E c, q : /\ StateShape(s, c, q) /\ q < Len(StatesOf(s, c))
                      /\ todo # <<>> /\ Head(todo)[1] = "state"
<1> DEFINE plain == todo # <<>> /\ Head(todo)[1] \in Numbers \cup Flags
<1>1. ASSUME NEW j, HeadShape(s, j)
      PROVE  plain
  <2>1. todo # <<>> /\ Head(todo) = Fields[j + 1]
    BY <1>1, HeadFacing DEF Facing
  <2>2. j \in 0..12
    BY <1>1 DEF HeadShape
  <2> QED BY <2>1, <2>2, FieldsNamed
<1>2. ASSUME NEW j, NineShape(s, j)
      PROVE  plain
  <2>1. todo # <<>> /\ Head(todo) = Fields[j + 1]
    BY <1>2, NineFacing DEF Facing
  <2>2. j \in 0..12
    BY <1>2 DEF NineShape
  <2> QED BY <2>1, <2>2, FieldsNamed
<1>3. ASSUME NEW j, EndShape(s, j)
      PROVE  plain \/ (todo = <<>> /\ EndShape(s, 13))
  <2>1. CASE j = 13
    BY <1>3, <2>1, EndFacing
  <2>2. CASE j # 13
    <3>1. j \in 0..12 /\ j < 13
      BY <1>3, <2>2 DEF EndShape
    <3>2. todo # <<>> /\ Head(todo) = Fields[j + 1]
      BY <1>3, <3>1, EndFacing DEF Facing
    <3> QED BY <3>1, <3>2, FieldsNamed
  <2> QED BY <2>1, <2>2
<1>4. ASSUME NEW c, DeltaShape(s, c), c < Len(DefaultTransition)
      PROVE  todo # <<>> /\ Head(todo)[1] = "delta"
  BY <1>4, DeltaFacing DEF Facing
<1>5. ASSUME NEW c, SetStage(s, c)
      PROVE  todo # <<>> /\ Head(todo)[1] = "set"
  <2>1. SetsRead(s, c) /\ c \in 0..Len(s.sets) /\ c < Len(s.sets)
    BY <1>5, GoodTypes DEF SetStage
  <2>2. todo # <<>> /\ Head(todo) = <<"set", c + 1>>
    BY <2>1, SetsTodo
  <2> QED BY <2>2
<1>6. ASSUME NEW c, CodedShape(s, c), c < Len(s.sets)
      PROVE  todo # <<>> /\ Head(todo)[1] = "coded"
  BY <1>6, CodedFacing DEF Facing
<1>7. ASSUME NEW c, NEW q, StateShape(s, c, q), q < Len(StatesOf(s, c))
      PROVE  todo # <<>> /\ Head(todo)[1] = "state"
  BY <1>7, StateFacing DEF Facing
<1> HIDE DEF plain
<1>8. \/ plain
      \/ todo = <<>> /\ EndShape(s, 13)
      \/ \E c : /\ DeltaShape(s, c) /\ c < Len(DefaultTransition)
                /\ todo # <<>> /\ Head(todo)[1] = "delta"
      \/ \E c : SetStage(s, c) /\ todo # <<>> /\ Head(todo)[1] = "set"
      \/ \E c : /\ CodedShape(s, c) /\ c < Len(s.sets)
                /\ todo # <<>> /\ Head(todo)[1] = "coded"
      \/ \E c, q : /\ StateShape(s, c, q) /\ q < Len(StatesOf(s, c))
                   /\ todo # <<>> /\ Head(todo)[1] = "state"
  BY <1>1, <1>2, <1>3, <1>4, <1>5, <1>6, <1>7, Zenon DEF Stage
<1> QED BY <1>8 DEF plain

\* The parts read entry by entry are not plain fields.
LEMMA NamesDiffer ==
  {"delta", "set", "coded", "state"} \cap (Numbers \cup Flags) = {}
BY DEF Numbers, Flags

\* A difference is read in the transition table only,
LEMMA DeltaAhead ==
  ASSUME NEW s, Good(s), Stage(s), Parsing({"delta"})
  PROVE  \E c : DeltaShape(s, c) /\ c < Len(DefaultTransition)
<1>1. todo # <<>> /\ Head(todo)[1] = "delta"
  BY DEF Parsing
<1> QED BY <1>1, Ahead, NamesDiffer

\* a table in the sets,
LEMMA SetAhead ==
  ASSUME NEW s, Good(s), Stage(s), Parsing({"set"})
  PROVE  \E c : SetStage(s, c)
<1>1. todo # <<>> /\ Head(todo)[1] = "set"
  BY DEF Parsing
<1> QED BY <1>1, Ahead, NamesDiffer

\* the flag of the states in front of them,
LEMMA CodedAhead ==
  ASSUME NEW s, Good(s), Stage(s), Parsing({"coded"})
  PROVE  \E c : CodedShape(s, c) /\ c < Len(s.sets)
<1>1. todo # <<>> /\ Head(todo)[1] = "coded"
  BY DEF Parsing
<1> QED BY <1>1, Ahead, NamesDiffer

\* and a state among them.
LEMMA StateAhead ==
  ASSUME NEW s, Good(s), Stage(s), Parsing({"state"})
  PROVE  \E c, q : StateShape(s, c, q) /\ q < Len(StatesOf(s, c))
<1>1. todo # <<>> /\ Head(todo)[1] = "state"
  BY DEF Parsing
<1> QED BY <1>1, Ahead, NamesDiffer

\* A record read to its end gave the parameters it was written from, and
\* nothing of it is left (configuration_parser.cpp:295).
LEMMA AcceptIntact ==
  ASSUME NEW s, Good(s), Stage(s), Accept
  PROVE  parsed' = Recorded(s) /\ record' = <<>>
<1>1. todo = <<>> /\ UNCHANGED <<record, parsed>>
  BY DEF Accept
<1>2. EndShape(s, 13)
  BY <1>1, Ahead
<1>3. record = <<>>
  BY <1>2, EndFacing
<1>4. parsed = Expected(s, 13, ReadTransition(s), s.sets, ReadStates(s))
  BY <1>2 DEF EndShape
<1> QED BY <1>1, <1>3, <1>4, AllRead
\* A difference in the transition table gives the writer's entry, which is
\* never outside a byte (configuration_parser.cpp:98).
LEMMA ReadDeltaIntact ==
  ASSUME NEW s, Good(s), Stage(s), intact, NEW delta \in Readable("signed", 0), ReadDelta(delta)
  PROVE  phase' = phase /\ Stage(s)'
<1> DEFINE d == Len(DefaultTransition)
           entries == s.transition
<1>1. Parsing({"delta"})
  BY DEF ReadDelta
<1>2. PICK c : DeltaShape(s, c) /\ c < d
  BY <1>1, DeltaAhead
<1>3. /\ Head(todo) = <<"delta", c + 1>>
      /\ Tail(todo) = After(Times("delta", d), c + 1) \o After(Fields, 2)
      /\ record # <<>> /\ Head(record) = Deltas(s)[c + 1]
      /\ Tail(record) = After(Deltas(s), c + 1) \o FromNine(s)
  BY <1>2, DeltaFacing DEF Facing
<1>4. /\ CustomTransition(s) /\ c \in 0..d /\ FreshTables
      /\ parsed = Expected(s, 2, PartTransition(s, c), <<>>, <<>>)
  BY <1>2 DEF DeltaShape
<1>5. /\ d \in Nat /\ DOMAIN DefaultTransition = 1..d
      /\ \A n \in 1..d : /\ Deltas(s)[n] = S(0, entries[n] - DefaultTransition[n])
                         /\ entries[n] \in 0..(Byte - 1) /\ DefaultTransition[n] \in 0..(Byte - 1)
  BY <1>4, DeltaWords
<1>6. Byte \in Nat
  BY RecordAssumption
<1> HIDE DEF d, entries
<1>7. c + 1 \in 1..d /\ c + 1 \in 0..d /\ c \in Nat
  BY <1>2, <1>4, <1>5
<1>8. Index = c + 1
  BY <1>3 DEF Index
<1>9. delta = entries[c + 1] - DefaultTransition[c + 1]
  <2>1. delta = Head(record)[3]
    BY DEF Readable
  <2>2. Head(record) = S(0, entries[c + 1] - DefaultTransition[c + 1])
    BY <1>3, <1>5, <1>7
  <2> QED BY <2>1, <2>2 DEF S
<1>10. DefaultTransition[Index] + delta = entries[c + 1] /\ entries[c + 1] \in 0..(Byte - 1)
  BY <1>5, <1>6, <1>7, <1>8, <1>9
<1>11. /\ parsed' = [parsed EXCEPT !.transition[c + 1] = entries[c + 1]]
       /\ todo' = Tail(todo) /\ record' = Tail(record)
       /\ phase' = phase /\ UNCHANGED tablesVars
  BY <1>8, <1>10 DEF ReadDelta, Consume
<1>12. [PartTransition(s, c) EXCEPT ![c + 1] = entries[c + 1]] = PartTransition(s, c + 1)
  <2> DEFINE f == PartTransition(s, c)
             g == PartTransition(s, c + 1)
  <2>1. f = [n \in 1..d |-> f[n]] /\ g = [n \in 1..d |-> g[n]]
    BY <1>5 DEF PartTransition
  <2>2. ASSUME NEW n \in 1..d, n # c + 1
        PROVE  g[n] = f[n]
    <3>1. n <= c + 1 <=> n <= c
      BY <1>5, <1>7, <2>2
    <3> QED BY <1>5, <3>1 DEF PartTransition
  <2>3. g[c + 1] = entries[c + 1]
    <3>1. c + 1 <= c + 1
      BY <1>7
    <3> QED BY <1>5, <1>7, <3>1 DEF PartTransition, entries
  <2> HIDE DEF f, g
  <2>4. [f EXCEPT ![c + 1] = entries[c + 1]] = g
    BY <1>7, <2>1, <2>2, <2>3
  <2> QED BY <2>4 DEF f, g
<1>13. parsed' = Expected(s, 2, PartTransition(s, c + 1), <<>>, <<>>)
  <2> DEFINE other == [PartTransition(s, c) EXCEPT ![c + 1] = entries[c + 1]]
             read == Expected(s, 2, PartTransition(s, c), <<>>, <<>>)
  <2>1. read.transition = PartTransition(s, c)
    BY OthersRead
  <2>2. [read EXCEPT !.transition = other] = Expected(s, 2, other, <<>>, <<>>)
    <3> HIDE DEF other
    <3> QED BY OthersRead
  <2>3. parsed' = [read EXCEPT !.transition = [read.transition EXCEPT ![c + 1] = entries[c + 1]]]
    BY <1>4, <1>11
  <2> HIDE DEF read
  <2>4. parsed' = [read EXCEPT !.transition = other]
    BY <2>1, <2>3
  <2> QED BY <1>12, <2>2, <2>4
<1>14. FreshTables'
  BY <1>4, <1>11 DEF FreshTables, tablesVars, ZeroTables
<1>15. todo' = After(Times("delta", Len(DefaultTransition)), c + 1) \o After(Fields, 2)
  BY <1>3, <1>11 DEF d
<1>16. record' = After(Deltas(s), c + 1) \o FromNine(s)
  BY <1>3, <1>11
<1>17. c + 1 \in 0..Len(DefaultTransition)
  BY <1>7 DEF d
<1>18. DeltaShape(s, c + 1)'
  BY <1>4, <1>13, <1>14, <1>15, <1>16, <1>17 DEF DeltaShape
<1>19. AnyShape(s)'
  BY <1>18 DEF AnyShape
<1> QED BY <1>11, <1>19, NextStage

\* The states of one more set.
LEMMA PartStatesMore ==
  ASSUME NEW s, Good(s), NEW c \in 0..(Len(s.sets) - 1)
  PROVE  /\ [PartStates(s, c + 1) EXCEPT ![c + 1] = <<>>] = PartStates(s, c)
         /\ StatesOf(s, c + 1) = <<>> => PartStates(s, c + 1) = PartStates(s, c)
<1> DEFINE n == Len(s.sets)
           f == PartStates(s, c)
           g == PartStates(s, c + 1)
<1>1. n \in Nat
  BY GoodTypes
<1>2. f = [i \in 1..n |-> f[i]] /\ g = [i \in 1..n |-> g[i]]
  BY DEF PartStates
<1>3. c \in 0..(n - 1)
  OBVIOUS
<1> HIDE DEF n
<1>4. c + 1 \in 1..n /\ c \in Nat
  BY <1>1, <1>3
<1>5. ASSUME NEW i \in 1..n, i # c + 1
      PROVE  g[i] = f[i]
  <2>1. i <= c + 1 <=> i <= c
    BY <1>1, <1>4, <1>5
  <2> QED BY <2>1 DEF PartStates, n
<1>6. f[c + 1] = <<>> /\ g[c + 1] = StatesOf(s, c + 1)
  <2>1. c + 1 <= c + 1 /\ ~(c + 1 <= c)
    BY <1>4
  <2> QED BY <1>4, <2>1 DEF PartStates, n
<1> HIDE DEF f, g
<1>7. [g EXCEPT ![c + 1] = <<>>] = f
  BY <1>2, <1>4, <1>5, <1>6
<1>8. StatesOf(s, c + 1) = <<>> => g = f
  BY <1>2, <1>4, <1>5, <1>6
<1> QED BY <1>7, <1>8 DEF f, g

\* The flag in front of the states of a set announces as many as were written
\* (configuration_parser.cpp:248).
LEMMA ReadStatesCodedIntact ==
  ASSUME NEW s, Good(s), Stage(s), intact, NEW flag \in Readable("bool", 0), ReadStatesCoded(flag)
  PROVE  phase' = phase /\ Stage(s)'
<1>1. Parsing({"coded"})
  BY DEF ReadStatesCoded
<1>2. PICK c : CodedShape(s, c) /\ c < Len(s.sets)
  BY <1>1, CodedAhead
<1> DEFINE states == StatesOf(s, c + 1)
           n == Len(s.sets)
           l == Len(states)
           b == CodedTodo(s, c + 1)
           e == StateSymbols(states)
           f == BehindStates(s, c + 1)
           u == UpTo(states, 0)
<1>3. /\ Head(todo) = <<"coded", c + 1>> /\ Tail(todo) = b
      /\ record # <<>> /\ Head(record) = B(states # <<>>) /\ Tail(record) = e \o f
  BY <1>2, CodedFacing DEF Facing
<1>4. /\ c \in 0..n
      /\ parsed = Expected(s, 11, ReadTransition(s), s.sets, PartStates(s, c))
  BY <1>2 DEF CodedShape
<1>5. n \in Nat
  BY GoodTypes
<1> HIDE DEF n
<1>6. c + 1 \in 1..n /\ c + 1 \in 0..n /\ c \in 0..(n - 1) /\ c \in Nat
  BY <1>2, <1>4, <1>5 DEF n
<1>7. c + 1 \in 1..Len(s.sets) /\ c + 1 \in 0..Len(s.sets) /\ c \in 0..(Len(s.sets) - 1)
  BY <1>6 DEF n
<1>8. b \in Seq(Entries) /\ f \in Seq(Symbols)
  BY <1>7, CodedTodoIs, BehindStatesIs
<1>9. /\ states \in Seq(0..(Byte - 1)) /\ e \in Seq(Symbols) /\ Len(e) = l
      /\ states # <<>> => l = StateCount * s.sets[c + 1].contexts
  BY <1>7, StatesTypes, StateSymbolsTypes
<1>10. StateTodo(s, c + 1) \in Seq(Entries) /\ l \in Nat
  BY <1>7, StateTodoTypes
<1>11. flag = Bit(states # <<>>)
  BY <1>3 DEF Readable, B, Bit
<1>12. Index = c + 1
  BY <1>3 DEF Index
<1>13. parsed.sets = s.sets
  BY <1>4, OthersRead
<1>14. /\ parsed' = parsed /\ record' = e \o f /\ phase' = phase
       /\ todo' = (IF flag = 1
                   THEN [j \in 1..(s.sets[c + 1].contexts * StateCount) |-> <<"state", c + 1>>]
                   ELSE <<>>) \o b
  BY <1>3, <1>12, <1>13 DEF ReadStatesCoded, Consume
<1> HIDE DEF b, f
<1>15. CASE states # <<>>
  <2>1. flag = 1
    BY <1>11, <1>15 DEF Bit
  <2>2. s.sets[c + 1].contexts * StateCount = l
    <3>1. s.sets[c + 1] \in Sets
      BY <1>7, GoodTypes
    <3>2. s.sets[c + 1].contexts \in Nat
      BY <3>1 DEF Sets
    <3> DEFINE m == s.sets[c + 1].contexts
    <3> HIDE DEF m, l
    <3>3. StateCount \in Nat /\ m \in Nat /\ l = StateCount * m
      BY <1>9, <1>15, <3>2, RecordAssumption DEF m
    <3>4. m * StateCount = l
      BY <3>3
    <3> QED BY <3>4 DEF m
  <2> DEFINE words == StateTodo(s, c + 1)
  <2>3. [j \in 1..(s.sets[c + 1].contexts * StateCount) |-> <<"state", c + 1>>] = words
    BY <2>2 DEF StateTodo
  <2>4. todo' = words \o b
    BY <1>14, <2>1, <2>3
  <2>5. After(words, 0) = words /\ After(e, 0) = e
    BY <1>9, <1>10, AfterNone
  <2>6. u = <<>>
    <3> HIDE DEF states
    <3> QED BY <1>9, UpToNone
  <2>7. [PartStates(s, c + 1) EXCEPT ![c + 1] = u] = PartStates(s, c)
    BY <1>7, <2>6, PartStatesMore
  <2> HIDE DEF words, e, u
  <2>8. todo' = After(words, 0) \o b /\ record' = After(e, 0) \o f
    BY <1>14, <2>4, <2>5
  <2>9. parsed' = Expected(s, 11, ReadTransition(s), s.sets,
                           [PartStates(s, c + 1) EXCEPT ![c + 1] = u])
    BY <1>4, <1>14, <2>7
  <2>10. 0 \in 0..Len(states)
    BY <1>10
  <2>11. StateShape(s, c + 1, 0)'
    BY <1>7, <2>8, <2>9, <2>10 DEF StateShape, words, b, e, f, u
  <2>12. AnyShape(s)'
    BY <2>11 DEF AnyShape
  <2> QED BY <1>14, <2>12, NextStage
<1>16. CASE states = <<>>
  <2>1. flag # 1
    BY <1>11, <1>16 DEF Bit
  <2>2. todo' = b
    <3>1. <<>> \o b = b
      BY <1>8, ConcatEmptySeq
    <3> QED BY <1>14, <2>1, <3>1
  <2>3. e = <<>>
    <3>1. l = 0
      BY <1>16
    <3> HIDE DEF e, l
    <3> QED BY <1>9, <3>1
  <2>4. record' = f
    <3>1. <<>> \o f = f
      BY <1>8, ConcatEmptySeq
    <3> QED BY <1>14, <2>3, <3>1
  <2>5. PartStates(s, c + 1) = PartStates(s, c)
    BY <1>7, <1>16, PartStatesMore
  <2>6. parsed' = Expected(s, 11, ReadTransition(s), s.sets, PartStates(s, c + 1))
    BY <1>4, <1>14, <2>5
  <2>7. CodedShape(s, c + 1)'
    BY <1>7, <2>2, <2>4, <2>6 DEF CodedShape, b, f
  <2>8. AnyShape(s)'
    BY <2>7 DEF AnyShape
  <2> QED BY <1>14, <2>8, NextStage
<1> QED BY <1>15, <1>16
\* The two ends predict a state from the same one.
LEMMA SamePrediction ==
  ASSUME NEW states \in Seq(0..(Byte - 1)), NEW q \in 0..Len(states), q < Len(states)
  PROVE  /\ Predicted(UpTo(states, q)) = Prediction(states, q + 1)
         /\ (Prediction(states, q + 1) + (states[q + 1] - Prediction(states, q + 1))) % Byte
              = states[q + 1]
<1> DEFINE l == Len(states)
           u == UpTo(states, q)
           p == Prediction(states, q + 1)
           state == states[q + 1]
<1>1. Byte \in Nat /\ Byte >= 2 /\ StateCount \in Nat /\ StateCount >= 1
  BY RecordAssumption
<1>2. l \in Nat /\ q \in Nat /\ q + 1 \in 1..l /\ \A j \in 1..l : states[j] \in 0..(Byte - 1)
  <2>1. l \in Nat
    OBVIOUS
  <2>2. \A j \in 1..l : states[j] \in 0..(Byte - 1)
    BY ElementOfSeq
  <2>3. q \in 0..l /\ q < l
    OBVIOUS
  <2> HIDE DEF l
  <2>4. q \in Nat /\ q + 1 \in 1..l
    BY <2>1, <2>3
  <2> QED BY <2>1, <2>2, <2>4
<1>3. Len(u) = q /\ \A j \in 1..q : u[j] = states[j]
  <2>1. Len(UpTo(states, q)) = q
    BY UpToTypes
  <2> QED BY <2>1 DEF UpTo
<1>4. p \in 0..(Byte - 1)
  <2>1. \A j \in 1..l : Prediction(states, j) \in 0..(Byte - 1)
    BY StateSymbolsTypes
  <2> QED BY <1>2, <2>1
<1>5. state \in 0..(Byte - 1)
  BY <1>2
<1> HIDE DEF l, u
<1>6. Predicted(u) = p
  <2>1. CASE q < StateCount
    <3>1. q + 1 <= StateCount
      BY <1>1, <1>2, <2>1
    <3> QED BY <1>3, <2>1, <3>1 DEF Predicted, Prediction
  <2>2. CASE q >= StateCount
    <3>1. /\ ~(q + 1 <= StateCount) /\ ~(q < StateCount)
          /\ q + 1 - StateCount \in 1..q
      <4> DEFINE m == StateCount
      <4>1. m \in Nat /\ m >= 1 /\ q \in Nat /\ q >= m
        BY <1>1, <1>2, <2>2
      <4> HIDE DEF m
      <4>2. ~(q + 1 <= m) /\ ~(q < m) /\ q + 1 - m \in 1..q
        BY <4>1
      <4> QED BY <4>2 DEF m
    <3>2. p = states[q + 1 - StateCount]
      BY <1>1, <1>2, <3>1 DEF Prediction
    <3>3. Predicted(u) = u[q + 1 - StateCount]
      BY <1>3, <3>1 DEF Predicted
    <3> QED BY <1>3, <3>1, <3>2, <3>3
  <2> QED BY <1>1, <1>2, <2>1, <2>2
<1> HIDE DEF p, state
<1>7. (p + (state - p)) % Byte = state
  <2>1. p + (state - p) = state
    BY <1>1, <1>4, <1>5
  <2>2. state % Byte = state
    BY <1>1, <1>5
  <2> QED BY <2>1, <2>2
<1> QED BY <1>6, <1>7 DEF u, p, state

\* The entry that comes next is appended to those taken.
LEMMA LongerUpTo ==
  ASSUME NEW T, NEW s \in Seq(T), NEW c \in 0..Len(s), c < Len(s)
  PROVE  Append(UpTo(s, c), s[c + 1]) = UpTo(s, c + 1)
<1> DEFINE a == UpTo(s, c)
           b == UpTo(s, c + 1)
           e == s[c + 1]
<1>1. Len(s) \in Nat /\ c \in Nat /\ c + 1 \in 0..Len(s) /\ c + 1 \in 1..Len(s)
  OBVIOUS
<1>2. a \in Seq(T) /\ Len(a) = c /\ \A i \in 1..c : a[i] = s[i]
  BY UpToTypes DEF UpTo
<1>3. b \in Seq(T) /\ Len(b) = c + 1
  <2> DEFINE d == c + 1
  <2>1. d \in 0..Len(s)
    BY <1>1
  <2> HIDE DEF d
  <2>2. UpTo(s, d) \in Seq(T) /\ Len(UpTo(s, d)) = d
    BY <2>1, UpToTypes
  <2> QED BY <2>2 DEF d
<1>4. \A i \in 1..(c + 1) : b[i] = s[i]
  BY DEF UpTo
<1>5. e \in T
  BY <1>1, ElementOfSeq
<1>6. \A i \in 1..c : b[i] = a[i]
  BY <1>1, <1>2, <1>4
<1>7. b[c + 1] = e
  BY <1>1, <1>4
<1> HIDE DEF a, b, e
<1>8. a \o <<e>> = b
  BY <1>2, <1>3, <1>5, <1>6, <1>7, OneMore
<1>9. Append(a, e) = a \o <<e>>
  BY <1>2, <1>5, AppendIsConcat
<1> QED BY <1>8, <1>9 DEF a, b, e

\* A difference among the states gives the state of the writer, although the
\* sum wraps around in a byte (configuration_parser.cpp:261).
LEMMA ReadStateIntact ==
  ASSUME NEW s, Good(s), Stage(s), intact, Parsing({"state"}),
         NEW delta \in Readable("signed", StateIndex), ReadState(delta)
  PROVE  phase' = phase /\ Stage(s)'
<1>1. PICK c, q : StateShape(s, c, q) /\ q < Len(StatesOf(s, c))
  BY StateAhead
<1> DEFINE states == StatesOf(s, c)
           u == UpTo(states, q)
           p == Prediction(states, q + 1)
           part == PartStates(s, c)
           here == [part EXCEPT ![c] = u]
           next == [part EXCEPT ![c] = UpTo(states, q + 1)]
           b == After(StateTodo(s, c), q + 1) \o CodedTodo(s, c)
           f == After(StateSymbols(states), q + 1) \o BehindStates(s, c)
           read == Expected(s, 11, ReadTransition(s), s.sets, here)
<1>2. /\ Head(todo) = <<"state", c>> /\ Tail(todo) = b
      /\ record # <<>> /\ Head(record) = StateSymbols(states)[q + 1] /\ Tail(record) = f
  BY <1>1, StateFacing DEF Facing
<1>3. c \in 1..Len(s.sets) /\ q \in 0..Len(states) /\ parsed = read
  BY <1>1 DEF StateShape
<1>4. states \in Seq(0..(Byte - 1))
      /\ \A j \in 1..Len(states) :
           StateSymbols(states)[j] = S((j - 1) % StateCount, states[j] - Prediction(states, j))
  BY <1>3, StatesTypes, StateSymbolsTypes
<1>5. Index = c
  BY <1>2 DEF Index
<1>6. here[c] = u /\ c \in DOMAIN here /\ DOMAIN part = 1..Len(s.sets)
  BY <1>3 DEF PartStates
<1>7. read.states = here
  <2> HIDE DEF here
  <2> QED BY OthersRead
<1>8. q < Len(states)
  BY <1>1
<1> HIDE DEF states
<1>9. Len(u) = q /\ Append(u, states[q + 1]) = UpTo(states, q + 1) /\ q \in Nat
      /\ q + 1 \in 1..Len(states) /\ q + 1 \in 0..Len(states) /\ (q + 1) - 1 = q
  <2>1. Len(states) \in Nat
    BY <1>4
  <2>2. q \in Nat /\ q + 1 \in 1..Len(states) /\ q + 1 \in 0..Len(states) /\ (q + 1) - 1 = q
    BY <1>3, <1>8, <2>1
  <2>3. Len(UpTo(states, q)) = q /\ Append(UpTo(states, q), states[q + 1]) = UpTo(states, q + 1)
    <3> DEFINE T == 0..(Byte - 1)
    <3>1. states \in Seq(T) /\ q \in 0..Len(states) /\ q < Len(states)
      BY <1>3, <1>4, <1>8
    <3> HIDE DEF T
    <3>2. Len(UpTo(states, q)) = q
      BY ONLY <3>1, UpToTypes
    <3>3. Append(UpTo(states, q), states[q + 1]) = UpTo(states, q + 1)
      BY ONLY <3>1, LongerUpTo
    <3> QED BY <3>2, <3>3
  <2> QED BY <2>2, <2>3
<1>10. Predicted(u) = p /\ (p + (states[q + 1] - p)) % Byte = states[q + 1]
  BY <1>3, <1>4, <1>8, SamePrediction
<1>11. Head(record) = S(q % StateCount, states[q + 1] - p)
  BY <1>2, <1>4, <1>9
<1> HIDE DEF p, u, b, f, part
<1>12. delta = states[q + 1] - p
  BY <1>11 DEF Readable, S
<1>13. parsed.states[Index] = u
  BY <1>3, <1>5, <1>6, <1>7
<1> DEFINE longer == Append(u, (Predicted(u) + delta) % Byte)
<1>14. /\ parsed' = [parsed EXCEPT !.states = [parsed.states EXCEPT ![c] = longer]]
       /\ todo' = b /\ record' = f /\ phase' = phase
  BY <1>2, <1>5, <1>13 DEF ReadState, Consume
<1>15. longer = UpTo(states, q + 1)
  BY <1>9, <1>10, <1>12
<1>16. [here EXCEPT ![c] = longer] = next
  <2> HIDE DEF longer
  <2> QED BY <1>15
<1>17. parsed' = Expected(s, 11, ReadTransition(s), s.sets, next)
  <2> HIDE DEF here, next, longer, read
  <2>1. parsed' = [read EXCEPT !.states = next]
    BY <1>3, <1>7, <1>14, <1>16
  <2>2. [read EXCEPT !.states = next] = Expected(s, 11, ReadTransition(s), s.sets, next)
    BY OthersRead DEF read
  <2> QED BY <2>1, <2>2
<1> HIDE DEF here, read, longer
<1>18. StateShape(s, c, q + 1)'
  <2>1. todo' = After(StateTodo(s, c), q + 1) \o CodedTodo(s, c)
    BY <1>14 DEF b
  <2>2. record' = After(StateSymbols(StatesOf(s, c)), q + 1) \o BehindStates(s, c)
    BY <1>14 DEF f, states
  <2>3. parsed' = Expected(s, 11, ReadTransition(s), s.sets,
                           [PartStates(s, c) EXCEPT ![c] = UpTo(StatesOf(s, c), q + 1)])
    BY <1>17 DEF next, part, states
  <2>4. q + 1 \in 0..Len(StatesOf(s, c))
    BY <1>9 DEF states
  <2> QED BY <1>3, <2>1, <2>2, <2>3, <2>4 DEF StateShape
<1>19. AnyShape(s)'
  BY <1>18 DEF AnyShape
<1> QED BY <1>14, <1>19, NextStage

\* The set in front of the reader is one the writer took.
LEMMA SetTaken ==
  ASSUME NEW s, Good(s), NEW c, SetStage(s, c)
  PROVE  /\ Taken(s.sets[c + 1], BehindSets(s, c + 1))
         /\ TableStage(s.sets[c + 1], BehindSets(s, c + 1))
         /\ SetsRead(s, c) /\ c \in 0..(Len(s.sets) - 1) /\ c \in 0..Len(s.sets)
         /\ c + 1 \in 1..Len(s.sets) /\ c + 1 \in 0..Len(s.sets) /\ c < Len(s.sets)
<1> DEFINE n == Len(s.sets)
<1>1. n \in Nat /\ c \in 0..(n - 1)
  BY GoodTypes DEF SetStage
<1> HIDE DEF n
<1>2. c + 1 \in 1..n /\ c + 1 \in 0..n /\ c \in 0..n /\ c < n
  BY <1>1
<1>3. c + 1 \in 1..Len(s.sets) /\ c + 1 \in 0..Len(s.sets) /\ c \in 0..Len(s.sets) /\ c < Len(s.sets)
  BY <1>2 DEF n
<1>4. BehindSets(s, c + 1) \in Seq(Symbols)
  BY <1>3, BehindSetsIs
<1>5. s.sets[c + 1] \in Sets /\ EncodableSet(s.sets[c + 1])
  BY <1>3, GoodTypes
<1> QED BY <1>3, <1>4, <1>5 DEF Taken, SetStage

\* Reading a table leaves the fields and the parameters as they are.
LEMMA TableGoesOn ==
  ASSUME NEW s, Good(s), NEW c, SetStage(s, c), UNCHANGED <<todo, parsed>>,
         TableStage(s.sets[c + 1], BehindSets(s, c + 1))'
  PROVE  Stage(s)'
<1>1. SetsRead(s, c)'
  BY DEF SetsRead, SetStage
<1>2. SetStage(s, c)'
  BY <1>1 DEF SetStage
<1>3. AnyShape(s)'
  BY <1>2 DEF AnyShape
<1> QED BY <1>3, NextStage

\* A run leaves the reader among the sets (configuration_parser.cpp:350),
LEMMA ReadTableIntact ==
  ASSUME NEW s, Good(s), Stage(s), intact,
         NEW number \in Readable("unsigned", -table), ReadTable(number)
  PROVE  phase' = phase /\ Stage(s)'
<1>1. Parsing({"set"}) /\ UNCHANGED <<phase, todo, parsed>>
  BY DEF ReadTable
<1>2. PICK c : SetStage(s, c)
  BY <1>1, SetAhead
<1> DEFINE set == s.sets[c + 1]
           behind == BehindSets(s, c + 1)
<1>3. Taken(set, behind) /\ TableStage(set, behind)
  BY <1>2, SetTaken
<1> HIDE DEF set, behind
<1>4. TableStage(set, behind)'
  <2>1. CASE ReadRun(number) /\ Consume
    <3>1. InTable(set, behind)'
      BY <1>3, <2>1, ReadRunIntact
    <3> QED BY <3>1 DEF TableStage
  <2>2. CASE RefuseRun(number)
    <3>1. TooManyContexts(set)'
      BY <1>3, <2>2, RefuseRunIntact
    <3> QED BY <3>1 DEF TableStage
  <2> QED BY <2>1, <2>2 DEF ReadTable
<1>5. TableStage(s.sets[c + 1], BehindSets(s, c + 1))'
  BY <1>4 DEF set, behind
<1> QED BY <1>1, <1>2, <1>5, TableGoesOn

\* and so does the end of a table or a set (configuration_parser.cpp:321).
LEMMA CloseTableIntact ==
  ASSUME NEW s, Good(s), Stage(s), CloseTable
  PROVE  phase' = phase /\ Stage(s)'
<1>1. Parsing({"set"}) /\ UNCHANGED <<phase, record, todo, parsed>>
  BY DEF CloseTable
<1>2. PICK c : SetStage(s, c)
  BY <1>1, SetAhead
<1> DEFINE set == s.sets[c + 1]
           behind == BehindSets(s, c + 1)
<1>3. Taken(set, behind) /\ TableStage(set, behind)
  BY <1>2, SetTaken
<1> HIDE DEF set, behind
<1>4. TableStage(set, behind)'
  <2>1. CASE EndTable
    BY <1>1, <1>3, <2>1, EndTableIntact
  <2>2. CASE EndSet
    BY <1>1, <1>3, <2>2, EndSetIntact
  <2> QED BY <2>1, <2>2 DEF CloseTable
<1>5. TableStage(s.sets[c + 1], BehindSets(s, c + 1))'
  BY <1>4 DEF set, behind
<1> QED BY <1>1, <1>2, <1>5, TableGoesOn

\* The set that was read is the writer's (configuration_parser.cpp:235).
LEMMA AppendSetIntact ==
  ASSUME NEW s, Good(s), Stage(s), AppendSet
  PROVE  phase' = phase /\ Stage(s)'
<1>1. Parsing({"set"}) /\ verdict = "read"
  BY DEF AppendSet
<1>2. PICK c : SetStage(s, c)
  BY <1>1, SetAhead
<1> DEFINE set == s.sets[c + 1]
           behind == BehindSets(s, c + 1)
           read == Expected(s, 11, ReadTransition(s), UpTo(s.sets, c), BlankStates(s))
<1>3. /\ Taken(set, behind) /\ TableStage(set, behind) /\ SetsRead(s, c) /\ c \in 0..Len(s.sets)
      /\ c + 1 \in 0..Len(s.sets) /\ c < Len(s.sets)
  BY <1>2, SetTaken
<1>4. BehindTables(set, behind)
  BY <1>1, <1>3 DEF TableStage, InTable, TooManyContexts
<1>5. /\ tables = set.tables /\ contexts = set.contexts /\ record = behind
      /\ k = 0 /\ value = 0
  BY <1>1, <1>4 DEF BehindTables
<1>6. [tables |-> tables, contexts |-> contexts] = set
  <2>1. set \in Sets
    BY <1>3 DEF Taken
  <2> HIDE DEF set
  <2> QED BY <1>5, <2>1 DEF Sets
<1>7. Tail(todo) = After(Times("set", Len(s.sets)), c + 1) \o CodedTodo(s, 0)
  BY <1>3, SetsTodo
<1>8. parsed = read
  BY <1>3 DEF SetsRead
<1>9. read.sets = UpTo(s.sets, c)
  BY OthersRead
<1> HIDE DEF read
<1>10. /\ parsed' = [parsed EXCEPT !.sets =
                       Append(parsed.sets, [tables |-> tables, contexts |-> contexts])]
       /\ todo' = Tail(todo) /\ phase' = phase /\ record' = record
  BY DEF AppendSet
<1>11. FreshTables'
  BY <1>5 DEF AppendSet, FreshTables, ZeroTables
<1>12. Append(UpTo(s.sets, c), set) = UpTo(s.sets, c + 1)
  <2> DEFINE t == s.sets
  <2>1. t \in Seq(Sets) /\ c \in 0..Len(t) /\ c < Len(t)
    BY <1>3, GoodTypes
  <2> HIDE DEF t
  <2>2. Append(UpTo(t, c), t[c + 1]) = UpTo(t, c + 1)
    BY <2>1, LongerUpTo
  <2> QED BY <2>2 DEF t
<1> DEFINE more == UpTo(s.sets, c + 1)
<1> HIDE DEF set
<1>13. parsed' = Expected(s, 11, ReadTransition(s), more, BlankStates(s))
  <2> DEFINE old == UpTo(s.sets, c)
             last == [tables |-> tables, contexts |-> contexts]
  <2>1. parsed' = [read EXCEPT !.sets = more]
    <3>1. last = set /\ read.sets = old /\ Append(old, set) = more
      BY <1>6, <1>9, <1>12
    <3>2. parsed' = [read EXCEPT !.sets = Append(read.sets, last)]
      BY <1>8, <1>10
    <3> HIDE DEF old, last, more
    <3> QED BY <3>1, <3>2
  <2> HIDE DEF more
  <2>2. [read EXCEPT !.sets = more] = Expected(s, 11, ReadTransition(s), more, BlankStates(s))
    BY OthersRead DEF read
  <2> QED BY <2>1, <2>2
<1>14. SetsRead(s, c + 1)'
  BY <1>7, <1>10, <1>13 DEF SetsRead
<1>15. SetShape(s, c + 1)'
  BY <1>3, <1>5, <1>10, <1>11, <1>14 DEF SetShape
<1>16. AnyShape(s)'
  BY <1>15 DEF AnyShape
<1> QED BY <1>10, <1>16, NextStage

\* Nothing but the number of its contexts makes a set the writer took refused.
LEMMA RefuseSetIntact ==
  ASSUME NEW s, Good(s), Stage(s), RefuseSet
  PROVE  ~WithinContexts(s)
<1>1. Parsing({"set"}) /\ verdict = "refused"
  BY DEF RefuseSet
<1>2. PICK c : SetStage(s, c)
  BY <1>1, SetAhead
<1> DEFINE set == s.sets[c + 1]
           count == ContextCount(Scales(set)[6])
<1>3. TableStage(set, BehindSets(s, c + 1)) /\ c + 1 \in 1..Len(s.sets)
  BY <1>2, SetTaken
<1>4. count > MaxContexts
  BY <1>1, <1>3 DEF TableStage, InTable, BehindTables, TooManyContexts
<1>5. MaxContexts \in Nat /\ count \in Nat
  <2>1. Scales(set)[6] \in Nat \ {0}
    <3>1. Taken(set, BehindSets(s, c + 1))
      BY <1>2, SetTaken
    <3> QED BY <3>1, SetScales DEF Taken
  <2> DEFINE scale6 == Scales(set)[6]
  <2>2. scale6 \in Nat /\ scale6 >= 1
    BY <2>1
  <2> HIDE DEF scale6
  <2>3. ContextCount(scale6) \in Nat
    BY <2>2 DEF ContextCount
  <2>4. MaxContexts \in Nat
    BY QuantTablesAssumption
  <2> QED BY <2>3, <2>4 DEF scale6
<1>6. c + 1 \in DOMAIN s.sets
  BY <1>3, GoodTypes
<1> HIDE DEF count
<1>7. ~(count <= MaxContexts)
  BY <1>4, <1>5
<1> QED BY <1>6, <1>7 DEF WithinContexts, count
(***************************************************************************)
(* The record as a whole.                                                  *)
(***************************************************************************)
\* What was read of a damaged record began as a legacy stream.
Legacy == "version" \in DOMAIN parsed /\ parsed.version < 3

\* s are the parameters of the writer.
RecordInvOf(s) ==
  /\ phase \in {"write", "deliver", "probe", "parse", "accepted", "refused"}
  /\ phase \in {"write", "deliver", "probe"} => parsed = NoParameters /\ FreshTables
  /\ phase \in {"deliver", "probe", "parse"} => Writable(s)
  /\ phase = "deliver" => record = Written(s)
  /\ phase = "probe" /\ intact => record = Written(s)
  /\ phase = "parse" /\ intact => Stage(s)
  /\ phase \in {"parse", "accepted"} /\ ~intact => Legacy
  /\ phase = "accepted" /\ intact => parsed = Recorded(s) /\ record = <<>>
  /\ phase = "refused" /\ intact => ~Writable(s) \/ ~WithinContexts(s)

RecordInv == \E s \in Streams : stream = s /\ RecordInvOf(s)

\* What each step does to the invariant: writing the record,
LEMMA WriteStep ==
  ASSUME NEW s \in Streams, stream = s, RecordInvOf(s), Write \/ RefuseToWrite
  PROVE  RecordInvOf(s)' /\ stream' = s
<1>1. CASE Write
  <2>1. /\ phase = "write" /\ Writable(s) /\ record' = Written(s) /\ phase' = "deliver"
        /\ parsed' = parsed /\ UNCHANGED tablesVars /\ stream' = s
    BY <1>1 DEF Write
  <2>2. FreshTables'
    BY <2>1 DEF RecordInvOf, FreshTables, tablesVars, ZeroTables
  <2> QED BY <2>1, <2>2 DEF RecordInvOf
<1>2. CASE RefuseToWrite
  <2>1. ~Writable(s) /\ phase' = "refused" /\ stream' = s
    BY <1>2 DEF RefuseToWrite
  <2> QED BY <2>1 DEF RecordInvOf
<1> QED BY <1>1, <1>2

\* damaging it or not,
LEMMA DeliverStep ==
  ASSUME NEW s \in Streams, stream = s, RecordInvOf(s), Deliver
  PROVE  RecordInvOf(s)' /\ stream' = s
<1>1. /\ phase = "deliver" /\ (intact' => record' = record) /\ phase' = "probe"
      /\ parsed' = parsed /\ UNCHANGED tablesVars /\ stream' = s
  BY DEF Deliver
<1>2. FreshTables'
  BY <1>1 DEF RecordInvOf, FreshTables, tablesVars, ZeroTables
<1> QED BY <1>1, <1>2 DEF RecordInvOf

\* reading the version, the only one of a record that is intact being 3
\* (configuration_parser.cpp:61),
LEMMA ProbeStep ==
  ASSUME NEW s \in Streams, stream = s, RecordInvOf(s),
         NEW version \in Readable("unsigned", 0), Probe(version)
  PROVE  RecordInvOf(s)' /\ stream' = s
<1>1. phase = "probe" /\ stream' = s /\ intact' = intact /\ UNCHANGED tablesVars
  BY DEF Probe, Refuse
<1>2. parsed = NoParameters /\ FreshTables /\ Writable(s) /\ (intact => record = Written(s))
  BY <1>1 DEF RecordInvOf
<1>3. FreshTables'
  BY <1>1, <1>2 DEF FreshTables, tablesVars, ZeroTables
<1>4. CASE intact
  <2> DEFINE a == Three(s)
             b == Deltas(s) \o FromNine(s)
  <2>1. Good(s)
    BY <1>2 DEF Good
  <2>2. record = a \o b /\ a \in Seq(Symbols) /\ Len(a) = 3 /\ b \in Seq(Symbols)
    BY <1>2, <1>4, <2>1, WrittenIs, WordsTypes
  <2>3. a[1] = U(3)
    BY DEF Three
  <2> HIDE DEF a, b
  <2>4. After(a, 0) = a /\ 0 \in 0..Len(a) /\ 0 < Len(a) /\ 0 + 1 = 1
    BY <2>2, AfterNone
  <2>5. /\ After(a, 0) \o b # <<>> /\ Head(After(a, 0) \o b) = a[0 + 1]
        /\ Tail(After(a, 0) \o b) = After(a, 0 + 1) \o b
    BY <2>2, <2>4, TakeOne
  <2>6. record # <<>> /\ Head(record) = U(3) /\ Tail(record) = After(a, 1) \o b
    BY <2>2, <2>3, <2>4, <2>5
  <2>7. version = 3
    BY <1>4, <2>6 DEF Readable, U
  <2>8. /\ phase' = "parse" /\ parsed' = [parsed EXCEPT !.version = version]
        /\ todo' = FieldsOf(version) /\ record' = Tail(record)
    BY <1>4, <2>7 DEF Probe, Consume
  <2>9. parsed' = NoParameters
    <3>1. NoParameters.version = 3
      BY DEF NoParameters
    <3>2. NoParameters = [x \in Names |-> NoParameters[x]]
      BY DEF NoParameters, Names
    <3>3. "version" \in Names
      BY DEF Names
    <3> DEFINE none == NoParameters
    <3> HIDE DEF none
    <3>4. [none EXCEPT !.version = 3] = none
      BY <3>1, <3>2, <3>3 DEF none
    <3> QED BY <1>2, <2>7, <2>8, <3>4 DEF none
  <2>10. parsed' = Expected(s, 0, DefaultTransition, <<>>, <<>>)
    BY <2>9, NothingRead
  <2>11. todo' = After(Fields, 0)
    <3>1. FieldsOf(3) = Fields /\ Fields \in Seq(Entries)
      BY FieldsAre
    <3>2. After(Fields, 0) = Fields
      BY <3>1, AfterNone
    <3> QED BY <2>7, <2>8, <3>1, <3>2
  <2>12. record' = After(Three(s), 0 + 1) \o (Deltas(s) \o FromNine(s))
    BY <2>6, <2>8 DEF a, b
  <2>13. HeadShape(s, 0)'
    BY <1>3, <2>10, <2>11, <2>12 DEF HeadShape
  <2>14. Stage(s)'
    BY <2>13 DEF Stage
  <2> QED BY <1>1, <1>2, <1>4, <2>8, <2>14 DEF RecordInvOf
<1>5. CASE ~intact
  <2>1. CASE (version >= 3 => intact) /\ version \in {0, 1, 3}
    <3>1. version \in {0, 1}
      BY <1>5, <2>1
    <3>2. phase' = "parse" /\ parsed' = [parsed EXCEPT !.version = version]
      BY <2>1 DEF Probe
    <3>3. "version" \in DOMAIN parsed
      BY <1>2 DEF NoParameters
    <3>4. Legacy'
      BY <3>1, <3>2, <3>3 DEF Legacy
    <3> QED BY <1>1, <1>2, <1>5, <3>2, <3>4 DEF RecordInvOf
  <2>2. CASE ~((version >= 3 => intact) /\ version \in {0, 1, 3})
    <3>1. phase' = "refused"
      BY <2>2 DEF Probe, Refuse
    <3> QED BY <1>1, <1>5, <3>1 DEF RecordInvOf
  <2> QED BY <2>1, <2>2
<1> QED BY <1>4, <1>5

\* What a step that reads has to show.
LEMMA Reads ==
  ASSUME NEW s \in Streams, stream = s, RecordInvOf(s), phase = "parse",
         UNCHANGED <<stream, intact>>, phase' \in {"parse", "refused"},
         intact => phase' = phase /\ Stage(s)',
         ~intact /\ phase' = "parse" => Legacy'
  PROVE  RecordInvOf(s)' /\ stream' = s
<1>1. Writable(s)
  BY DEF RecordInvOf
<1>2. CASE intact
  BY <1>1, <1>2 DEF RecordInvOf
<1>3. CASE ~intact
  BY <1>1, <1>3 DEF RecordInvOf
<1> QED BY <1>2, <1>3

\* No field changes the version.
LEMMA ParsedLegacy ==
  ASSUME Legacy, NEW field \in Numbers \cup Flags, NEW number, parsed' = Parsed(field, number)
  PROVE  Legacy'
<1>1. field # "version"
  BY DEF Numbers, Flags
<1>2. DOMAIN Parsed(field, number) = DOMAIN parsed
      /\ Parsed(field, number)["version"] = parsed["version"]
  <2>1. CASE field = "coder"
    BY <2>1 DEF Parsed, Flags, Legacy
  <2>2. CASE field = "bits"
    BY <2>2 DEF Parsed, Flags, Legacy
  <2>3. CASE field \in {"h", "v"}
    BY <2>3 DEF Parsed, Flags, Legacy
  <2>4. CASE field = "set_count"
    BY <2>4 DEF Parsed, Flags, Legacy
  <2>5. CASE field \in Flags \cup {"ec", "intra"}
    BY <2>5 DEF Parsed, Flags, Legacy
  <2>6. CASE field \notin {"coder", "bits", "h", "v", "set_count"} \cup Flags \cup {"ec", "intra"}
    BY <1>1, <2>6 DEF Parsed, Flags, Legacy
  <2> QED BY <2>1, <2>2, <2>3, <2>4, <2>5, <2>6
<1> QED BY <1>2 DEF Legacy

\* reading a field,
LEMMA ReadFieldStep ==
  ASSUME NEW s \in Streams, stream = s, RecordInvOf(s), NEW field \in Numbers \cup Flags,
         NEW kind, NEW number \in Readable(kind, 0), ReadField(field, number)
  PROVE  RecordInvOf(s)' /\ stream' = s
<1>1. /\ phase = "parse" /\ UNCHANGED <<stream, intact>> /\ phase' \in {"parse", "refused"}
      /\ phase' = "parse" => parsed' = Parsed(field, number)
  BY DEF ReadField, Parsing, Refuse
<1>2. intact => phase' = phase /\ Stage(s)'
  <2>1. Good(s) /\ (intact => Stage(s))
    BY <1>1 DEF RecordInvOf, Good
  <2> QED BY <2>1, ReadFieldIntact
<1>3. ~intact /\ phase' = "parse" => Legacy'
  <2>1. ~intact => Legacy
    BY <1>1 DEF RecordInvOf
  <2> QED BY <1>1, <2>1, ParsedLegacy
<1> QED BY <1>1, <1>2, <1>3, Reads

\* an entry of the transition table,
LEMMA ReadDeltaStep ==
  ASSUME NEW s \in Streams, stream = s, RecordInvOf(s),
         NEW delta \in Readable("signed", 0), ReadDelta(delta)
  PROVE  RecordInvOf(s)' /\ stream' = s
<1>1. phase = "parse" /\ UNCHANGED <<stream, intact>> /\ phase' \in {"parse", "refused"}
  BY DEF ReadDelta, Parsing, Refuse
<1>2. intact => phase' = phase /\ Stage(s)'
  <2>1. Good(s) /\ (intact => Stage(s))
    BY <1>1 DEF RecordInvOf, Good
  <2> QED BY <2>1, ReadDeltaIntact
<1>3. ~intact /\ phase' = "parse" => Legacy'
  <2>1. ~intact => Legacy
    BY <1>1 DEF RecordInvOf
  <2>2. phase' = "parse" =>
          \E f : parsed' = [parsed EXCEPT !.transition = f]
    BY DEF ReadDelta, Refuse
  <2> QED BY <2>1, <2>2 DEF Legacy
<1> QED BY <1>1, <1>2, <1>3, Reads

\* a run of a quantization table,
LEMMA ReadTableStep ==
  ASSUME NEW s \in Streams, stream = s, RecordInvOf(s),
         NEW number \in Readable("unsigned", -table), ReadTable(number)
  PROVE  RecordInvOf(s)' /\ stream' = s
<1>1. phase = "parse" /\ UNCHANGED <<stream, phase, intact, parsed>>
  BY DEF ReadTable, Parsing
<1>2. intact => phase' = phase /\ Stage(s)'
  <2>1. Good(s) /\ (intact => Stage(s))
    BY <1>1 DEF RecordInvOf, Good
  <2> QED BY <2>1, ReadTableIntact
<1>3. ~intact /\ phase' = "parse" => Legacy'
  BY <1>1 DEF RecordInvOf, Legacy
<1> QED BY <1>1, <1>2, <1>3, Reads

\* ending a table,
LEMMA CloseTableStep ==
  ASSUME NEW s \in Streams, stream = s, RecordInvOf(s), CloseTable
  PROVE  RecordInvOf(s)' /\ stream' = s
<1>1. phase = "parse" /\ UNCHANGED <<stream, phase, intact, parsed>>
  BY DEF CloseTable, Parsing
<1>2. intact => phase' = phase /\ Stage(s)'
  <2>1. Good(s) /\ (intact => Stage(s))
    BY <1>1 DEF RecordInvOf, Good
  <2> QED BY <2>1, CloseTableIntact
<1>3. ~intact /\ phase' = "parse" => Legacy'
  BY <1>1 DEF RecordInvOf, Legacy
<1> QED BY <1>1, <1>2, <1>3, Reads

\* keeping a set,
LEMMA AppendSetStep ==
  ASSUME NEW s \in Streams, stream = s, RecordInvOf(s), AppendSet
  PROVE  RecordInvOf(s)' /\ stream' = s
<1>1. /\ phase = "parse" /\ UNCHANGED <<stream, phase, intact>>
      /\ \E f : parsed' = [parsed EXCEPT !.sets = f]
  BY DEF AppendSet, Parsing
<1>2. intact => phase' = phase /\ Stage(s)'
  <2>1. Good(s) /\ (intact => Stage(s))
    BY <1>1 DEF RecordInvOf, Good
  <2> QED BY <2>1, AppendSetIntact
<1>3. ~intact /\ phase' = "parse" => Legacy'
  BY <1>1 DEF RecordInvOf, Legacy
<1> QED BY <1>1, <1>2, <1>3, Reads

\* refusing one,
LEMMA RefuseSetStep ==
  ASSUME NEW s \in Streams, stream = s, RecordInvOf(s), RefuseSet
  PROVE  RecordInvOf(s)' /\ stream' = s
<1>1. phase = "parse" /\ phase' = "refused" /\ UNCHANGED <<stream, intact>>
  BY DEF RefuseSet, Refuse, Parsing
<1>2. intact => ~WithinContexts(s)
  <2>1. Good(s) /\ (intact => Stage(s))
    BY <1>1 DEF RecordInvOf, Good
  <2> QED BY <2>1, RefuseSetIntact
<1> QED BY <1>1, <1>2 DEF RecordInvOf

\* reading whether there are states,
LEMMA ReadStatesCodedStep ==
  ASSUME NEW s \in Streams, stream = s, RecordInvOf(s),
         NEW flag \in Readable("bool", 0), ReadStatesCoded(flag)
  PROVE  RecordInvOf(s)' /\ stream' = s
<1>1. phase = "parse" /\ UNCHANGED <<stream, phase, intact, parsed>>
  BY DEF ReadStatesCoded, Parsing
<1>2. intact => phase' = phase /\ Stage(s)'
  <2>1. Good(s) /\ (intact => Stage(s))
    BY <1>1 DEF RecordInvOf, Good
  <2> QED BY <2>1, ReadStatesCodedIntact
<1>3. ~intact /\ phase' = "parse" => Legacy'
  BY <1>1 DEF RecordInvOf, Legacy
<1> QED BY <1>1, <1>2, <1>3, Reads

\* a state,
LEMMA ReadStateStep ==
  ASSUME NEW s \in Streams, stream = s, RecordInvOf(s), Parsing({"state"}),
         NEW delta \in Readable("signed", StateIndex), ReadState(delta)
  PROVE  RecordInvOf(s)' /\ stream' = s
<1>1. /\ phase = "parse" /\ UNCHANGED <<stream, phase, intact>>
      /\ \E f : parsed' = [parsed EXCEPT !.states = f]
  BY DEF ReadState, Parsing
<1>2. intact => phase' = phase /\ Stage(s)'
  <2>1. Good(s) /\ (intact => Stage(s))
    BY <1>1 DEF RecordInvOf, Good
  <2> QED BY <2>1, ReadStateIntact
<1>3. ~intact /\ phase' = "parse" => Legacy'
  BY <1>1 DEF RecordInvOf, Legacy
<1> QED BY <1>1, <1>2, <1>3, Reads

\* and handing over what was read.
LEMMA AcceptStep ==
  ASSUME NEW s \in Streams, stream = s, RecordInvOf(s), Accept
  PROVE  RecordInvOf(s)' /\ stream' = s
<1>1. phase = "parse" /\ phase' = "accepted" /\ UNCHANGED <<stream, intact, parsed>>
  BY DEF Accept
<1>2. intact => parsed' = Recorded(s) /\ record' = <<>>
  <2>1. Good(s) /\ (intact => Stage(s))
    BY <1>1 DEF RecordInvOf, Good
  <2> QED BY <2>1, AcceptIntact
<1> QED BY <1>1, <1>2 DEF RecordInvOf, Legacy

\* A stutter changes no stage.
LEMMA StageSame ==
  ASSUME NEW s, Stage(s), UNCHANGED <<tablesVars, record, todo, parsed>>
  PROVE  Stage(s)'
<1>1. /\ record' = record /\ todo' = todo /\ parsed' = parsed
      /\ tables' = tables /\ table' = table /\ k' = k /\ value' = value /\ scale' = scale
      /\ contexts' = contexts /\ verdict' = verdict
  BY DEF tablesVars
<1>2. FreshTables => FreshTables'
  BY <1>1 DEF FreshTables, ZeroTables
<1>3. ASSUME NEW j, HeadShape(s, j)
      PROVE  HeadShape(s, j)'
  BY <1>1, <1>2, <1>3 DEF HeadShape
<1>4. ASSUME NEW c, DeltaShape(s, c)
      PROVE  DeltaShape(s, c)'
  BY <1>1, <1>2, <1>4 DEF DeltaShape
<1>5. ASSUME NEW j, NineShape(s, j)
      PROVE  NineShape(s, j)'
  BY <1>1, <1>2, <1>5 DEF NineShape
<1>6. ASSUME NEW c, CodedShape(s, c)
      PROVE  CodedShape(s, c)'
  BY <1>1, <1>6 DEF CodedShape
<1>7. ASSUME NEW c, NEW q, StateShape(s, c, q)
      PROVE  StateShape(s, c, q)'
  BY <1>1, <1>7 DEF StateShape
<1>8. ASSUME NEW j, EndShape(s, j)
      PROVE  EndShape(s, j)'
  BY <1>1, <1>8 DEF EndShape
<1>9. ASSUME NEW c, SetStage(s, c)
      PROVE  SetStage(s, c)'
  <2> DEFINE set == s.sets[c + 1]
             behind == BehindSets(s, c + 1)
  <2>1. SetsRead(s, c)'
    BY <1>1, <1>9 DEF SetsRead, SetStage
  <2>2. TableStage(set, behind)
    BY <1>9 DEF SetStage
  <2> HIDE DEF set, behind
  <2>3. InTable(set, behind) => InTable(set, behind)'
    BY <1>1 DEF InTable
  <2>4. BehindTables(set, behind) => BehindTables(set, behind)'
    BY <1>1 DEF BehindTables
  <2>5. TooManyContexts(set) => TooManyContexts(set)'
    BY <1>1 DEF TooManyContexts
  <2>6. TableStage(set, behind)'
    BY <2>2, <2>3, <2>4, <2>5 DEF TableStage
  <2> QED BY <1>9, <2>1, <2>6 DEF SetStage, set, behind
<1> QED BY <1>3, <1>4, <1>5, <1>6, <1>7, <1>8, <1>9 DEF Stage

\* Every step keeps the invariant,
LEMMA RecordInvKept == RecordInv /\ [Next]_vars => RecordInv'
<1> SUFFICES ASSUME RecordInv, [Next]_vars
             PROVE  RecordInv'
  OBVIOUS
<1>1. PICK s \in Streams : stream = s /\ RecordInvOf(s)
  BY DEF RecordInv
<1>2. CASE Write \/ RefuseToWrite
  BY <1>1, <1>2, WriteStep DEF RecordInv
<1>3. CASE Deliver
  BY <1>1, <1>3, DeliverStep DEF RecordInv
<1>4. ASSUME NEW number \in Readable("unsigned", 0), Probe(number)
      PROVE  RecordInv'
  BY <1>1, <1>4, ProbeStep DEF RecordInv
<1>5. ASSUME NEW kind, NEW number \in Readable(kind, 0), NEW field \in Numbers \cup Flags,
             ReadField(field, number)
      PROVE  RecordInv'
  BY <1>1, <1>5, ReadFieldStep DEF RecordInv
<1>6. ASSUME NEW number \in Readable("bool", 0), ReadStatesCoded(number)
      PROVE  RecordInv'
  BY <1>1, <1>6, ReadStatesCodedStep DEF RecordInv
<1>7. ASSUME NEW delta \in Readable("signed", 0), ReadDelta(delta)
      PROVE  RecordInv'
  BY <1>1, <1>7, ReadDeltaStep DEF RecordInv
<1>8. ASSUME NEW number \in Readable("unsigned", -table), ReadTable(number)
      PROVE  RecordInv'
  BY <1>1, <1>8, ReadTableStep DEF RecordInv
<1>9. CASE CloseTable
  BY <1>1, <1>9, CloseTableStep DEF RecordInv
<1>10. CASE AppendSet
  BY <1>1, <1>10, AppendSetStep DEF RecordInv
<1>11. CASE RefuseSet
  BY <1>1, <1>11, RefuseSetStep DEF RecordInv
<1>12. ASSUME Parsing({"state"}), NEW delta \in Readable("signed", StateIndex), ReadState(delta)
       PROVE  RecordInv'
  BY <1>1, <1>12, ReadStateStep DEF RecordInv
<1>13. CASE Accept
  BY <1>1, <1>13, AcceptStep DEF RecordInv
<1>14. CASE UNCHANGED vars
  <2>1. stream' = s /\ phase' = phase /\ record' = record /\ intact' = intact /\ todo' = todo
        /\ parsed' = parsed /\ UNCHANGED tablesVars
    BY <1>1, <1>14 DEF vars
  <2>2. phase = "parse" /\ intact => Stage(s)'
    <3>1. Stage(s) => Stage(s)'
      BY <2>1, StageSame
    <3> QED BY <1>1, <3>1 DEF RecordInvOf
  <2>3. FreshTables => FreshTables'
    BY <2>1 DEF FreshTables, tablesVars, ZeroTables
  <2>4. Legacy => Legacy'
    BY <2>1 DEF Legacy
  <2>5. RecordInvOf(s)'
    BY <1>1, <2>1, <2>2, <2>3, <2>4 DEF RecordInvOf
  <2> QED BY <2>1, <2>5 DEF RecordInv
<1>15. CASE Finished
  BY <1>14, <1>15 DEF Finished
<1> QED BY <1>2, <1>3, <1>4, <1>5, <1>6, <1>7, <1>8, <1>9, <1>10, <1>11, <1>12, <1>13, <1>14, <1>15
        DEF Next

\* which holds at the beginning
LEMMA RecordInvInit == Init => RecordInv
<1> SUFFICES ASSUME Init
             PROVE  RecordInv
  OBVIOUS
<1>1. PICK s \in Streams : stream = s
  BY DEF Init
<1>2. phase = "write" /\ parsed = NoParameters /\ FreshTables
  BY DEF Init, InitTables, FreshTables
<1>3. RecordInvOf(s)
  BY <1>2 DEF RecordInvOf
<1> QED BY <1>1, <1>3 DEF RecordInv

\* and says what the round trip does.
LEMMA RecordInvShows == RecordInv => RecordRoundTrip
<1> SUFFICES ASSUME RecordInv
             PROVE  RecordRoundTrip
  OBVIOUS
<1>1. PICK s \in Streams : stream = s /\ RecordInvOf(s)
  BY DEF RecordInv
<1> QED BY <1>1 DEF RecordInvOf, RecordRoundTrip, Legacy

\* Whatever the parameters a writer takes, however many sets, contexts and
\* initial states they have: the record is read back as they were, to its last
\* symbol, and refused for more contexts than a reader allows at most
\* (configuration_record_writer.cpp:235, configuration_parser.cpp:50).
THEOREM RecordAlwaysRoundTrips == Spec => []RecordRoundTrip
<1>1. Init => RecordInv
  BY RecordInvInit
<1>2. RecordInv /\ [Next]_vars => RecordInv'
  BY RecordInvKept
<1>3. RecordInv => RecordRoundTrip
  BY RecordInvShows
<1> QED BY <1>1, <1>2, <1>3, PTL DEF Spec
=============================================================================
