----------------------------- MODULE QuantTables -----------------------------
(***************************************************************************)
(* Reading one set of quantization tables (ConfigurationParser): the first *)
(* half of each table is a sequence of run lengths, the second its mirror  *)
(* image, and the number of contexts follows from the numbers of runs.     *)
(* ContextModel later adds up one entry of each of the five tables.        *)
(***************************************************************************)
EXTENDS Integers

CONSTANTS
  Half,          \* entries that are coded of a table: 128 of 256
  MaxEntry,      \* the largest std::int32_t
  MaxContexts,   \* kMaxContextCount
  CodedRuns      \* the symbols a record may hold for a run (len_minus_one)

ASSUME QuantTablesAssumption ==
  /\ Half \in Nat /\ Half >= 2
  /\ MaxEntry \in Nat
  /\ MaxContexts \in Nat
  /\ CodedRuns \subseteq Nat

Inputs == 1..5                 \* kContextInputs
Positions == 0..(2 * Half - 1)

VARIABLES
  tables,     \* table_set.tables
  table,      \* the table being read, 6 behind the last
  k,          \* its entries read so far
  value,      \* its runs read so far
  scale,      \* what a run adds to the entries of this table
  contexts,   \* context_count, 0 until the set is read
  verdict     \* reading, read, or refused (SyntaxError)

tablesVars == <<tables, table, k, value, scale, contexts, verdict>>

ZeroTables == [i \in Inputs |-> [p \in Positions |-> 0]]

InitTables ==
  /\ tables = ZeroTables
  /\ table = 1
  /\ k = 0
  /\ value = 0
  /\ scale = 1
  /\ contexts = 0
  /\ verdict = "reading"

ReadingRuns == verdict = "reading" /\ table \in Inputs /\ k < Half

\* Only the very first run may not reach past the half; a later one is cut off.
RunRefused(coded) ==
  \/ k = 0 /\ coded >= Half
  \/ value > MaxEntry \div scale

RunEnd(coded) == IF coded + 1 < Half - k THEN k + coded + 1 ELSE Half

ReadRun(coded) ==
  /\ ReadingRuns
  /\ ~RunRefused(coded)
  /\ tables' = [tables EXCEPT ![table] =
                  [p \in Positions |-> IF p \in k..(RunEnd(coded) - 1)
                                       THEN scale * value ELSE tables[table][p]]]
  /\ k' = RunEnd(coded)
  /\ value' = value + 1
  /\ UNCHANGED <<table, scale, contexts, verdict>>

RefuseRun(coded) ==
  /\ ReadingRuns
  /\ RunRefused(coded)
  /\ verdict' = "refused"
  /\ UNCHANGED <<tables, table, k, value, scale, contexts>>

\* The second half; the entry in the middle has no counterpart and takes that
\* of its neighbour.
Mirrored(entries) ==
  [p \in Positions |-> IF p < Half THEN entries[p]
                       ELSE IF p = Half THEN -entries[Half - 1]
                       ELSE -entries[2 * Half - p]]

Multiplier(len_count) == 2 * len_count - 1

\* The overflow test of the scale is left out: five tables of at most 128 runs
\* multiply to less than 2^63.
EndTable ==
  /\ verdict = "reading" /\ table \in Inputs /\ k = Half
  /\ tables' = [tables EXCEPT ![table] = Mirrored(@)]
  /\ scale' = scale * Multiplier(value)
  /\ table' = table + 1
  /\ k' = 0
  /\ value' = 0
  /\ UNCHANGED <<contexts, verdict>>

\* Deviation: one context too few.
ContextCountOfHalf(product) == product \div 2

ContextCount(product) == (product + 1) \div 2

EndSet ==
  /\ verdict = "reading" /\ table \notin Inputs
  /\ IF ContextCount(scale) \in 1..MaxContexts
     THEN contexts' = ContextCount(scale) /\ verdict' = "read"
     ELSE contexts' = contexts /\ verdict' = "refused"
  /\ UNCHANGED <<tables, table, k, value, scale>>

NextTables ==
  \/ \E coded \in CodedRuns : ReadRun(coded) \/ RefuseRun(coded)
  \/ EndTable
  \/ EndSet

SpecTables == InitTables /\ [][NextTables]_tablesVars
-----------------------------------------------------------------------------
\* ContextModel::derive_context: the entries at the five differences, added up.
Folded(set, at) ==
  set[1][at[1]] + set[2][at[2]] + set[3][at[3]] + set[4][at[4]] + set[5][at[5]]

\* However five table entries are combined, the context they name is one of
\* the contexts the set was read with, on either side of zero: derive_context
\* never finds it outside (context_model.cpp:54), and the adaptive states
\* that are allocated by that count are never read past their end.
ContextsInRange ==
  verdict = "read" =>
    \A at \in [Inputs -> Positions] :
      Folded(tables, at) \in (-contexts + 1)..(contexts - 1)
=============================================================================
