------------------------- MODULE ConfigurationRecord -------------------------
(***************************************************************************)
(* The configuration record: what ConfigurationRecordWriter puts into it   *)
(* symbol by symbol, and ConfigurationParser reading it, or the parameters *)
(* of a legacy stream, one symbol after the other.                         *)
(***************************************************************************)
EXTENDS QuantTables, Sequences, SequencesExt, FiniteSets

CONSTANTS
  Streams,             \* the parameters a writer is given
  DefaultTransition,   \* kDefaultStateTransition without its first entry
  StateCount,          \* initial states of a context: 32
  Byte,                \* values of a std::uint8_t: 256
  Word,                \* values of a std::uint32_t
  MaxInt,              \* the largest int
  Damaged,             \* bound: those whose record may be damaged
  Garbage              \* values that are read from a damaged record

\* StreamParameters: numbers of slices are 32 bits wide, states one byte.
Parameters ==
  [version : Int, micro_version : Int, entropy : {"range", "golomb_rice"},
   transition : [DOMAIN DefaultTransition -> 0..(Byte - 1)],
   colorspace : Int, bits : Nat, chroma : BOOLEAN, log2_h : Nat, log2_v : Nat,
   extra : BOOLEAN, h : 0..(Word - 1), v : 0..(Word - 1),
   sets : Seq([tables : [Inputs -> [Positions -> Int]], contexts : Nat]),
   states : Seq(Seq(0..(Byte - 1))), ec : BOOLEAN, intra : BOOLEAN]

ASSUME RecordAssumption ==
  /\ Byte \in Nat /\ Byte >= 2
  /\ DefaultTransition \in Seq(0..(Byte - 1))
  /\ StateCount \in Nat \ {0}
  /\ Word \in Nat /\ Word > MaxContexts
  /\ MaxEntry >= MaxContexts
  /\ MaxInt \in Nat /\ MaxInt >= 4
  /\ Garbage \subseteq Int
  /\ Streams \subseteq Parameters

\* StreamParameters as they are constructed; the raster is not in the record.
\* states[n] holds the initial states of all contexts of a set, in a row.
NoParameters ==
  [version |-> 3, micro_version |-> 0, entropy |-> "range",
   transition |-> DefaultTransition, colorspace |-> 0, bits |-> 8,
   chroma |-> TRUE, log2_h |-> 0, log2_v |-> 0, extra |-> FALSE,
   h |-> 1, v |-> 1, sets |-> <<>>, states |-> <<>>, ec |-> FALSE, intra |-> FALSE]

InvalidRgb(s) == s.colorspace = 1 /\ (~s.chroma \/ s.log2_h # 0 \/ s.log2_v # 0)
-----------------------------------------------------------------------------
\* A symbol, and the context it is coded with: that of a state index, or the
\* one of its own that a quantization table begins.
U(number) == <<"unsigned", 0, number>>
B(flag) == <<"bool", 0, IF flag THEN 1 ELSE 0>>
S(context, delta) == <<"signed", context, delta>>
Run(i, length) == <<"unsigned", -i, length - 1>>

CustomTransition(s) == s.entropy = "range" /\ s.transition # DefaultTransition

\* Distinct entries of the coded half, which are its runs.
RunsOf(entries) == Cardinality({entries[p] : p \in 0..(Half - 1)})

\* Scales(set)[i] is that of the i-th table, and the last one that of the set.
Scales(set) ==
  LET at[i \in 1..6] == IF i = 1 THEN 1 ELSE at[i - 1] * Multiplier(RunsOf(set.tables[i - 1]))
  IN at

Encodable(entries, by) ==
  /\ entries = Mirrored(entries)
  /\ entries[0] = 0
  /\ \A p \in 1..(Half - 1) : entries[p] - entries[p - 1] \in {0, by}

EncodableSet(set) ==
  /\ \A i \in Inputs : Encodable(set.tables[i], Scales(set)[i])
  /\ set.contexts = ContextCount(Scales(set)[6]) % Word

\* Whether the writer takes the parameters: validate_initial_profile, and what
\* it only notices while it writes the tables.
Writable(s) ==
  /\ s.version = 3 /\ s.micro_version = 4
  /\ s.colorspace \in {0, 1} /\ s.bits \in 1..16
  /\ ~InvalidRgb(s)
  /\ s.chroma \/ (s.log2_h = 0 /\ s.log2_v = 0)
  /\ s.log2_h <= 1 /\ s.log2_v <= s.log2_h
  /\ s.h > 0 /\ s.v > 0
  /\ Len(s.sets) \in 1..8
  /\ \A n \in DOMAIN s.sets : s.sets[n].contexts > 0
  /\ s.states # <<>> => Len(s.states) = Len(s.sets)
  /\ \A n \in DOMAIN s.states :
       s.states[n] # <<>> => Len(s.states[n]) = StateCount * s.sets[n].contexts
  /\ \A n \in DOMAIN s.sets : EncodableSet(s.sets[n])

\* write_quant_table: the lengths of the runs, less one.
WrittenTable(set, i) ==
  [n \in 1..RunsOf(set.tables[i]) |->
     LET run == {p \in 0..(Half - 1) : set.tables[i][p] = Scales(set)[i] * (n - 1)}
     IN Run(i, Cardinality(run))]

WrittenSet(set) == FlattenSeq([i \in Inputs |-> WrittenTable(set, i)])

\* The state an initial state is written as a difference to.
Prediction(states, j) == IF j <= StateCount THEN Byte \div 2 ELSE states[j - StateCount]

WrittenStates(states) ==
  <<B(states # <<>>)>>
    \o [j \in DOMAIN states |-> S((j - 1) % StateCount, states[j] - Prediction(states, j))]

Coder(s) == CASE s.entropy = "golomb_rice" -> 0
              [] CustomTransition(s) -> 2
              [] OTHER -> 1

\* ConfigurationRecordWriter::write_parameters
Written(s) ==
  <<U(3), U(4), U(Coder(s))>>
  \o (IF CustomTransition(s)
      THEN [n \in DOMAIN DefaultTransition |-> S(0, s.transition[n] - DefaultTransition[n])]
      ELSE <<>>)
  \o <<U(s.colorspace), U(s.bits), B(s.chroma), U(s.log2_h), U(s.log2_v), B(s.extra),
       U(s.h - 1), U(s.v - 1), U(Len(s.sets))>>
  \o FlattenSeq([n \in DOMAIN s.sets |-> WrittenSet(s.sets[n])])
  \o FlattenSeq([n \in DOMAIN s.sets |->
                   WrittenStates(IF s.states = <<>> THEN <<>> ELSE s.states[n])])
  \o <<U(IF s.ec THEN 1 ELSE 0), U(IF s.intra THEN 1 ELSE 0)>>
-----------------------------------------------------------------------------
VARIABLES
  stream,   \* the parameters of the writer
  phase,    \* write, deliver, probe, parse, accepted or refused
  record,   \* the symbols not yet read
  intact,   \* the CRC over the record is still right
  todo,     \* the fields not yet read, each with an index
  parsed    \* the parameters read so far

vars == <<tablesVars, stream, phase, record, intact, todo, parsed>>

Init ==
  /\ InitTables
  /\ stream \in Streams
  /\ phase = "write"
  /\ record = <<>>
  /\ intact = TRUE
  /\ todo = <<>>
  /\ parsed = NoParameters

Write ==
  /\ phase = "write" /\ Writable(stream)
  /\ record' = Written(stream)
  /\ phase' = "deliver"
  /\ UNCHANGED <<tablesVars, stream, intact, todo, parsed>>

RefuseToWrite ==
  /\ phase = "write" /\ ~Writable(stream)
  /\ phase' = "refused"
  /\ UNCHANGED <<tablesVars, stream, record, intact, todo, parsed>>

\* Damage leaves nothing of the symbols behind it as it was.
Deliver ==
  /\ phase = "deliver"
  /\ intact' \in (IF stream \in Damaged THEN BOOLEAN ELSE {TRUE})
  /\ record' = IF intact' THEN record ELSE <<>>
  /\ phase' = "probe"
  /\ UNCHANGED <<tablesVars, stream, todo, parsed>>

Times(field, n) == [i \in 1..n |-> <<field, i>>]

\* What follows the version, which decides about most of it.
NamesOf(version) ==
  IF version >= 3
  THEN <<"micro_version", "coder", "colorspace", "bits", "chroma", "log2_h", "log2_v", "extra",
         "h", "v", "set_count", "ec", "intra">>
  ELSE <<"coder", "colorspace">> \o (IF version >= 1 THEN <<"bits">> ELSE <<>>)
         \o <<"chroma", "log2_h", "log2_v", "extra", "set">>

FieldsOf(version) == [n \in DOMAIN NamesOf(version) |-> <<NamesOf(version)[n], 0>>]

\* Fields that a field brings with it, in front of those that were to follow.
FieldsBehind(field, number) ==
  CASE field = "coder" /\ number = 2 -> Times("delta", Len(DefaultTransition))
    [] field = "set_count" -> Times("set", number) \o Times("coded", number)
    [] OTHER -> <<>>

Flags == {"chroma", "extra"}
Numbers == {"micro_version", "coder", "colorspace", "bits", "log2_h", "log2_v",
            "h", "v", "set_count", "ec", "intra"}

Acceptable(field, number) ==
  CASE field = "micro_version" -> number >= 4 /\ number <= MaxInt
    [] field = "coder" -> number \in 0..2
    [] field = "colorspace" -> number \in {0, 1}
    [] field = "bits" -> number <= 16
    [] field \in {"log2_h", "log2_v"} -> number < Byte
    [] field \in {"h", "v"} -> number < Word - 1
    [] field = "set_count" -> number \in 1..8
    [] field \in {"ec", "intra"} -> number <= 1
    [] OTHER -> TRUE

\* The parameters with a field read into them.
Parsed(field, number) ==
  CASE field = "coder" ->
         [parsed EXCEPT !.entropy = IF number = 0 THEN "golomb_rice" ELSE "range"]
    [] field = "bits" -> [parsed EXCEPT !.bits = IF number = 0 THEN 8 ELSE number]
    [] field \in {"h", "v"} -> [parsed EXCEPT ![field] = number + 1]
    [] field = "set_count" -> [parsed EXCEPT !.states = [n \in 1..number |-> <<>>]]
    [] field \in Flags \cup {"ec", "intra"} -> [parsed EXCEPT ![field] = number = 1]
    [] OTHER -> [parsed EXCEPT ![field] = number]
-----------------------------------------------------------------------------
\* What reading a symbol may give: that which was written, if it was written the
\* way it is read, and anything if the record is damaged.
Readable(kind, context) ==
  IF intact
  THEN IF record # <<>> /\ Head(record)[1] = kind /\ Head(record)[2] = context
       THEN {Head(record)[3]} ELSE {}
  ELSE CASE kind = "signed" -> Garbage
         [] kind = "bool" -> {0, 1}
         [] kind = "unsigned" -> Garbage \cap Nat

Consume == record' = IF intact THEN Tail(record) ELSE record

Refuse ==
  /\ phase' = "refused"
  /\ UNCHANGED <<stream, record, intact, todo, parsed>>

\* ConfigurationRecordParser::parse: only records of version 3 end in a CRC.
Probe(version) ==
  /\ phase = "probe"
  /\ IF (version >= 3 => intact) /\ version \in {0, 1, 3}
     THEN /\ phase' = "parse"
          /\ parsed' = [parsed EXCEPT !.version = version]
          /\ todo' = FieldsOf(version)
          /\ Consume
          /\ UNCHANGED <<stream, intact>>
     ELSE Refuse
  /\ UNCHANGED tablesVars

Parsing(fields) == phase = "parse" /\ todo # <<>> /\ Head(todo)[1] \in fields

Index == Head(todo)[2]

ReadField(field, number) ==
  /\ Parsing({field})
  /\ IF Acceptable(field, number) /\ (field = "extra" => ~InvalidRgb(Parsed(field, number)))
     THEN /\ parsed' = Parsed(field, number)
          /\ todo' = FieldsBehind(field, number) \o Tail(todo)
          /\ Consume
          /\ UNCHANGED <<stream, phase, intact>>
     ELSE Refuse
  /\ UNCHANGED tablesVars

ReadDelta(delta) ==
  LET transition == DefaultTransition[Index] + delta
  IN /\ Parsing({"delta"})
     /\ IF transition \in 0..(Byte - 1)
        THEN /\ parsed' = [parsed EXCEPT !.transition[Index] = transition]
             /\ todo' = Tail(todo)
             /\ Consume
             /\ UNCHANGED <<stream, phase, intact>>
        ELSE Refuse
     /\ UNCHANGED tablesVars

ReadTable(len_minus_one) ==
  /\ Parsing({"set"})
  /\ \/ ReadRun(len_minus_one) /\ Consume
     \/ RefuseRun(len_minus_one) /\ record' = record
  /\ UNCHANGED <<stream, phase, intact, todo, parsed>>

CloseTable ==
  /\ Parsing({"set"})
  /\ EndTable \/ EndSet
  /\ UNCHANGED <<stream, phase, record, intact, todo, parsed>>

AppendSet ==
  /\ Parsing({"set"}) /\ verdict = "read"
  /\ parsed' = [parsed EXCEPT
                  !.sets = Append(@, [tables |-> tables, contexts |-> contexts])]
  /\ todo' = Tail(todo)
  /\ tables' = ZeroTables
  /\ table' = 1 /\ scale' = 1 /\ contexts' = 0 /\ verdict' = "reading"
  /\ UNCHANGED <<k, value>>
  /\ UNCHANGED <<stream, phase, record, intact>>

RefuseSet ==
  /\ Parsing({"set"}) /\ verdict = "refused"
  /\ Refuse
  /\ UNCHANGED tablesVars

ReadStatesCoded(flag) ==
  /\ Parsing({"coded"})
  /\ todo' = (IF flag = 1
              THEN [j \in 1..(parsed.sets[Index].contexts * StateCount) |-> <<"state", Index>>]
              ELSE <<>>) \o Tail(todo)
  /\ Consume
  /\ UNCHANGED <<tablesVars, stream, phase, intact, parsed>>

\* Deviation: the first state of the second context is not predicted.
PredictedLate(states) ==
  IF Len(states) <= StateCount THEN Byte \div 2 ELSE states[Len(states) + 1 - StateCount]

\* The state a difference is added to: that of the context in front.
Predicted(states) ==
  IF Len(states) < StateCount THEN Byte \div 2 ELSE states[Len(states) + 1 - StateCount]

StateIndex == Len(parsed.states[Index]) % StateCount

ReadState(delta) ==
  /\ Parsing({"state"})
  /\ parsed' = [parsed EXCEPT !.states[Index] = Append(@, (Predicted(@) + delta) % Byte)]
  /\ todo' = Tail(todo)
  /\ Consume
  /\ UNCHANGED <<tablesVars, stream, phase, intact>>

Accept ==
  /\ phase = "parse" /\ todo = <<>>
  /\ phase' = "accepted"
  /\ UNCHANGED <<tablesVars, stream, record, intact, todo, parsed>>

Finished ==
  /\ phase \in {"accepted", "refused"}
  /\ UNCHANGED vars

Next ==
  \/ Write \/ RefuseToWrite \/ Deliver
  \/ \E number \in Readable("unsigned", 0) :
       Probe(number) \/ \E field \in Numbers : ReadField(field, number)
  \/ \E number \in Readable("bool", 0) :
       ReadStatesCoded(number) \/ \E field \in Flags : ReadField(field, number)
  \/ \E delta \in Readable("signed", 0) : ReadDelta(delta)
  \/ \E number \in Readable("unsigned", -table) : ReadTable(number)
  \/ CloseTable \/ AppendSet \/ RefuseSet
  \/ Parsing({"state"}) /\ \E delta \in Readable("signed", StateIndex) : ReadState(delta)
  \/ Accept \/ Finished

Spec == Init /\ [][Next]_vars
-----------------------------------------------------------------------------
\* What a record says of the parameters: without the transition table of
\* Golomb-Rice streams, and with an empty set of states for each set of tables.
Recorded(s) ==
  [s EXCEPT !.transition = IF s.entropy = "range" THEN @ ELSE DefaultTransition,
            !.states = IF @ = <<>> THEN [n \in DOMAIN s.sets |-> <<>>] ELSE @]

\* Whether the derived numbers of contexts are ones a reader allows; the writer
\* has no such limit.
WithinContexts(s) == \A n \in DOMAIN s.sets : ContextCount(Scales(s.sets[n])[6]) <= MaxContexts

\* The two ends agree about every symbol: the parameters of a record are read
\* back, equivalent to the ones it was written from and to the last symbol, and
\* a record that arrives whole is not refused.  A damaged one is taken for the
\* parameters of a legacy stream at most, which has no CRC of its own
\* (configuration_record_writer.cpp:235, configuration_parser.cpp:50).
RecordRoundTrip ==
  /\ phase = "accepted" =>
       \/ parsed = Recorded(stream) /\ record = <<>>
       \/ ~intact /\ parsed.version < 3
  /\ phase = "refused" /\ intact => ~Writable(stream) \/ ~WithinContexts(stream)
=============================================================================
