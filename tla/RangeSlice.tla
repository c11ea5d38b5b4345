----------------------------- MODULE RangeSlice -----------------------------
(***************************************************************************)
(* The slices of one raster cell of a version 3 stream, frame after frame: *)
(* SliceEncoder::encode_slice codes header and content with one            *)
(* RangeEncoder and appends a footer, FrameParser reads the header over    *)
(* payload and footer, and SliceDecoder reads header and content over the  *)
(* payload without the footer.  With Golomb-Rice coding only the header is *)
(* range coded, and the body follows it.                                   *)
(***************************************************************************)
EXTENDS RangeEncoder, RangeCoder, FiniteSets

CONSTANTS
  Cells,         \* positions <<x, y>> of the slice in the raster
  Samples,       \* the sample differences that are coded
  MaxSamples,    \* bound: the samples of a slice
  MaxFrames,     \* bound: the frames of a GOP
  Bodies,        \* coded Golomb-Rice bodies, as bytes
  Checks,        \* what follows the size in a footer: nothing, or status and CRC
  None           \* no reference contexts

ASSUME SliceAssumption ==
  /\ Contexts = {"keyframe", "header", "content"}
  /\ Cells \subseteq Nat \X Nat
  /\ \A c \in Cells : Codable(c[1]) /\ Codable(c[2])
  /\ Samples \subseteq Int
  /\ \A sample \in Samples : Codable(sample)
  /\ MaxSamples \in Nat /\ MaxFrames \in Nat
  /\ Bodies \subseteq Seq(Byte) /\ Checks \subseteq Seq(Byte)

VARIABLES
  golomb,          \* stream_.entropy_mode == EntropyMode::GolombRice
  cell,            \* the raster cell
  pc,              \* encode, probe (FrameParser), decode (SliceDecoder), or between
  frames,          \* the frames coded since the keyframe
  script,          \* the symbols of the slice
  next,            \* the symbol that is being written or read
  coded,           \* how many of its decisions were written
  trace,           \* the decisions of the slice, each with the encoder it leaves
  footer,          \* the bytes of the footer
  slice,           \* the bytes of the slice before its footer
  racs,            \* the decisions read so far
  content_offset,  \* content_byte_offset, as FrameParser found it
  enc_contexts,    \* range_contexts of the encoder's SliceState
  dec_contexts     \* range_contexts of the decoder's SliceState

streamVars == <<golomb, cell>>
sliceVars == <<script, footer, slice>>
vars == <<streamVars, pc, frames, sliceVars, next, coded, trace, racs, content_offset,
          enc_contexts, dec_contexts, enc, payload, dec, parse>>

Symbol(context, kind, value) == [context |-> context, kind |-> kind, value |-> value]

\* Only slice 0 carries the keyframe flag.
First == cell = <<0, 0>>

Flag(keyframe) ==
  IF First THEN <<Symbol("keyframe", "bool", IF keyframe THEN 1 ELSE 0)>> ELSE <<>>

\* SliceHeaderWriter: x, y, width - 1, height - 1, one table index for luma and one
\* for chroma, picture_structure and the sample aspect ratio.
HeaderValues == <<cell[1], cell[2], 0, 0, 0, 0, 0, 0, 0>>

Header(keyframe) ==
  Flag(keyframe) \o [i \in DOMAIN HeaderValues |-> Symbol("header", "unsigned", HeaderValues[i])]

HeaderLength == Len(HeaderValues) + IF First THEN 1 ELSE 0

Content(samples) == [i \in DOMAIN samples |-> Symbol("content", "signed", samples[i])]

StatesFrom(contexts) ==
  [context \in Contexts |->
     IF context = "content" /\ contexts # None THEN contexts ELSE DefaultStates]

Init ==
  /\ golomb \in BOOLEAN
  /\ cell \in Cells
  /\ pc = "idle"
  /\ frames = 0
  /\ script = <<>> /\ trace = <<>>
  /\ footer = <<>> /\ slice = <<>> /\ payload = <<>>
  /\ next = 1 /\ coded = 0 /\ racs = 0 /\ content_offset = 0
  /\ enc_contexts = None /\ dec_contexts = None
  /\ enc = EncoderReset(StatesFrom(None))
  /\ dec = DecoderReset(<<0, 0>>, StatesFrom(None))
  /\ parse = StartOfSymbol("bool")
-----------------------------------------------------------------------------
(***************************************************************************)
(* encode_slice.                                                           *)
(***************************************************************************)
EncodeSlice(keyframe, samples) ==
  LET symbols == Header(keyframe) \o IF golomb THEN <<>> ELSE Content(samples)
      references == IF keyframe THEN None ELSE enc_contexts
  IN /\ pc = "idle"
     /\ keyframe \/ frames \in 1..(MaxFrames - 1)
     /\ frames' = IF keyframe THEN 1 ELSE frames + 1
     /\ script' = symbols
     /\ next' = 1
     /\ coded' = 0
     /\ enc' = EncoderReset(StatesFrom(references))
     /\ trace' = <<>>
     /\ pc' = "encode"
     /\ UNCHANGED <<streamVars, footer, slice, racs, content_offset, enc_contexts,
                    dec_contexts, payload, dec, parse>>

WriteDecision ==
  LET decisions == Decisions(script[next])
  IN /\ pc = "encode"
     /\ next <= Len(script)
     /\ WriteRac(script[next].context, decisions[coded + 1])
     /\ trace' = Append(trace, [symbol |-> next, decision |-> coded + 1, enc |-> enc'])
     /\ IF coded + 1 < Len(decisions)
        THEN coded' = coded + 1 /\ next' = next
        ELSE coded' = 0 /\ next' = next + 1
     /\ UNCHANGED <<streamVars, pc, frames, sliceVars, racs, content_offset,
                    enc_contexts, dec_contexts, payload, dec, parse>>

\* The header reader starts over payload and footer.
StartProbe(bytes) ==
  /\ payload' = bytes
  /\ dec' = DecoderReset(bytes, StatesFrom(None))
  /\ parse' = StartOfSymbol(script[1].kind)
  /\ next' = 1
  /\ racs' = 0

\* finalize_closed or, for Golomb-Rice, finalize and the body; then the footer.
\* SliceFooterWriter::append refuses a slice whose size has more than 24 bits.
FinishSlice(body, check) ==
  LET bytes == IF golomb THEN ExactBytes \o body ELSE ClosedBytes
      size == Len(bytes)
      tail == <<size \div 65536, (size \div 256) % 256, size % 256>> \o check
  IN /\ pc = "encode"
     /\ next > Len(script)
     /\ size < 16777216
     /\ enc_contexts' = IF golomb THEN enc_contexts ELSE enc.states["content"]
     /\ slice' = bytes
     /\ footer' = tail
     /\ StartProbe(bytes \o tail)
     /\ pc' = "probe"
     /\ UNCHANGED <<streamVars, frames, script, coded, trace, content_offset,
                    dec_contexts, enc>>
-----------------------------------------------------------------------------
(***************************************************************************)
(* Reading, by FrameParser and by SliceDecoder.                            *)
(***************************************************************************)
Complete == parse.stage \in {"done", "error"}

ReadDecision ==
  /\ pc \in {"probe", "decode"}
  /\ ~Complete
  /\ ReadRac(script[next].context)
  /\ racs' = racs + 1
  /\ UNCHANGED <<streamVars, pc, frames, sliceVars, next, coded, trace, content_offset,
                 enc_contexts, dec_contexts, enc, payload>>

\* How many symbols the reader of this pass reads.
ToRead == IF pc = "probe" THEN HeaderLength ELSE Len(script)

NextSymbol ==
  /\ pc \in {"probe", "decode"}
  /\ parse.stage = "done"
  /\ next < ToRead
  /\ next' = next + 1
  /\ parse' = StartOfSymbol(script[next + 1].kind)
  /\ UNCHANGED <<streamVars, pc, frames, sliceVars, coded, trace, racs, content_offset,
                 enc_contexts, dec_contexts, enc, payload, dec>>

\* Deviation: one byte is always taken for read ahead.
ContentPositionReadAhead == dec.byte_position - 1

\* golomb_rice_content_byte_position, and reader.byte_position()
ContentPosition ==
  IF golomb /\ dec.low % 256 # 0 THEN dec.byte_position - 1 ELSE dec.byte_position

\* Deviation: a keyframe is decoded with the contexts of the GOP before.
ReferencesKept == dec_contexts

References == IF frames = 1 THEN None ELSE dec_contexts

\* resolve_content_payload: "slice footer offset is before content"
HeaderRead ==
  /\ pc = "probe" /\ parse.stage = "done" /\ next = HeaderLength
  /\ content_offset' = ContentPosition
  /\ \/ /\ ContentPosition > Len(slice)
        /\ pc' = "refused"
        /\ UNCHANGED <<payload, dec, parse, next, racs>>
     \/ /\ ContentPosition <= Len(slice)
        /\ golomb
        /\ pc' = "body"
        /\ UNCHANGED <<payload, dec, parse, next, racs>>
     \/ /\ ContentPosition <= Len(slice)
        /\ ~golomb
        /\ pc' = "decode"
        /\ payload' = slice
        /\ dec' = DecoderReset(slice, StatesFrom(References))
        /\ parse' = StartOfSymbol(script[1].kind)
        /\ next' = 1
        /\ racs' = 0
  /\ UNCHANGED <<streamVars, frames, sliceVars, coded, trace, enc_contexts, dec_contexts, enc>>

\* capture_range_contexts of the decoder
SliceRead ==
  /\ \/ /\ pc = "decode" /\ parse.stage = "done" /\ next = Len(script)
        /\ dec_contexts' = dec.states["content"]
     \/ /\ pc = "body"
        /\ UNCHANGED dec_contexts
  /\ pc' = "idle"
  /\ UNCHANGED <<streamVars, frames, sliceVars, next, coded, trace, racs, content_offset,
                 enc_contexts, enc, payload, dec, parse>>

SampleSeqs == UNION {[1..n -> Samples] : n \in 1..MaxSamples}

Next ==
  \/ \E keyframe \in BOOLEAN, samples \in SampleSeqs : EncodeSlice(keyframe, samples)
  \/ WriteDecision
  \/ \E body \in Bodies, check \in Checks : FinishSlice(body, check)
  \/ ReadDecision
  \/ NextSymbol
  \/ HeaderRead
  \/ SliceRead

Spec == Init /\ [][Next]_vars
-----------------------------------------------------------------------------
(***************************************************************************)
(* Type invariant of both coders: the range keeps 8 to 16 bits, the        *)
(* adaptive states stay where neither bit can get an empty range, and low  *)
(* never exceeds the range (RangeEncoder::write_rac, RangeCoder::read_rac).*)
(***************************************************************************)
TypeOK ==
  /\ enc \in EncoderStates
  /\ Len(enc.low_bytes) >= 2
  /\ dec \in DecoderStates
  /\ dec.low <= dec.range
  /\ dec.byte_position <= 2 \/ dec.byte_position <= Len(payload)

(***************************************************************************)
(* Each symbol of the header and of the content is read as it was written, *)
(* by the reader that sees the footer behind the payload and by the one    *)
(* that sees zeros (finalize_closed; refill past the end).                 *)
(***************************************************************************)
RoundTrip ==
  pc \in {"probe", "decode"} /\ Complete =>
    parse.stage = "done" /\ parse.value = script[next].value

(***************************************************************************)
(* After every single decision, in both passes, the decoder's interval and *)
(* contexts are the encoder's, and the interval contains what is left of   *)
(* the payload.  (The header reader has no contexts for the content.)      *)
(***************************************************************************)
ReadContexts == IF pc = "probe" THEN Contexts \ {"content"} ELSE Contexts

Lockstep ==
  pc \in {"probe", "decode"} /\ racs > 0 =>
    /\ dec.range = trace[racs].enc.range /\ dec.low < dec.range
    /\ \A context \in ReadContexts : dec.states[context] = trace[racs].enc.states[context]

(***************************************************************************)
(* Between frames both ends keep the same contexts for the next one.       *)
(***************************************************************************)
SameContexts == pc = "idle" => dec_contexts = enc_contexts

(***************************************************************************)
(* The lower bound of the encoder never needs more bytes than it has: the  *)
(* internal error of add_to_low does not occur, nor does closing cause it. *)
(***************************************************************************)
WithinPrecision ==
  pc = "encode" =>
    ~Overflows(enc.low_bytes, enc.range) /\ ClosingDelta < enc.range

(***************************************************************************)
(* The header reader stops where the encoder put the Golomb-Rice body      *)
(* (golomb_rice_content_byte_position).                                    *)
(***************************************************************************)
BodyFound == pc = "body" => SubSeq(slice, 1, content_offset) = ExactBytes

(***************************************************************************)
(* The inductive invariant.  First what the prefixes of the code of a      *)
(* symbol make of a reader.                                                *)
(***************************************************************************)
Reader(stage, kind, exponent, index, value) ==
  [stage |-> stage, kind |-> kind, exponent |-> exponent, index |-> index, value |-> value]

ParseAfter(symbol, read) ==
  LET m == Magnitude(symbol.value)
      e == Exponent(m)
  IN IF read = 0 THEN StartOfSymbol(symbol.kind)
     ELSE IF symbol.kind = "bool" \/ m = 0 THEN Reader("done", symbol.kind, 0, 0, symbol.value)
     ELSE IF read <= e + 1 THEN Reader("exponent", symbol.kind, read - 1, 0, 0)
     ELSE IF read < 2 * e + 2
          THEN Reader("mantissa", symbol.kind, e, 2 * e + 1 - read, m \div Power[2 * e + 2 - read])
     ELSE IF read = 2 * e + 2 /\ symbol.kind = "signed"
          THEN Reader("sign", symbol.kind, e, 0, m)
     ELSE Reader("done", symbol.kind, e, 0, symbol.value)

(***************************************************************************)
(* Where a coder is that has coded n decisions of a slice, and what it is. *)
(***************************************************************************)
Place(symbol, decision) == [symbol |-> symbol, decision |-> decision]

\* Behind the first n decisions of a symbol.
PlaceAfter(symbol, n) ==
  IF n < Len(Decisions(script[symbol])) THEN Place(symbol, n + 1) ELSE Place(symbol + 1, 1)

Following(n) ==
  IF n = 0 THEN Place(1, 1) ELSE PlaceAfter(trace[n].symbol, trace[n].decision)

Coder(n) == IF n = 0 THEN EncoderReset(StatesFrom(References)) ELSE trace[n].enc

(***************************************************************************)
(* How far the number that the bytes of a payload are, continued by zeros, *)
(* is above a lower bound.                                                 *)
(***************************************************************************)
Digit(bytes, i) == IF i <= Len(bytes) THEN bytes[i] ELSE 0

Horner(digits) ==
  LET number[i \in 0..Len(digits)] == IF i = 0 THEN 0 ELSE 256 * number[i - 1] + digits[i]
  IN number[Len(digits)]

Gap(bytes, low_bytes) == Horner([i \in 1..Len(low_bytes) |-> Digit(bytes, i) - low_bytes[i]])

\* The payload lies in the interval of a coder.
Contains(coder, bytes) ==
  LET gap == Gap(bytes, coder.low_bytes) IN 0 <= gap /\ gap < coder.range

\* A decoder has the interval of a coder, and the distance of its payload from that lower
\* bound.
Follows(decoder, coder, bytes) ==
  LET read == Len(coder.low_bytes)
  IN /\ decoder.range = coder.range
     /\ decoder.low = Gap(bytes, coder.low_bytes)
     /\ decoder.byte_position = AtMost(read, Len(bytes))
     /\ decoder.end = (read >= Len(bytes))

Symbols == [context : Contexts, kind : Kinds, value : Int]

Writable(symbol) ==
  /\ symbol.kind = "bool" => symbol.value \in {0, 1}
  /\ symbol.kind # "bool" => Codable(symbol.value)
  /\ symbol.kind = "unsigned" => symbol.value >= 0

ScriptInv ==
  /\ pc \in {"idle", "encode", "probe", "decode", "body", "refused"}
  /\ cell \in Cells
  /\ script \in Seq(Symbols)
  /\ \A i \in DOMAIN script : Writable(script[i])
  /\ next \in Nat \ {0} /\ coded \in Nat
  /\ pc # "idle" => Len(script) >= HeaderLength
  /\ pc = "encode" /\ next <= Len(script) => coded < Len(Decisions(script[next]))
  /\ pc = "probe" => next <= HeaderLength
  /\ pc = "decode" => next <= Len(script)

ReaderInv ==
  /\ payload \in Seq(Byte)
  /\ slice \in Seq(Byte)
  /\ pc \in {"probe", "decode"} => Len(slice) >= 2
  /\ parse \in [stage : Stages, kind : Kinds, exponent : Nat, index : Nat, value : Int]
  /\ dec.low = dec.range => dec.end     \* saturated: from here on there are only ones

ContextsInv ==
  /\ enc_contexts \in [Slots -> Live] \cup {None}
  /\ dec_contexts \in [Slots -> Live] \cup {None}

\* What the interval can still add to the lower bound does not carry out of it.
CarryInv == ~Overflows(enc.low_bytes, enc.range)

\* What each coder keeps by itself.
CoderInv == TypeOK /\ ScriptInv /\ ReaderInv /\ ContextsInv /\ CarryInv

\* Header symbols have contexts of their own, and Golomb-Rice slices have no others.
HeaderInv ==
  /\ golomb \in BOOLEAN /\ frames \in Nat
  /\ \A i \in DOMAIN script : (script[i].context = "content") = (i > HeaderLength)
  /\ pc # "idle" /\ golomb => Len(script) = HeaderLength

\* Both ends have the contexts of the frame before, until one of them has finished this one.
SyncInv ==
  /\ golomb \/ pc \in {"idle", "encode"} => dec_contexts = enc_contexts
  /\ ~golomb /\ pc \in {"probe", "decode"} => enc_contexts = enc.states["content"]

\* The n-th decision of a slice is the one that follows, and leaves a lower bound with at
\* most a byte per decision; no symbol takes more than 127.
StepInv(n) ==
  LET step == trace[n]
      symbol == script[step.symbol]
  IN /\ step.symbol \in DOMAIN script
     /\ step.decision \in DOMAIN Decisions(symbol)
     /\ Place(step.symbol, step.decision) = Following(n - 1)
     /\ n <= 127 * (step.symbol - 1) + step.decision
     /\ step.enc = Narrowed(Coder(n - 1), symbol.context, Decisions(symbol)[step.decision])
     /\ Len(step.enc.low_bytes) \in 2..(n + 2)
     /\ ~Overflows(step.enc.low_bytes, step.enc.range)

\* The trace holds every decision of the script, in order, with the coder it leaves.
TraceInv ==
  pc # "idle" =>
    /\ trace \in Seq([symbol : Nat, decision : Nat, enc : EncoderStates])
    /\ \A n \in 1..Len(trace) : StepInv(n)
    /\ enc = Coder(Len(trace))
    /\ Following(Len(trace)) =
         IF pc = "encode" THEN Place(next, coded + 1) ELSE Place(Len(script) + 1, 1)

\* The decisions of the header.
IsHeader(n) == n = 0 \/ trace[n].symbol <= HeaderLength

\* The slice lies in every interval of the encoder; what the header reader sees, in
\* those of the header.
ContainedInv ==
  pc \in {"probe", "decode"} =>
    \A n \in 0..Len(trace) :
      /\ Contains(Coder(n), slice)
      /\ pc = "decode" \/ IsHeader(n) => Contains(Coder(n), payload)

\* After n decisions, a reader follows the encoder after n, and has parsed what these
\* decisions say.
DecodeInv ==
  pc \in {"probe", "decode"} =>
    /\ racs \in 0..Len(trace) /\ (pc = "probe" => IsHeader(racs))
    /\ \E read \in 0..Len(Decisions(script[next])) :
         /\ parse = ParseAfter(script[next], read)
         /\ Following(racs) = PlaceAfter(next, read)
    /\ Follows(dec, Coder(racs), payload)
    /\ \A context \in ReadContexts : dec.states[context] = Coder(racs).states[context]

\* What is behind the payload of each reader, and in the bytes of a Golomb-Rice slice
\* behind the lower bound of its header.
SliceInv ==
  /\ footer \in Seq(Byte)
  /\ pc = "probe" => payload = slice \o footer
  /\ pc = "decode" => ~golomb /\ payload = slice
  /\ pc \in {"probe", "body"} /\ golomb => \E body \in Bodies : slice = ExactBytes \o body
  /\ pc = "body" => golomb /\ content_offset = Len(ExactBytes)

IInv ==
  CoderInv /\ HeaderInv /\ SyncInv /\ TraceInv /\ ContainedInv /\ DecodeInv /\ SliceInv

(***************************************************************************)
(* "The output MUST be accepted by the mffv1 decoder": no slice is refused *)
(* (plans/PHASE5_ENCODER_SPEC.md:29).                                      *)
(***************************************************************************)
OutputAccepted == pc # "refused"
=============================================================================
