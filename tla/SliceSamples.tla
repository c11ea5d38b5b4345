----------------------------- MODULE SliceSamples -----------------------------
(***************************************************************************)
(* The samples of one slice through SliceEncoder (encode_samples,          *)
(* encode_golomb_rice_samples) and SliceDecoder (decode_range_line,        *)
(* decode_golomb_rice_slice), frame after frame of a GOP.  The range coder *)
(* is a queue of differences, each with the context it was coded in; a     *)
(* Golomb-Rice slice is its bits.  The decoder may also be given bits of   *)
(* another encoder.                                                        *)
(***************************************************************************)
EXTENDS SampleCoding, GolombRiceBits

CONSTANTS
  Streams,       \* the stream parameters
  Images,        \* the images of a stream: Images[stream], each one plane after plane
  LaterImages,   \* those of them that follow the first frame
  Foreign,       \* bits of other encoders, for the streams of Golomb-Rice slices
  MaxFrames      \* bound: the frames of a GOP

Planes(s) == 1..(IF s.rgb THEN 3 ELSE 1) + IF s.extra THEN 1 ELSE 0

\* The five tables of a set add up to contexts that are there, which is what QuantTables
\* shows of those that were read.
FitsContexts(s) ==
  LET Largest(i) == Max({Absolute(s.tables[i][q]) : q \in 0..255})
  IN Largest(1) + Largest(2) + Largest(3) + Largest(4) + Largest(5) < s.context_count

StreamParameters ==
  [golomb : BOOLEAN, rgb : BOOLEAN, extra : BOOLEAN, bits : 1..16,
   width : 1..(2^24 - 1), height : Nat \ {0},
   tables : [1..5 -> [0..255 -> Int]], context_count : Nat \ {0}]

Pictures(s) == [Planes(s) -> [1..s.height -> [1..s.width -> 0..(2^s.bits - 1)]]]

ASSUME SampleAssumption ==
  /\ MaxFrames \in Nat \ {0}
  /\ Streams \subseteq StreamParameters
  /\ \A s \in Streams :
       FitsContexts(s) /\ Images[s] \subseteq Pictures(s) /\ LaterImages[s] \subseteq Pictures(s)
  /\ Foreign \subseteq Seq({0, 1})

VARIABLES
  stream,     \* the stream parameters
  image,      \* the input of the encoder: image[plane][y][x]
  pc,         \* encode, decode, next (the slice is done), or refused
  frame,      \* the frames coded so far
  foreign,    \* the bits are another encoder's
  row,        \* the rows coded so far
  x,          \* the samples of the current row that are coded
  run,        \* the decoder is inside a run: none, copying, or interrupted
  enc, dec,   \* the encoder's and the decoder's SliceState: lines, contexts, runs
  coded,      \* bits, or differences with their contexts
  position,   \* how many of them were read
  output,     \* what the decoder stored
  announced,  \* samples that the segments read so far stand for
  copied      \* samples the decoder took from their prediction

slices == <<stream, image, frame, foreign>>
vars == <<slices, pc, row, x, run, enc, dec, coded, position, output, announced, copied>>

\* RGB planes take turns row by row; other planes follow each other.
RowPlane(s, n) ==
  IF s.rgb THEN (n % Cardinality(Planes(s))) + 1 ELSE (n \div s.height) + 1

RowLine(s, n) ==
  IF s.rgb THEN (n \div Cardinality(Planes(s))) + 1 ELSE (n % s.height) + 1

Rows(s) == s.height * Cardinality(Planes(s))

plane == RowPlane(stream, row)
y == RowLine(stream, row)

\* The quantization table slot of a plane is its bank of contexts: luma or Y, both
\* chroma planes, and the extra plane (up to version 3 slot 1 is there without chroma).
Bank(s, p) ==
  CASE p = 1 -> 0
    [] s.rgb /\ p \in {2, 3} -> 1
    [] OTHER -> 2

\* Both Golomb-Rice coders code all planes of RGB in one run state.
RunBank(s, p) == IF s.rgb THEN 1 ELSE p

\* The bits of a coded sample.  The range coders code an extra plane in the raw ones.
CodedBits(s, p) == IF s.rgb /\ (s.golomb \/ p < 4) THEN s.bits + 1 ELSE s.bits

\* uses_signed_16bit_predictor.
Signed16(s) == ~s.golomb /\ ~s.rgb /\ s.bits = 16

NewState(s) ==
  [lines |-> [p \in Planes(s) |-> ResetLine(s.width, 0)],
   contexts |-> [b \in 0..2 |-> [c \in 0..(s.context_count - 1) |-> NewContext]],
   runs |-> [p \in Planes(s) |-> NewRun]]

\* A new slice: new lines and runs.  The adaptive contexts are the GOP's.
StartSlice(state, s) ==
  [NewState(s) EXCEPT !.contexts = state.contexts]

Blank(s) == [p \in Planes(s) |-> <<>>]

Init ==
  /\ stream \in Streams
  /\ image \in Images[stream]
  /\ pc = "encode" /\ frame = 1 /\ foreign = FALSE
  /\ row = 0 /\ x = 0 /\ run = "none"
  /\ enc = NewState(stream) /\ dec = NewState(stream)
  /\ coded = <<>> /\ position = 0
  /\ output = Blank(stream)
  /\ announced = 0 /\ copied = 0
-----------------------------------------------------------------------------
(***************************************************************************)
(* What both sides derive from the samples so far, for the sample at i.    *)
(***************************************************************************)
PredictionAt(s, line, i) == Prediction(Neighbors(line, i), Signed16(s))

ContextAt(s, line, i) == Context(s.tables, Neighbors(line, i))

Store(state, p, i, sample) == [state EXCEPT !.lines[p].current[i] = sample]

Adapt(state, bank, number, context) == [state EXCEPT !.contexts[bank][number] = context]

InRow == row < Rows(stream) /\ x < stream.width
-----------------------------------------------------------------------------
(***************************************************************************)
(* The encoder.  A piece is what one sample or one run appends to the      *)
(* coded slice, with the state and the place after it.                     *)
(***************************************************************************)
\* The samples of a row, those of a transformed pixel for RGB.
CodedRow(s, img, p, line) ==
  [i \in 1..s.width |->
     IF s.rgb /\ p < 4
     THEN ForwardTransform(<<img[1][line][i], img[2][line][i], img[3][line][i]>>,
                           s.bits, s.extra)[p]
     ELSE img[p][line][i]]

Coded(s, p, samples, line, i) ==
  SampleDifference(samples[i], PredictionAt(s, line, i), CodedBits(s, p))

SamplePiece(s, p, samples, i, state) ==
  LET line == state.lines[p]
      n == ContextAt(s, line, i)
  IN [code |-> <<[bank |-> Bank(s, p), context |-> n.number,
                  value |-> Negated(n, Coded(s, p, samples, line, i))]>>,
      state |-> Store(state, p, i, samples[i]),
      until |-> i]

\* The bits of a difference, perhaps of the one that ends a run.
SymbolPiece(s, p, samples, i, state, interrupts) ==
  LET line == state.lines[p]
      n == ContextAt(s, line, i)
      value == Negated(n, Coded(s, p, samples, line, i))
      bits == CodedBits(s, p)
      written == WriteSymbol(state.contexts[Bank(s, p)][n.number],
                             IF interrupts THEN ToInterruption(value) ELSE value,
                             2^(bits - 1), bits)
  IN [code |-> CodeBits(written.code),
      state |-> Store(Adapt(state, Bank(s, p), n.number, written.context), p, i, samples[i]),
      until |-> i]

\* The line with the samples from a place up to i stored.
StoredUntil(line, samples, from, i) ==
  [line EXCEPT !.current = [j \in DOMAIN @ |-> IF j \in from..i THEN samples[j] ELSE @[j]]]

\* A run holds until a sample differs from its prediction or the row ends.
RunEnd(s, line, samples, from) ==
  LET breaks == {i \in from..s.width :
                   samples[i] # PredictionAt(s, StoredUntil(line, samples, from, i - 1), i)}
  IN IF breaks = {} THEN s.width ELSE Min(breaks) - 1

\* The run from a place on, and the difference behind it in the context it is found in.
RunPiece(s, p, samples, from, state) ==
  LET end == RunEnd(s, state.lines[p], samples, from)
      written == WrittenRun(state.runs[RunBank(s, p)].run_index,
                            s.width - from + 1, end - from + 1)
      counted == [state EXCEPT
                    !.lines[p] = StoredUntil(@, samples, from, end),
                    !.runs[RunBank(s, p)].run_index = written.run_index]
      symbol == SymbolPiece(s, p, samples, end + 1, counted, TRUE)
  IN IF end = s.width
     THEN [code |-> written.bits, state |-> counted, until |-> end]
     ELSE [symbol EXCEPT !.code = written.bits \o @]

Emit(piece) ==
  /\ coded' = coded \o piece.code
  /\ enc' = piece.state
  /\ x' = piece.until
  /\ UNCHANGED <<slices, pc, row, run, dec, position, output, announced, copied>>

Samples == CodedRow(stream, image, plane, y)

AtRunStart == ContextAt(stream, enc.lines[plane], x + 1).number = 0

EncodeSample ==
  /\ pc = "encode" /\ InRow /\ ~stream.golomb
  /\ Emit(SamplePiece(stream, plane, Samples, x + 1, enc))

EncodeScalar ==
  /\ pc = "encode" /\ InRow /\ stream.golomb /\ ~AtRunStart
  /\ Emit(SymbolPiece(stream, plane, Samples, x + 1, enc, FALSE))

EncodeRun ==
  /\ pc = "encode" /\ InRow /\ stream.golomb /\ AtRunStart
  /\ Emit(RunPiece(stream, plane, Samples, x + 1, enc))

EncodeLineEnd ==
  /\ pc = "encode" /\ row < Rows(stream) /\ x = stream.width
  /\ enc' = [enc EXCEPT !.lines[plane] = SwapLines(@)]
  /\ row' = row + 1
  /\ x' = 0
  /\ UNCHANGED <<slices, pc, run, dec, coded, position, output, announced, copied>>

StartDecoder ==
  /\ pc' = "decode"
  /\ row' = 0 /\ x' = 0 /\ run' = "none"
  /\ position' = 0
  /\ output' = Blank(stream)
  /\ announced' = 0 /\ copied' = 0

EncodeEnd ==
  /\ pc = "encode" /\ row = Rows(stream)
  /\ coded' = IF stream.golomb THEN Aligned(coded) ELSE coded
  /\ StartDecoder
  /\ UNCHANGED <<slices, enc, dec>>

\* Instead of our encoder, another one wrote the slice.
TakeForeign ==
  /\ pc = "encode" /\ row = 0 /\ x = 0 /\ frame = 1 /\ stream.golomb
  /\ \E bits \in Foreign : coded' = Aligned(bits)
  /\ foreign' = TRUE
  /\ image' = Blank(stream)
  /\ StartDecoder
  /\ UNCHANGED <<stream, frame, enc, dec>>
-----------------------------------------------------------------------------
(***************************************************************************)
(* The decoder.                                                            *)
(***************************************************************************)
Decoding == pc = "decode" /\ InRow

\* The context of the next sample.
NextContext == ContextAt(stream, dec.lines[plane], x + 1)

\* A difference that is read in another context than it was written in is another one.
ReadDifference ==
  LET symbol == coded[position + 1]
  IN IF symbol.bank = Bank(stream, plane) /\ symbol.context = NextContext.number
     THEN symbol.value ELSE symbol.value + 1

Decoded(s, state, p, i, difference) ==
  Store(state, p, i,
        Reconstructed(PredictionAt(s, state.lines[p], i), difference, CodedBits(s, p)))

DecodeSample ==
  /\ Decoding /\ ~stream.golomb
  /\ dec' = Decoded(stream, dec, plane, x + 1, Negated(NextContext, ReadDifference))
  /\ position' = position + 1
  /\ x' = x + 1
  /\ UNCHANGED <<slices, pc, row, run, enc, coded, output, announced, copied>>

\* The samples of a segment are their predictions, one after the other.
Copied(s, line, from, count) ==
  LET after[n \in 0..count] ==
        IF n = 0 THEN line
        ELSE [after[n - 1] EXCEPT
                !.current[from + n - 1] = PredictionAt(s, after[n - 1], from + n - 1)]
  IN after[count]

\* The run state that all planes of RGB share.
RunState == dec.runs[RunBank(stream, plane)]

Pending == RunState.pending_count # 0

TakeSegment(segment) ==
  /\ dec' = [dec EXCEPT
               !.lines[plane] = Copied(stream, @, x + 1, segment.count),
               !.runs[RunBank(stream, plane)] = [run_index |-> segment.run_index,
                                                 pending_count |-> segment.pending]]
  /\ position' = segment.position
  /\ x' = x + segment.count
  /\ copied' = copied + segment.count

DecodePending ==
  /\ Decoding /\ stream.golomb /\ run = "none" /\ Pending
  /\ TakeSegment(PendingSegment(RunState, stream.width - x, position))
  /\ UNCHANGED <<slices, pc, row, run, enc, coded, output, announced>>

\* The decoder is to read a segment of a run.
AtRun ==
  \/ run = "copying"
  \/ run = "none" /\ ~Pending /\ NextContext.number = 0

\* What the bits of a segment stand for: a full run ends with the row, a partial run is
\* as long as it says.
Announced(index) ==
  IF coded[position + 1] = 1 THEN AtMost(FullRun(index), stream.width - x)
  ELSE BitsAt(coded, position + 1, Log2Run(index))

DecodeSegment ==
  LET segment == ReadSegment(coded, position, RunState, stream.width - x)
  IN /\ Decoding /\ stream.golomb /\ AtRun
     /\ SegmentThere(coded, position, RunState)
     /\ TakeSegment(segment)
     /\ run' = IF x + segment.count = stream.width THEN "none"
               ELSE IF segment.interrupted THEN "interrupted"
               ELSE "copying"
     /\ announced' = announced + Announced(RunState.run_index)
     /\ UNCHANGED <<slices, pc, row, enc, coded, output>>

\* The next symbol in the adaptive context of the sample behind x.
SymbolContext == dec.contexts[Bank(stream, plane)][NextContext.number]

SymbolThere ==
  /\ ~Refused(SymbolContext)
  /\ CodeThere(coded, position, DeriveK(SymbolContext), CodedBits(stream, plane))

TakeSymbol ==
  LET n == NextContext
      bits == CodedBits(stream, plane)
      code == NextCode(coded, position, DeriveK(SymbolContext), bits)
      symbol == ReadSymbol(SymbolContext, code, 2^(bits - 1))
      difference == IF run = "interrupted" THEN FromInterruption(symbol.value)
                    ELSE symbol.value
  IN /\ dec' = Decoded(stream, Adapt(dec, Bank(stream, plane), n.number, symbol.context),
                       plane, x + 1, Negated(n, difference))
     /\ position' = code.position
     /\ x' = x + 1
     /\ run' = "none"
     /\ UNCHANGED <<slices, pc, row, enc, coded, output, announced, copied>>

DecodeInterruption ==
  /\ Decoding /\ stream.golomb /\ run = "interrupted"
  /\ SymbolThere
  /\ TakeSymbol

AtScalar == run = "none" /\ ~Pending /\ NextContext.number # 0

DecodeScalar ==
  /\ Decoding /\ stream.golomb /\ AtScalar
  /\ SymbolThere
  /\ TakeSymbol

\* The bits end within a segment or a codeword, or no parameter suits the context.
DecodeUnderflow ==
  /\ Decoding /\ stream.golomb
  /\ \/ AtRun /\ ~SegmentThere(coded, position, RunState)
     \/ (run = "interrupted" \/ AtScalar) /\ ~SymbolThere
  /\ pc' = "refused"
  /\ UNCHANGED <<slices, row, x, run, enc, dec, coded, position, output, announced, copied>>

\* store_planar_line, or store_rgb_line once all planes of the row are there.
StoredRow(p) ==
  LET line == [q \in Planes(stream) |-> dec.lines[q].current]
  IN [i \in 1..stream.width |->
        CASE ~stream.rgb -> line[p][i]
          [] stream.rgb /\ p < 4 ->
               InverseTransform(<<line[1][i], line[2][i], line[3][i]>>,
                                stream.bits, stream.extra)[p]
          [] OTHER -> line[p][i] % 2^stream.bits]

RowDone(p) == p = plane \/ stream.rgb

LastPlane == ~stream.rgb \/ plane = Cardinality(Planes(stream))

\* Pending samples do not outlive the plane they were announced in (all of them for RGB).
LastLine == row + 1 = Rows(stream) \/ (~stream.rgb /\ y = stream.height)

DecodeLineEnd ==
  LET done == {p \in Planes(stream) : LastPlane /\ RowDone(p)}
      cut == IF LastLine THEN RunState.pending_count ELSE 0
  IN /\ pc = "decode" /\ row < Rows(stream) /\ x = stream.width
     /\ output' = [p \in Planes(stream) |->
                     IF p \in done THEN Append(output[p], StoredRow(p)) ELSE output[p]]
     /\ dec' = [dec EXCEPT
                  !.lines = [p \in Planes(stream) |->
                               IF p \in done THEN SwapLines(@[p]) ELSE @[p]],
                  !.runs[RunBank(stream, plane)].pending_count = @ - cut]
     /\ announced' = announced - cut
     /\ row' = row + 1
     /\ x' = 0
     /\ UNCHANGED <<slices, pc, run, enc, coded, position, copied>>

\* byte_align, and no bytes may be left.
DecodeEnd ==
  /\ pc = "decode" /\ row = Rows(stream)
  /\ pc' = IF stream.golomb /\ AlignedPosition(position) # Len(coded)
           THEN "refused" ELSE "next"
  /\ UNCHANGED <<slices, row, x, run, enc, dec, coded, position, output, announced, copied>>

\* The next frame of the GOP.
NextFrame ==
  /\ pc = "next" /\ ~foreign /\ frame < MaxFrames
  /\ frame' = frame + 1
  /\ image' \in LaterImages[stream]
  /\ pc' = "encode"
  /\ row' = 0 /\ x' = 0 /\ run' = "none"
  /\ enc' = StartSlice(enc, stream) /\ dec' = StartSlice(dec, stream)
  /\ coded' = <<>> /\ position' = 0
  /\ output' = Blank(stream)
  /\ announced' = 0 /\ copied' = 0
  /\ UNCHANGED <<stream, foreign>>

Next ==
  \/ EncodeSample \/ EncodeScalar \/ EncodeRun \/ EncodeLineEnd \/ EncodeEnd \/ TakeForeign
  \/ DecodeSample \/ DecodePending \/ DecodeSegment \/ DecodeInterruption \/ DecodeScalar
  \/ DecodeUnderflow \/ DecodeLineEnd \/ DecodeEnd \/ NextFrame

Spec == Init /\ [][Next]_vars
-----------------------------------------------------------------------------
\* Whatever the planes, the colour space and the coder, a decoded slice is the slice that
\* was encoded, and nothing of it is refused (decode_golomb_rice_line, slice_decoder.cpp:258,
\* and decode_range_line, slice_decoder.cpp:167, against the encoder's two loops).
RoundTrip ==
  ~foreign => /\ pc # "refused"
              /\ pc = "next" => output = image

\* Between two slices both ends hold the same adaptive contexts and run indexes, so that
\* the next frame of the GOP starts alike (prepare_golomb_rice, slice_decoder.cpp:978).
SameAdaptation ==
  pc = "next" /\ ~foreign => enc.contexts = dec.contexts /\ enc.runs = dec.runs

\* Every sample a run announces is copied once, on this row or on later ones, and no run
\* runs past the end of its row (read_golomb_rice_run_segment, golomb_rice_run.cpp:38).
RunsConserved ==
  /\ pc \in {"decode", "next"} =>
       \E p \in Planes(stream) :
         /\ announced = copied + dec.runs[p].pending_count
         /\ \A q \in Planes(stream) \ {p} : dec.runs[q].pending_count = 0
  /\ x <= stream.width
=============================================================================
