# A TLA+ development of mffv1

mffv1 is an encoder and a decoder for FFV1 (RFC 9043) video, a C++ library
without threads of its own except for the slices of one frame. This directory
holds TLA+ modules of its core, the TLC models that check them, and eight
modules of proofs for TLAPS. Source paths below are relative to the repository.

## 1. The system

An application owns an `IEncoder` and an `IDecoder` (include/mffv1) and moves
two kinds of bytes between them: a configuration record, once, and frames.
A frame is a sequence of slices, each with its own entropy coder, so that
slices can be coded in parallel; between the keyframes of a GOP every slice
continues the adaptive contexts its predecessor left.

| Component | State it keeps | Operations | Hard because |
|---|---|---|---|
| Encoder (codec/encoder.cpp) | parameters, executor, next_frame_index | configure, encode_frame | calls fail in the middle of a GOP; reconfiguration |
| Decoder (codec/decoder.cpp) | parameters, executor that borrows them | configure, bootstrap_legacy_frame, inspect_frame, decode_frame | frames are lost, repeated, damaged, of another configuration |
| Slice executor (codec/slice_executor.cpp) | slice_states, slice_layouts | decode: validate, match, decode in batches, commit | threads, partial failure, reordered slices, std::async that throws |
| Slice encode executor (codec/slice_encode_executor.cpp) | slice_states | encode: copy, encode in batches, assemble, commit | the same, and the payload must be the same bytes for every schedule |
| Range coder (entropy/range_*.cpp) | interval, lower bound or window of it, contexts | reset, read/write of bools and symbols, finalize | carries, renormalisation, the end of the payload |
| Slice encoder / decoder (codec/slice_encoder.cpp, slice_decoder.cpp) | none; works on a SliceState | encode_slice, decode | two readers of one header; contexts that must stay equal at both ends |
| Frame parser (codec/frame_parser.cpp) | none | parse | the reader of the first header is handed on; position of the Golomb-Rice content |
| Slice locator, header, footer | none | parse and write | backward scan, 24-bit sizes, CRC |
| Raster, windows (slice_raster_validator, slice_*_window, plane_window_math, stream_parameters.hpp) | none | sweep for overlap and coverage; pixel borders | ties of the sweep, rounding of borders, chroma planes |
| Golomb-Rice coding (entropy/golomb_rice_*) | count, drift, error_sum, bias; run_index, pending_count | read and write a symbol or a run | saturation, runs across the end of a row |
| Configuration record, profile | none | parse, write, normalise | run-length tables, derived context counts |
| Prediction, contexts, colour transform, SIMD | none | pure functions | modular differences; kernels must agree |
| Frame buffers, status, CRC | none | checks | - |

They interact by plain calls. `Encoder` calls `SliceEncodeExecutor::encode`,
which calls one `SliceEncoder` per slice, perhaps on a thread of its own.
`Decoder` lets `FrameParser` cut a payload into slice descriptors and gives
these to `SliceExecutor::decode`. The only shared memory is inside one call of
an executor: workers write their own entry of the call's state vector and their
own window of the caller's frame. Both executors borrow the parameters that the
codec object owns, and the codec object replaces both at every configuration.

What makes each part correct:

- executors: a call behaves as if it were atomic (all slices commit, or the
  states of the last good frame are kept and the failure of the lowest slice is
  reported), whatever the threads do; workers never share a cell nor outlive
  the call; a state stays with its place in the frame;
- sessions: a sequence of frames without a gap from a keyframe on is accepted
  and decoded exactly, whatever happened before it; the cadence of keyframes
  counts frames that were encoded;
- range coder: what is written is read, decision by decision; no carry is lost;
  no part of the interval is empty; both ends keep equal contexts;
- slices of a frame: what is found backwards from the end is what was put
  together, damage is named, and the slices of an accepted frame share out
  every plane exactly;
- samples: a decoded slice is the encoded one, both ends adapt alike, no sample
  of a run is lost, and adapted values keep to their ranges;
- configuration record: it is read as it was written, symbol by symbol and
  context by context, and an accepted set of tables never names a context
  outside it.

The hazards we hold against the code, each at its line and with the property
that covers it, are the `hazards` of PROJECT.json.

## 2. Modules

    SliceDecoding            data of a decode call: rasters, contents, states
      SliceExecutor          SliceExecutor::decode with its threads
        AtomicExecutor       what it promises (INSTANCE, checked and proved)
        MCSliceExecutor      model
        SliceExecutorProofs  proofs
    SliceEncodeExecutor      SliceEncodeExecutor::encode with its threads
      AtomicEncodeExecutor   what it promises (INSTANCE, checked and proved)
      MCSliceEncodeExecutor  model
      SliceEncodeExecutorProofs proofs
    Frames                   frames, and the histories that stand for states
      Encoder, Decoder       the two codec objects
        CodecSession         both, and an application with a lossy transport
          MCCodecSession     model
          CodecSessionProofs proofs
    RangeCoding              states, split of the range, binarisation
      RangeEncoder, RangeCoder
        RangeSlice           slices from encode_slice to SliceDecoder::decode
          MCRangeSlice       model, with DefaultStateTransition
          RangeSliceProofs   proofs
    GolombRice               adaptive contexts, folding, codewords
      GolombRiceAdaptation   one context at both ends
        MCGolombRiceAdaptation model
      GolombRiceBits         codewords and runs as bits, over BitStream
    SampleCoding             neighbours, prediction, context, colour transform
      SliceSamples           the loops over planes, rows, samples (with GolombRiceBits)
        MCSliceSamples       model
        SliceSamplesProofs   proofs, of GolombRiceAdaptation too
    SliceGrid                from cells of the grid to samples of a plane
      RasterCoverage         what validate_slice_raster_coverage promises
      RasterSweep            the sweep, implements RasterCoverage (INSTANCE)
        MCRasterSweep        model
        RasterSweepProofs    proofs
      FrameSlices            slices put together, located and parsed (INSTANCE RasterCoverage)
        MCFrameSlices        model
        FrameSlicesProofs    proofs
    QuantTables              a set of quantization tables from its runs
      MCQuantTables          model
      ConfigurationRecord    the record, written and parsed
        MCConfigurationRecord model
        ConfigurationRecordProofs proofs, of QuantTables too

The map of PROJECT.json names for every definition the lines it stands for.
Definitions whose comment starts with "Deviation:" are not the code: each is a
plausible slip in the definition after it, used to see that a property notices.

### SliceExecutor

The calling thread is the program counter `pc`: `Validate`, `MatchReferences`,
then `SerialDecode` per slice, or `LaunchWorker`/`Join` per batch, then
`Report`. `Worker(i)` is one thread; `future[i]` is what its std::future will
say. `LaunchFails` is std::async throwing, after which the destructors of the
futures of the batch wait (`Unwind`). A state is abstracted to the history that
determines it, a sequence of (rectangle, body) since the keyframe: equal
histories are equal contexts, so a state that was paired with the wrong slice,
advanced twice or left half written (`Torn`) is visible. Slice contents are
`Bodies`, which decode, one that fails in decode and one that fails already in
validate. A slice has one or two candidates, the boundaries that
make_golomb_rice_content_candidates tries in order; a slice with two is decoded
into a temporary frame and a copy of the state, and one without works in place.

`AtomicExecutor` has no threads: a call is submitted and then refused, failed
(lowest failing slice of the call), aborted, or committed.

Not part of it: frames without raster (`NoRaster`, where the executor
keeps states by position), exceptions thrown by a worker
itself, and the order std::sort gives to equal layouts, which only overlapping
slices have (here they keep their order).

### SliceEncodeExecutor

The same shape: working copies of the states, fresh ones at a keyframe; batches
of `WorkerCount` futures, all joined before the next; then the first status
that is not ok is returned, or the payload is assembled in slice order and the
states are committed. The content of a slice is abstracted to the history it
was encoded with and the body; a slice may fail for any input the model lists.

### Encoder, Decoder, CodecSession

`Encoder` has `ConfigureEncoder` and `EncodeFrame`, either of which may fail;
`Decoder` has `ConfigureDecoder`, `BootstrapLegacyFrame` and `DecodeFrame`. At
this level the executors are the atomic ones, that is what the two
`ImplementsAtomic` properties are for. A frame carries, besides its keyframe
flag, the history it was encoded from; decoding it from another history gives
garbage, without an error: FFV1 has no way to see it. `serial` and `epoch` are
bookkeeping of the model (how many frames were sent, and how many before the
current configuration). `CodecSession` delivers any frame that was sent, any
number of times and in any order, whole or damaged, and frames of a legacy
(version 0/1) container; configurations of the two ends happen independently.
Where a frame is damaged or foreign the decoder of the model may accept or
refuse it, and see either keyframe flag: more than the real parser would.
Slices are taken to be accepted by the decoder when they are intact and in
sequence; section 5 has the exception.

### RangeCoding, RangeEncoder, RangeCoder, RangeSlice

One step is one binary decision. `WriteRac` narrows the interval and, as the
code does, keeps the lower bound as a vector of bytes with the carry running
through the bytes 255 before the last two; `ReadRac` decodes a decision and refills. `Decisions` is
write_symbol and `Parsed` is read_symbol, both with the contexts they use, so
the order of exponent, mantissa and sign is checked and not assumed.
`EncodeSlice` fixes the symbols of a slice (keyframe flag in slice 0, header,
content), `FinishSlice` is finalize_closed, or finalize and a body for
Golomb-Rice, plus a footer. The slice is then read twice, as in the code: the
header by FrameParser over payload *and* footer (`probe`), header and content by
SliceDecoder over the payload alone (`decode`). Contexts live on from frame to
frame at each end on its own.

The samples are the differences the coder is given; prediction and context
choice, done identically at both ends, are left out, and so is the arithmetic of
version 0 and early version 1 streams, which the encoder never writes.
write_symbol's two-way trial for a zero-width part is not modelled: with the
default table an adaptive state stays in 8..248, where no part can be empty
(`CodingAssumption`, and the encoder profile always takes the default table).

### GolombRice, GolombRiceAdaptation

A codeword is kept as the number of its zeros with the width and value of the
field behind them, so that the escape and the parameter k, which each end
derives for itself, are visible. `WriteSymbol` and `ReadSymbol` are the two
functions of golomb_rice_context.cpp; `Refused` is validate_state together with
the search of derive_k. In GolombRiceAdaptation one context at each end follows
a sequence of differences, among them those that interrupt a run; its names differ
from those of SliceSamples because SliceSamplesProofs extends both.

### SampleCoding, BitStream, GolombRiceBits, SliceSamples

SliceSamples is the composition: one step per sample, run or segment, for range
and Golomb-Rice slices, planar and RGB, with an extra plane. The range coder is
a queue whose entries name the context they were coded in (RangeSlice shows that
it delivers them); a Golomb-Rice slice is the sequence of its bits. The
encoder looks ahead over a run (`RunPiece`, what `EncodeRun` appends with the
difference behind the run), the decoder takes a segment at a
time and copies `pending_count` samples, also on the next row, which is where
they differ. The decoder may also be given bits no encoder of this
library wrote (`TakeForeign`). Chroma planes of planar streams and rows of
version 0 and 1 streams are not in it: they are planes coded like the others, and
an order of rows the encoder never writes.

### SliceGrid, RasterCoverage, RasterSweep

SliceGrid has the integer arithmetic: `ScaledGridPosition`, the extent of
subsampled planes, the window of a slice in each plane, what the input and
output windows refuse, and the cells and the area of a rectangle. RasterCoverage says in cells what the validator decides:
every cell in exactly one slice, disjoint but incomplete, or refused. RasterSweep
is the code: areas summed until they exceed the grid, events in the order of
`Before` (ends in front of starts), and the map of occupied rows with its two
neighbour look-ups.

### FrameSlices

`Assembled` builds the bytes of a frame as SliceEncoder and the encode executor
do, down to the 24-bit size and the checksum of each footer; `Received` loses,
repeats and reorders slices, replaces bytes and cuts off the end. `LocateSlice`
is one round of the backward scan, `CountSlice` one of count_preceding_slices,
`ParseHeader` and `ParseLegacyHeader` are the two loops of the frame parser,
each with the check of the grid where the code has it. A header is one byte
that stands for its rectangle, and a CRC is a sum: it has the zero remainder over
a slice completed with its parity, also over several such slices, and a
replaced byte changes it.

### QuantTables, ConfigurationRecord

QuantTables reads the five tables run by run: overlong runs are cut off but for the
first, entries must fit 32 bits, the second half is mirrored, and the product
of the odd run counts gives the number of contexts. `Folded` is the sum that
ContextModel makes of five entries. ConfigurationRecord is the writer and the
parser. `Written` is the sequence of symbols, each with its kind (unsigned,
signed, bool) and the context it is coded with; the parser consumes a symbol
only when it asks for the same kind in the same context, so that an order or a
context that differs between the ends gets stuck, or is read as something else.
`todo` is the control flow of ConfigurationParser::parse: the fields that the
version, the coder type and the number of sets bring with them. A
damaged record gives any values (`Garbage`), and its checksum is wrong.

Facts of the code that the module keeps: the first entry of a transition table
is not in a record, a custom table of a Golomb-Rice stream is not either
(`Recorded`), the writer compares the number of contexts modulo 2^32 and has no
limit of 32768, which only a reader enforces (`WithinContexts`).

## 3. What TLC checks

| Run | Shows | Bounds, and why they do |
|---|---|---|
| executor | type, no shared cell, no orphan, bounded threads, raster continuity, equal depth, faithful output, refinement of AtomicExecutor, every call returns | frames of 2 and 3 slices on 3 cells: with 2 threads, 3 slices make a full and a short batch; tiled, reordered, overlapping and incomplete rasters; all candidate combinations; GOPs of 2 frames and one call after, so that a state is used, failed on and used again |
| encode_executor | payload and states of the atomic encode executor, frame in step, no orphan, every call returns | three slices, 1 to 3 threads, bodies that encode and that fail, GOPs long enough to reuse a state after a failure |
| session | exact and accepted in sequence, cadence, encoder can go on, own parameters | 2 configurations and a legacy one, intervals 1, 2, 3, 4 frames: a keyframe, its follower, a failure and another keyframe for each interval; delivery in any order |
| range_slice | type (interval), round trip of every symbol, lockstep of the intervals, equal contexts, precision, Golomb-Rice body found | slice 0 and another one, 1 or 2 samples of {0, -1, 1500} (no exponent, sign, an exponent that passes the tenth context), GOPs of 2 frames, footers with and without CRC |
| range_slice_accepted | **violated**: a slice of the encoder is refused by the decoder | as range_slice |
| golomb_rice_adaptation | bounds of a context, no codeword and no context refused, every symbol read as written | differences of nine bits from the corners and the middle, repeated with a period of up to 3, and steps after 320 equal ones; 330 symbols, so that the count reaches 128 and halves twice and the bias reaches its limits |
| slice_samples | round trip of images, equal contexts and run indexes between frames, no sample of a run lost | 8 streams of both coders; rows of 2, 3 and 7 samples, longer than the first runs and with runs that end at, before and behind the row; 1 to 16 bits, 9 bits for the swapped colour transform; two frames; foreign bits |
| raster_sweep | the sweep implements RasterCoverage, windows partition the planes, grids of the encoder are accepted | every frame of up to 4 rectangles on grids of 2x1 and 2x2, of up to 3 on 3x2, with empty and outside ones; extents that do not divide; the CIF limit scaled to 34 samples, so that both sides of it occur |
| frame_slices | slices recovered, damage named, only whole frames accepted | 4 slices of a 2x2 grid, and 3 with a wide one; single bytes and pairs of bytes replaced anywhere, cut off anywhere, all sequences of up to 5 of the slices; one slice of 300 bytes for the second byte of a size |
| frame_slices_reserved | **violated**: a reserved status is reported for the slice it is in | as frame_slices |
| quant_tables | context of any five entries within the set | halves of 3 entries, every sequence of runs of 1 to 5, so that first and later runs are too long; at most 63 contexts and entries of 200, which some sets pass |
| configuration_record | a record is read back to the parameters it was written from, damage only passes as a legacy stream | halves of 2 entries, all 32 shapes of a set with up to 122 contexts (14 are allowed, the count is stored modulo 64), 2 initial states of 2 bits with every step between contexts, two sets, custom transitions, all combinations of the profile fields, and each refusal of the writer; values of a damaged record {0, 1, 2, 17} |

Deadlock is checked where a system may not stop: in the executors, the session
and the configuration record (which ends in an explicit `Finished`). The other
models are one slice, frame or table set, and end when it is done or refused.

Fairness is assumed in the executors (and, trivially, of the single thread of
the sweep, so that a verdict is always given): weak fairness of the calling thread,
which the caller's thread runs, and of each worker, because std::launch::async
gives each its own thread and none of them waits for another. The sessions
and the coder have no liveness property; nothing obliges an
application to make its next call.

For each property of a run PROJECT.json names a mutant, a plausible bug in one
definition, with which TLC finds the property violated under the same model.

## 4. What TLAPS proves

SliceExecutorProofs proves, for all rasters, frames, thread counts and bodies
(under RasterAssumption, ContentAssumption, FrameAssumption, MarkAssumption and
BoundAssumption, which say that the values are of their kinds and the marks
distinct):

- `TypeCorrect`, `NoWorkerIsOrphaned`, `ThreadsAreBounded`, `WorkersAreDisjoint`,
  `RasterContinuous`, `DepthIsCommon`, `OutputIsFaithful`: the safety properties of the run
  as `Spec => []P`;
- `Refinement`: Spec implements AtomicExecutor.

None of the properties is inductive. The invariant is `IInv` of SliceExecutor:

- `CallInv`: where the calling thread is says what it has checked. When slices
  are decoded, the call is `Admissible`, and with no call the vectors are empty;
- `CountInv`: slices are handed out and joined in order, offset <= joined <=
  launched <= Count; a slice is untouched exactly when it is beyond `launched`,
  and one that was joined does not run;
- `PhaseInv`: what the batches mean in each phase (a launched worker belongs to
  the current batch, and there is more than one thread only for a frame whose
  slices are disjoint);
- `ResultInv`: what a decode did, it did to the state its slice came with;
- `RasterContinuity`, which needs the pairing: `RankOnto` shows by counting
  that ranks of layouts are a bijection, so each slice finds a reference of its
  rank and, when no mismatch is found, of its rectangle.

`Invariance` is one lemma per action over this; the theorems follow from IInv,
with `DepthIsCommon` and `OutputIsFaithful` carried by invariants of their own
on top of it.

RangeSliceProofs proves, for every transition table that keeps
8..248 within 8..248, all samples and cells that have a code, all Golomb-Rice
bodies and footers, and slices of any length (CodingAssumption, SliceAssumption;
symbols of up to 62 exponent bits, which is what the 127 decisions of
range_encoder.cpp:360 hold), everything the run checks:

- `TypeCorrect`: `Spec => []TypeOK`. Its content is the interval: both ranges
  stay between 256 and 65280, and the decoder's `low` never exceeds its range,
  also when refill has run out of bytes;
- `EncoderPrecision`: `Spec => []WithinPrecision`, so "range encoder lower bound
  exceeded its precision" is never returned;
- `SymbolReadBack`: for every symbol that has a code, each prefix of its decisions
  leaves read_symbol waiting for the next one in the context it was written
  with, and the whole of them leaves it done with the value (`ReadsBack`);
- `SymbolsReadBack`, `CodersInLockstep`, `ContextsAgree`, `BodyLocated`: RoundTrip,
  Lockstep, SameContexts and BodyFound of the run.

TypeOK alone is not inductive. `CoderInv` of RangeSlice adds what each coder keeps by
itself:

- `CarryInv`: adding the whole range to the lower bound would not carry out of
  it. It is kept because narrowing moves the top of the interval only downwards
  (`LowerPartFits`, `NarrowingFits`) and renormalisation appends a zero byte to a
  range that was below 256 (`RenormalisingFits`);
- `ReaderInv`: when low equals the range the reader is at its end, so that refill
  appends zeros to both and the two stay equal;
- `ScriptInv`, `ContextsInv`: every symbol of the script has a code, so that there
  is always a next decision with a slot in 0..31, and contexts kept between
  frames are live states. `Split` then gives each bit at least 8 of the range.

`IInv` adds what relates the two ends. The variable `trace` records the encoder after each
decision, and `TraceInv` says that it holds every decision of the script in order.
`Gap(bytes, low_bytes)` is how far the payload, as a number continued by zeros, lies
above a lower bound. The argument has four steps:

- finalize and finalize_closed choose a payload in the last interval of the encoder
  (`ExactGap`, `ClosedContains`, also when the last zero byte is dropped), and what
  is in an interval is in every interval before it (`ContainsBack`):
  `ContainedInv`. A footer behind the payload does not matter to a header:
  the byte that may have been dropped is replaced by the high byte of the size,
  which is zero as long as the header has less than 65536 bytes (`FooterGap`,
  `HeaderIsShort`);
- a decoder that has the encoder's range, and the gap as `low`, takes the same branch
  of the same split, and refill keeps the gap, byte by byte (`ReadRacFollows`);
- so does the parse: with the same bits in the same contexts it is where
  `SymbolReadBack` says (`DecodeInv`);
- behind the last decision of a slice the contexts are the encoder's last ones
  (`SyncInv`), and behind a Golomb-Rice header the gap is zero, so that
  golomb_rice_content_byte_position takes nothing for read ahead (`BodyPosition`).

What is *not* a theorem is that the decoder accepts the slice: see section 5.

SliceSamplesProofs proves about GolombRiceAdaptation, for every width of differences
up to 17 bits, every bound on the symbols and every set of differences
(AdaptationAssumption):

- `ContextBounds`: `SpecAdaptation => []ContextsInBounds`, drift, error sum, bias and
  count stay within the bounds update_state is written for;
- `NothingRefused`: `SpecAdaptation => []NeverRefused`, a parameter k always exists and
  the folded difference fits its codeword, also the escaped one;
- `SymbolsAreRead`: `SpecAdaptation => []SymbolsRead`, every codeword is read as it was
  written, with equal contexts at both ends.

`AdaptationInv` joins the bounds with the pending codeword: while it is under way the
decoder's context is the one it was written with. The error sum is at most Half
per counted symbol plus 4, which is what makes k exist (`ParameterExists`); the
halving at 128 keeps that (`HalvedParts`), and the clamps of update_state keep
the drift within one count (`RebalancedParts`).

And about SliceSamples, for streams of either coder and colour space, 1 to 16 bits,
rows of any length below 2^24, any height, any tables whose sums are contexts of
the stream (which `ContextsAlwaysInRange` shows of those that are read), any images and any
number of frames (SampleAssumption):

- `SlicesRoundTrip`: `Spec => []RoundTrip`, a decoded slice is the slice that was
  encoded, and nothing of it is refused;
- `AdaptationIsShared`: `Spec => []SameAdaptation`, behind a slice both ends hold the same
  contexts and run indexes, from which the next frame of the GOP starts;
- `RunsAreConserved`: `Spec => []RunsConserved`, for *any* bits, also those of another
  encoder: what the segments announced is copied or pending, only one run state has
  something pending, and no run passes the end of its row.

The invariant is `SliceInv`, in three parts. `SliceTypes` is the stream and whose
bits they are. `SliceRuns` is the ledger of the runs (`Ledger`): announced samples
are the copied ones plus those pending in the run state of the plane in
progress, nothing is pending at the end of a plane (of the slice for RGB), nor
within a run. It needs nothing of the encoder, so it holds for foreign bits.

`OwnSlices` is for slices of this encoder. The encoder puts a whole run in one
step, the decoder takes it segment by segment, so their steps do not match one
to one, and the bits written so far do not say where the decoder will stop. The invariant
therefore remembers the encoder: there is a *trace* behind the coded slice
(`Trace`), nodes with a row, a place in it, a state and a position in the
bits, each step of which is the piece of a sample, a symbol or a run, or the end of a line, and the
bits from a node's position on hold the piece of its step (`Holds`). While the
encoder works it has `Reached` the last node. While the decoder works (`Follows`) it is

- at a node of the trace, with lines, contexts and run indexes that are the node's (`AtNode`,
  `Matches`: RGB lines are swapped together, and later than the encoder's), or
- m full runs into the run that leads from a node to the next (`InRun`), or
- behind the last segment of that run, in front of the difference that ends it (`BehindRun`),

and what it has stored is the image up to the row it is in (`RowsStored`). Each action
takes it from one of these places to one of them:

- a codeword, and a run with its table of lengths, are read from the bits they were
  written as: `Zeros` finds the prefix (`CodeRead`), full runs as many as
  `Covered` says, then the partial one (`RunWritten`, `RunSegment`); the sums and
  powers of two that recursion defines are characterised one element at a time;
- copied samples are the encoder's because in a run each equals its prediction
  from samples that already agree (`CanCopy`, `CopiesUntil`);
- the context is bounded by `ContextBounds`' argument, so a parameter exists and no
  codeword is refused (`SymbolStep`), and its number is one of the stream
  (`FitsContexts`);
- a difference leads back to its sample modulo 2^bits (`SampleStep`, `SymbolStep`), and the
  inverse transform to the pixel, with FFmpeg's swapped order too
  (`RgbRow`);
- behind the last row the decoder is at the last node, so its position, aligned, is the
  length of the bits: no bytes are left over (`FollowsEnd`, `OwnDecodeEnd`).

A segment of our own encoder never leaves anything pending (`OwnNotPending`); pending
samples on a later row come from other encoders, and are the ledger's matter.

ConfigurationRecordProofs proves, for halves of any length, every limit and any
runs a record holds (QuantTablesAssumption):

- `ContextsAlwaysInRange`: `SpecTables => []ContextsInRange`;
- `EntriesAlwaysFit`: the entries and their mirror images fit 32 bits;

and for any parameters of their C++ types, any transition table, number of
initial states and values of a byte (RecordAssumption; an entry can be as large
as the limit on contexts, and an int holds 4, the version of the profile):

- `RecordAlwaysRoundTrips`: `Spec => []RecordRoundTrip`.

`TablesInv` carries a bound for each table that was read: entries of table i lie
between -bound[i] and bound[i], and twice the sum of the bounds, plus one, is at
most the scale. A table of n runs has entries up to scale * (n - 1) and multiplies
the scale by 2n - 1, which is exactly what keeps it (`NextScale`,
`EndTableStep`). With the number of contexts (scale + 1) / 2 this is the
property.

For the round trip `RecordInv` says at every symbol of an undamaged record where
the parser is (`Stage`): in the first two fields (`HeadShape`), the transition
table (`DeltaShape`), the fields behind it (`NineShape`), a set of tables
(`SetStage`), the flag or the values of the initial states (`CodedShape`,
`StateShape`), or the last two fields (`EndShape`). Each of them relates three
things: what the parser still has to do, the record that is left, which is what
the writer put behind the symbols read so far, and the parameters read, which are
the writer's up to there (`Expected`). Then the symbol in front always has the
kind and the context the parser asks for, its value is the field's, and every
check on it passes because the writer made one as strong (`Facing`,
`FieldTaken`, `GoodTypes`). Inside a set, the entries read so far are the
writer's and the runs left are those of the rest of the table
(`TableStage`): the n-th run of an encodable table holds the n-th multiple of
its scale (`EncodableStairs`), the reader's scale is the writer's, and what is
mirrored is what the writer found mirrored (`EndTableIntact`). Entries are
refused for their size (`RefuseRunIntact`), and sets for their number of contexts
(`EndSetIntact`), only when a set has more contexts than a reader allows, which is the
exception the property names. The state in a
prediction is the one the writer subtracted, so adding the difference modulo 256
gives it back (`ReadStateIntact`). Joined symbols and scales are defined by
recursion; they are characterised one element at a time, as in FrameSlicesProofs.
A damaged record needs no stage: it can be accepted only with a version below 3,
because the check of the CRC stands in front of version 3.

SliceEncodeExecutorProofs proves, for any number of slices and threads, any GOP and
any bodies (EncodeAssumption, NoCallAssumption: the value that stands for "no
call" is not a call):

- `TypeCorrect`, `NoWorkerOutlivesCall`, `StatesFollowFrame`: the three safety
  properties of the run;
- `Refinement`: Spec implements AtomicEncodeExecutor, that is the payload and the
  states of a call are those of coding the slices one after the other.

`IInv` of SliceEncodeExecutor has the parts of the decode executor's invariant:
a call has locals only while it codes (`CallInv`), the batches hand the
slices out in order (`CountInv`, `PhaseInv`), and what became of a slice is what
coding it from the state *the call started with* gives (`ResultInv`), which is
what makes a batch and a loop the same. `Outcomes` turns the vector of futures
of a finished call into the answer of the atomic one, where the first failure in
slice order wins.

CodecSessionProofs proves, for every set of configurations, pictures and keyframe
intervals and any number of frames lost, repeated, reordered or damaged
(FramesAssumption, NoneAssumption: "no frame" is not a frame), all six properties of the session:
`TypeCorrect`, `SequencesAreExact`, `SequencesAreAccepted`, `CadenceIsKept`,
`EncoderNeverStuck`, `StatesAreOwn`. `IInv` of CodecSession ties three things
together: each frame sent goes on from the states its predecessor left
(`SentInv`), the encoder has the states its last frame left (`EncoderInv`), and
the decoder has those of the frame it is in sequence with, which is one that an
encoder made (`DecoderInv`). A frame in sequence is then the successor of that
frame and starts from just these states (`SequenceReadable`). It needs the
histories of the two ends to be compared, not only their lengths: a decoder
that is one frame behind has a state of its own.

RasterSweepProofs proves, for every stream, grid and frame of slices
(StreamsAssumption, LayoutsAssumption):

- `SweepDecidesCoverage`: Spec implements RasterCoverage. The sweep accepts exactly
  the frames in which every cell of the grid is in one slice, and tells slices that
  leave cells out from slices that are refused;
- `AcceptedSlicesPartition`: `Spec => []WindowsPartition`. Grid
  positions are monotone from 0 to the extent (`Positions`), so each sample of a
  plane lies in exactly one cell (`CellOfSample`), and in a window exactly when its
  cell lies in the rectangle (`SampleInWindow`). An exact cover of the cells is
  therefore one of the samples, also when a plane has fewer samples than cells;
- `EncoderGridIsAccepted`: `Spec => []EncoderGridAccepted`, the regular grid of an
  encoder is such a cover and none of its windows is empty.

`IInv` of RasterSweep says what the sweep has found out. While it checks slices,
`covered_area` is the number of cells covered provided that the slices so far
are disjoint (`AreaInv`); exceeding the grid is therefore proof of an overlap or
of a slice outside. While it sweeps, the events taken come before those that are
left (`OrderInv`), the slices begun are disjoint, and the map of occupied rows
holds exactly the rows of those that are open (`RowsInv`). That the two
neighbours of the new slice's row are enough to see an overlap
(`NoOverlapIsApart`, `OverlapIsShared`) rests on the open slices being
disjoint in their rows; that ends come before starts in the same column
(`OrderOfEvents`) on the order of the events. Areas are counted by
induction over a finite interval with the theorems on cardinality
(`CellsCounted`, `UnionGrows`).

FrameSlicesProofs proves, for any frames an encoder may send and anything that may happen
to them (SourcesAssumption, TransportsAssumption, SizeAssumption: the writer refuses
slices whose size has more than 24 bits, CoverAssumption: the rectangles of an
encoder cover the grid, as `EncoderGridIsAccepted` shows of the regular one):

- `SlicesAreRecovered`: `Spec => []SlicesRecovered`, a frame that arrives as it was
  sent is taken apart into the slices it was made of, with checksums, without, and legacy;
- `AcceptedFramesAreWhole`: `Spec => []NothingBetween`, the slices of an accepted frame
  lie next to each other and fill the payload, whatever its bytes are;
- `TypeCorrect`: `Spec => []TypeInv`, nothing outside the payload is read.

`IInv` of FrameSlices has three parts. `TypeInv` puts every slice that was found inside
the payload with its footer, so that there is a flag and a header to read in it.
`ScanInv`: the slices found so far fill what is behind the part that
remains. `IntactInv`, for a frame that arrives as it was sent: after n rounds the
located slices are its last n and what remains ends where the next one ends;
later the headers that were read are a prefix of those that were written. Most of
the proof is about the bytes. The joined pieces hold each piece at its place
(`Flattened`), a footer says how long its slice is and brings the checksum to
zero (`FooterAppended`, `ParityCompletes`), so a round of the scan finds the slice that ends
there (`CandidateIntact`). Legacy headers end in time because fewer rectangles than a
cover leave a cell out (`PrefixIncomplete`), and disjoint rectangles that are as many as the
cells leave none (`Pigeonhole`); so no byte of the content is read as a header and the
return behind the loop of frame_parser.cpp:389 is not reached.
What recursion defines here, the joined bytes, where a piece starts and the sum of the
bytes, is characterised one element at a time (`IterationExists`, `PiecesBefore`,
`ChecksumAppend`) by induction over the members of a set (`SetInduction`).

Only model-checked, and why:

- `CallReturns` of both executors, and that the sweep always decides: liveness is
  beyond the prover;
- DamageNamed and the other half of OnlyWholeFrames (`OnlySent`): they depend on a
  checksum noticing what happened, which is true of the damages of the model
  and of no checksum for every damage.

Every other invariant a run checks is a theorem. TLC evaluated every IInv as an
invariant of its model before it was proved, but for the trace in `OwnSlices`, an
existential TLC cannot enumerate; of SliceInv it evaluated the other parts.

## 5. Findings

`range_slice_accepted`: the encoder writes a range-coded slice that its own
decoder refuses. `finalize_closed` may leave out the last byte of the lower
bound when it is zero (entropy/range_encoder.cpp:484-488). FrameParser reads the
slice header over payload and footer, so its reader takes the first footer byte
for the missing one and counts it in content_byte_offset; if the content makes
the coder take in no further byte, the offset is behind the payload and
SliceDecoder::resolve_content_payload (codec/slice_decoder.cpp:1102) refuses the slice.
plans/PHASE5_ENCODER_SPEC.md:29 asks for the contrary. It needs
a slice of very few samples; sessions are modelled as if it did not happen.

`frame_slices_reserved`: when the footer of a slice behind the first has a
reserved error_status, locate_slices reports slice 0
(codec/slice_payload_locator.cpp:174), although docs/DECODER_REFERENCE.md:423 says
that slice indexes count in payload order. For a wrong CRC the slices in front
are counted, for a wrong status they are not.

Without a run: docs/ENCODER_REFERENCE.md:157 and :404 give 8 to 16 bits per sample,
the encoder accepts 1 to 16 (mffv1/profile_constraints.hpp).

## 6. Not modelled

- Vector kernels and CPU dispatch, status texts, memory exhaustion, tests,
  fuzzers, the build: no state, or nothing but data that unit tests enumerate.
- Pointers, strides and roles of caller planes, and with them frame_validator and
  frame_info_builder: checks in front of any state change.
- Slices without a raster, in the executor and in the windows: the frame parser
  always gives a raster.
- The row order and the range arithmetic of version 0 and 1 streams, which the
  encoder never writes; their frames are in FrameSlices and in the sessions.
- Chroma planes of planar streams in SliceSamples, runs of 2^24 samples (the end of
  the table of run lengths) and the traces for the observer.
- Slices of 2^24 bytes and more, and the indexes, picture structure and sample
  aspect of a slice header.
- The arithmetic of the CRC: a sum in FrameSlices, a flag in ConfigurationRecord.
- Overflow tests of the table scale in 64 bits, which five tables of at most 128
  runs cannot reach.
- Which of two Golomb-Rice content boundaries another encoder meant
  (slice_executor.cpp:59): the order in which they are tried is in SliceExecutor.

`OnlyWholeFrames` asks for the exact set of slices only when the first one
kept its place: a first slice behind others is read without its keyframe flag, as
a header that happens to be another one.

See the components of PROJECT.json.

## 7. Plan

Every module of the plan is written, and each safety invariant of a run is proved or
its exception named in section 4. What could follow: chroma planes of planar
streams in SliceSamples, and the vector kernels against the transform they replace.
